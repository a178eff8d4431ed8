------------------------------ MODULE MCRedfish ------------------------------
(* Boxes for RedfishInventory: every vendor with and without what makes its   *)
(* handlers differ.                                                            *)
EXTENDS RedfishInventory

Disk(c, identity, rotation) == [controller |-> c, identity |-> identity, rotation |-> rotation]

Part(kind, application, at) == [kind |-> kind, application |-> application, at |-> at]

Plain ==
    [sockets |-> <<TRUE, FALSE, TRUE>>, logical |-> 4, controllers |-> {"c1", "c2"}, ownIds |-> {},
     drives |-> <<Disk("c1", TRUE, TRUE), Disk("unknown", TRUE, TRUE), Disk("c1", TRUE, FALSE)>>,
     volumes |-> <<{1}, {1, 3}>>, nics |-> {"eth0", "eth1"}, ports |-> {"COM1"}, log |-> {7, 9},
     software |-> {Part("PSU", FALSE, "PSU.1"), Part("USC", TRUE, "USC.1"), Part("RAID", FALSE, "RAID.1"),
                   Part("NIC", FALSE, "eth0")}]

Odd ==
    [Plain EXCEPT !.sockets = <<TRUE, FALSE, FALSE>>, !.logical = 2, !.volumes = <<{1}, {4}>>, !.ownIds = {"r1"},
                  !.drives = <<Disk("c1", TRUE, TRUE), Disk("c1", FALSE, TRUE), Disk("c1", TRUE, TRUE)>>]

Bare == [Odd EXCEPT !.drives = <<Disk("c1", FALSE, TRUE)>>, !.volumes = <<>>]

InBand == {"ohai", "dmi", "smart", "ipmi-mc-info", "bmc", "pollers", "obms"}
OutOfBand == {"hardware", "boot", "bios", "nics", "software", "ohai", "dmi", "pollers", "obms", "bmc"}
UCS == {"UCS", "UCS:board", "UCS:bios", "UCS:locator-led", "chassis UCS", "chassis pollers",
        "ipmi-mc-info", "obms", "bmc", "pollers", "dmi"}
Own == {"its own page", "chassis page", "Redfish", "ipmi-mc-info", "obms", "pollers", "dmi", "bmc", "power", "cooling"}

Others ==
    {[type |-> "power", domain |-> "d", kind |-> "PDU"], [type |-> "cooling", domain |-> "d", kind |-> "CRAC"],
     [type |-> "switch", domain |-> "d", kind |-> "tor"]}

Installed(ids, enclosure, expected, machine) ==
    [node |-> TRUE, ids |-> ids, enclosure |-> enclosure, expected |-> expected,
     machine |-> machine, others |-> {}]

MCBox ==
    {Installed(<<"mac">>, "rack", InBand, Plain),
     Installed(<<"mac">>, "blade", InBand, Odd),
     Installed(<<"mac">>, "none", InBand \cup {"Redfish"}, Odd),
     Installed(<<"mac">>, "none", InBand, Bare),
     Installed(<<"mac", "Dell">>, "rack", OutOfBand, Plain),
     Installed(<<"Dell">>, "none", OutOfBand, Odd),
     Installed(<<"Dell">>, "none", OutOfBand \cup {"smart"}, [Bare EXCEPT !.drives = <<>>]),
     Installed(<<"Redfish", "Dell">>, "rack", OutOfBand \cup {"its own page", "chassis page"}, Plain),
     Installed(<<"Cisco", "mac">>, "blade", UCS, Plain),
     [Installed(<<"Redfish">>, "rack", Own, Odd) EXCEPT !.others = Others],
     [Installed(<<"mac">>, "alone", {}, Plain) EXCEPT !.node = FALSE]}
=============================================================================

-------------------------- MODULE RedfishInventory --------------------------
(***************************************************************************)
(* The readable part of the Redfish tree: the handlers of lib/api/         *)
(* redfish-1.0 that turn a node, its relations and its latest catalogs     *)
(* into a resource with links to others.  Discovery stores the catalogs    *)
(* one after the other while a client walks from link to link; it may hold *)
(* a page rendered before a catalog arrived and follow its links after.    *)
(*                                                                         *)
(* A handler is an operator whose value is {} when it answers with an      *)
(* error, and the set of one element, the links of the page, when it       *)
(* renders.  A link is a tuple: the kind of resource and what its address  *)
(* says besides the node; positions count from 1.  One compute node "n"    *)
(* and one enclosure "e" stand for all: no handler but the firmware        *)
(* inventory looks at two nodes together.                                  *)
(***************************************************************************)
EXTENDS Naturals, Sequences, FiniteSets, SequencesExt

CONSTANTS
    Box,            \* what may be installed: a set of records, see below
    MaxMissing      \* how many catalogs discovery has still to store at first

\* The fields of a box are: node, whether there is a compute node; ids, the kinds
\* of its identifiers in their order; enclosure, none, alone (nothing in it), rack
\* or blade; expected, what discovery stores; machine, what the catalogs describe;
\* others, the power, cooling and switch nodes.
ASSUME BoxAssumption ==
    \A b \in Box :
        /\ b.ids \in Seq({"mac", "Dell", "Cisco", "Redfish"})
        /\ b.enclosure \in {"none", "alone", "rack", "blade"}
        /\ b.enclosure \in {"rack", "blade"} => b.node
        /\ b.machine.sockets \in Seq(BOOLEAN)
        /\ \A f \in b.machine.software :
              f.application => f.kind \in {"DriverPack", "OSCollector", "Diagnostics", "USC"}

\* The first identifier that has the form of one of the vendors decides.
VendorOf(b) ==
    LET first == SelectInSeq(b.ids, LAMBDA id : id # "mac")
    IN IF first = 0 THEN "other" ELSE b.ids[first]

\* Any identifier will do here.
DellIn(b) == "Dell" \in ToSet(b.ids)

\* Discovery stores every catalog that the vendor's handlers read, and the catalogs of a
\* machine agree: its populated sockets are among its logical processors and its list of
\* software names interfaces it has.
Complete(b) ==
    /\ b.node =>
          /\ {"dmi", "obms", "pollers", "bmc"} \subseteq b.expected
          /\ IF DellIn(b) THEN {"hardware", "nics"} \subseteq b.expected
             ELSE "ipmi-mc-info" \in b.expected /\ "software" \notin b.expected
          /\ CASE VendorOf(b) = "Dell" -> "boot" \in b.expected
               [] VendorOf(b) = "Cisco" ->
                      {"UCS", "UCS:board", "UCS:bios", "UCS:locator-led"} \subseteq b.expected
               [] VendorOf(b) = "Redfish" -> "its own page" \in b.expected
               [] OTHER -> {"ohai", "smart"} \subseteq b.expected
    /\ b.enclosure \in {"rack", "blade"} =>
          CASE VendorOf(b) = "Cisco" -> {"chassis UCS", "chassis pollers"} \subseteq b.expected
            [] VendorOf(b) = "Redfish" -> "chassis page" \in b.expected
            [] OTHER -> {"ohai", "pollers"} \subseteq b.expected
    /\ \E i \in DOMAIN b.machine.sockets : b.machine.sockets[i]
    /\ \A i \in DOMAIN b.machine.sockets : b.machine.sockets[i] => i <= b.machine.logical
    /\ \A f \in b.machine.software : f.kind = "NIC" => f.at \in b.machine.nics
    /\ \A d \in b.others : d.type \in {"power", "cooling"} => d.type \in b.expected

ASSUME CatalogsAssumption == \A b \in Box : Complete(b)

VARIABLES
    box,            \* the one that is installed
    present,        \* catalogs, poller data and management settings stored so far
    shown           \* links of the page the client holds

rvars == <<box, present, shown>>

InventoryInit ==
    /\ box \in Box
    /\ present \in {p \in SUBSET box.expected : Cardinality(box.expected \ p) <= MaxMissing}
    /\ shown = {<<"Root">>}

Page(rendered, links) == IF rendered THEN {links} ELSE {}

Only(condition, links) == IF condition THEN links ELSE {}

\* getNodeCatalogSourceById, findPollers and findByNode for the node.
Stored(sources) == box.node /\ sources \subseteq present

Machine == box.machine

Vendor == VendorOf(box)

IsDell == DellIn(box)

Enclosed == box.enclosure \in {"rack", "blade"}

--------------------------------------------------------------------------
(* systems.js: the system, its processors and its interfaces.             *)

listSystems == Page(TRUE, Only(box.node, {<<"System">>}))

getSystem ==
    Page(Stored(CASE Vendor = "Dell" -> {"hardware", "boot"}
                  [] Vendor = "Cisco" -> {"UCS", "UCS:bios", "UCS:locator-led"}
                  [] Vendor = "Redfish" -> {"its own page"}
                  [] OTHER -> {"ohai", "dmi"}),
         Only(Vendor # "Redfish",
              {<<"Processors">>, <<"Nics">>, <<"SimpleStorages">>, <<"Logs">>,
               <<"Manager", "n">>, <<"Manager", "RackHD">>}
              \cup Only(Vendor \in {"Dell", "Cisco"}, {<<"Storages">>})
              \cup Only(Enclosed, {<<"Chassis", "e">>})))

\* The loop takes entries out of the sequence it walks along: the neighbour of an
\* entry it takes out is not looked at.
Spliced(sockets) ==
    LET list[i \in 0 .. Len(sockets)] ==
            IF i = 0 THEN sockets
            ELSE LET s == list[i - 1] IN IF i <= Len(s) /\ ~s[i] THEN RemoveAt(s, i) ELSE s
    IN list[Len(sockets)]

Populated == Cardinality({i \in DOMAIN Machine.sockets : Machine.sockets[i]})

Cpus(count) == {<<"Processor", i>> : i \in 1 .. count}

listSystemProcessors ==
    CASE Vendor = "Dell" -> Page(Stored({"hardware"}), Cpus(Populated))
      [] Vendor = "Cisco" -> Page(Stored({"UCS"}), Cpus(Populated))
      [] OTHER -> Page(Stored({"dmi"}) /\ Spliced(Machine.sockets) # <<>>,
                       Cpus(Len(Spliced(Machine.sockets))))

\* Mutation: the comparison with the length of the list is off by one.
ProcessorBelowCount(i) ==
    CASE Vendor = "Dell" -> Page(Stored({"hardware"}) /\ i < Populated, {})
      [] Vendor = "Cisco" -> Page(Stored({"UCS:board"}) /\ i < Populated, {})
      [] OTHER -> Page(Stored({"ohai", "dmi"}) /\ i < Machine.logical /\ Machine.sockets[i], {})

\* Here the position is one among all sockets again: the page of an empty one is not
\* valid JSON.
getSystemProcessor(i) ==
    CASE Vendor = "Dell" -> Page(Stored({"hardware"}) /\ i <= Populated, {})
      [] Vendor = "Cisco" -> Page(Stored({"UCS:board"}) /\ i <= Populated, {})
      [] OTHER -> Page(Stored({"ohai", "dmi"}) /\ i <= Machine.logical /\ Machine.sockets[i], {})

NicSource == IF IsDell THEN {"nics"} ELSE {"ohai"}

listSystemEthernetInterfaces == Page(Stored(NicSource), {<<"Nic", n>> : n \in Machine.nics})

listSystemEthernetInterfacesById(n) == Page(Stored(NicSource) /\ n \in Machine.nics, {})

\* The settings are on a page of their own; both need the catalog of a Dell system.
listSystemBios == Page(IsDell /\ Stored({"bios"}), {<<"BiosSettings">>})

listSystemBiosSettings == Page(IsDell /\ Stored({"bios"}), {})

getSecureBoot == Page(IsDell /\ Stored({"obms"}), {})

--------------------------------------------------------------------------
(* systems.js: the storage, under two collections that share the devices. *)

SmartControllers == {d.controller : d \in ToSet(Machine.drives)} \ {"unknown"}

listSimpleStorage ==
    CASE Vendor = "Dell" -> Page(Stored({"hardware"}), {<<"SimpleStorage", c>> : c \in Machine.controllers})
      [] Vendor = "Cisco" -> Page(Stored({"UCS:board"}), {<<"SimpleStorage", c>> : c \in Machine.controllers})
      [] OTHER -> Page(Stored({"dmi", "smart"}), {<<"SimpleStorage", c>> : c \in SmartControllers})

getSimpleStorage(c) ==
    CASE Vendor = "Dell" -> Page(Stored({"hardware"}) /\ c \in Machine.controllers, {})
      [] Vendor = "Cisco" -> Page(Stored({"UCS:board"}) /\ c \in Machine.controllers, {})
      [] OTHER -> Page(Stored({"dmi", "smart"}) /\ c \in SmartControllers, {})

\* Without catalogs of the device's own Redfish service the disks' SMART data serves.
listStorage ==
    CASE IsDell -> Page(Stored({"hardware"}), {<<"Storage", c>> : c \in Machine.controllers})
      [] ~IsDell /\ Stored({"Redfish"}) -> Page(TRUE, {<<"Storage", c>> : c \in Machine.ownIds})
      [] OTHER -> Page(Stored({"dmi", "smart"}), {<<"Storage", c>> : c \in SmartControllers})

\* A Dell system answers for any adapter with the drives of all.
getStorage(c) ==
    CASE IsDell -> Page(Stored({"hardware"}),
                        {<<"Drive", c, i>> : i \in DOMAIN Machine.drives} \cup {<<"Volumes", c>>})
      [] ~IsDell /\ Stored({"Redfish"}) ->
             Page(c \in Machine.ownIds, {<<"Drive", c, i>> : i \in DOMAIN Machine.drives})
      [] OTHER ->
             Page(Stored({"dmi", "smart"}) /\ c \in SmartControllers,
                  {<<"Drive", c, i>> : i \in {i \in DOMAIN Machine.drives :
                       Machine.drives[i].controller = c /\ Machine.drives[i].identity}})

\* The search through the SMART data ends with an error at a disk without identity.
getDrive(c, i) ==
    IF IsDell
    THEN Page(Stored({"hardware"}) /\ i \in DOMAIN Machine.drives,
              {<<"Volume", c, v>> : v \in {v \in DOMAIN Machine.volumes : i \in Machine.volumes[v]}})
    ELSE Page(/\ Stored({"smart"}) /\ i \in DOMAIN Machine.drives
              /\ \A j \in 1 .. i : Machine.drives[j].identity
              /\ Machine.drives[i].controller = c /\ Machine.drives[i].rotation, {})

listVolume(c) ==
    Page(IsDell /\ Stored({"hardware"}), {<<"Volume", c, v>> : v \in DOMAIN Machine.volumes})

\* The loop over the drives has the length of the name it looks for as its bound: a
\* drive that is no longer listed ends it with an error.
getVolume(c, v) ==
    Page(/\ IsDell /\ Stored({"hardware"}) /\ v \in DOMAIN Machine.volumes
         /\ Machine.volumes[v] \subseteq DOMAIN Machine.drives,
         {<<"Drive", c, i>> : i \in Machine.volumes[v]})

--------------------------------------------------------------------------
(* systems.js: the logs, of the WS-Man service or of the pollers.         *)

listLogService == Page(box.node, {<<"Sel">>} \cup Only(IsDell, {<<"Lc">>}))

LogSource == IF IsDell THEN {"obms"} ELSE {"pollers"}

getSelLogService == Page(Stored(LogSource), {<<"SelEntries">>})

listSelLogServiceEntries == Page(Stored(LogSource), {<<"SelEntry", i>> : i \in Machine.log})

getSelLogServiceEntry(i) == Page(Stored(LogSource) /\ i \in Machine.log, {})

getLcLogService == Page(IsDell /\ Stored({"obms"}), {<<"LcEntries">>})

listLcLogServiceEntries == Page(IsDell /\ Stored({"obms"}), {<<"LcEntry", i>> : i \in Machine.log})

getLcLogServiceEntry(i) == Page(IsDell /\ Stored({"obms"}) /\ i \in Machine.log, {})

--------------------------------------------------------------------------
(* managers.js: a manager for each system, and this program itself.       *)

listManagers ==
    Page(TRUE, {<<"Manager", "RackHD">>} \cup Only(Stored({"obms"}), {<<"Manager", "n">>}))

\* The first compute node is looked at for this program's own manager too.
getManager(m) ==
    Page(box.node /\ (m # "RackHD" => Stored({IF IsDell THEN "dmi" ELSE "ipmi-mc-info"})),
         {<<"System">>} \cup Only(Enclosed, {<<"Chassis", "e">>})
         \cup IF m = "RackHD" THEN {<<"LocalNics">>, <<"Protocol", m>>}
              ELSE {<<"ManagerNics">>} \cup Only(~IsDell, {<<"Serials">>}))

listManagerNetworkProtocol(m) == Page(m = "RackHD" \/ Stored({"obms"}), {})

listManagerEthernetInterfaces == Page(Stored({"obms"}), {<<"ManagerNic">>})

getManagerEthernetInterface == Page(Stored({"obms", "bmc"}), {})

listLocalEthernetInterfaces == Page(TRUE, {<<"LocalNic">>})

getLocalEthernetInterface == Page(TRUE, {})

listManagerSerialInterfaces == Page(~IsDell /\ Stored({"dmi"}), {<<"Serial", p>> : p \in Machine.ports})

\* A port that is not there has no state to render.
getManagerSerialInterface(p) == Page(~IsDell /\ Stored({"dmi"}) /\ p \in Machine.ports, {})

--------------------------------------------------------------------------
(* chassis.js: enclosures and the blades in them.                         *)

\* The node whose id becomes that of the blade is the one already in the list: a blade
\* takes the place of its enclosure.
listChassis ==
    Page(TRUE, Only(box.enclosure # "none",
                    {<<"Chassis", IF box.enclosure = "blade" THEN "e.n" ELSE "e">>}))

\* Of a UCS chassis the catalog of its own counts, else those of the system in it.
getChassis(id) ==
    CASE Vendor = "Redfish" -> Page("chassis page" \in present, {})
      [] OTHER ->
           Page(/\ Enclosed
                /\ IF Vendor = "Cisco" THEN "chassis UCS" \in present ELSE Stored({"ohai", "pollers"}),
                {<<"Thermal", id>>, <<"Power", id>>, <<"System">>, <<"Manager", "RackHD">>}
                \cup Only(box.enclosure = "blade", {<<"Chassis", IF id = "e" THEN "e.n" ELSE "e">>}))

getThermal(id) ==
    Page(IF Vendor = "Cisco" THEN "chassis pollers" \in present
         ELSE Enclosed /\ Stored({"pollers"}), {})

getPower(id) ==
    Page(IF Vendor = "Cisco" THEN "chassis pollers" \in present
         ELSE Enclosed /\ Stored({"pollers"}), {})

--------------------------------------------------------------------------
(* update-service.js: what the catalogs say of firmware and software.     *)

getUpdateService == Page(TRUE, {<<"FirmwareList">>})

\* The components found, by the kind their address names; what a Dell system lists as
\* an application is no firmware.
getFwCollections(application) ==
    Only(Stored({"software"}), {f.kind : f \in {f \in Machine.software : f.application = application}})
    \cup Only(~application /\ Stored({"dmi"}), {"BIOS"})
    \cup Only(~application /\ Stored({"ipmi-mc-info"}), {"BMC"})
    \cup Only(~application /\ Stored({"smart"}), {"Disk"})

\* The first disk of a node speaks for all and has to have an identity where its
\* firmware counts.
getVersions(application) ==
    Stored({"smart"}) => Machine.drives # <<>> /\ (application \/ Machine.drives[1].identity)

getFirmwareInventoryList == Page(getVersions(FALSE), {<<"Firmware", k>> : k \in getFwCollections(FALSE)})

getSoftwareInventoryList == Page(getVersions(TRUE), {<<"Software", k>> : k \in getFwCollections(TRUE)})

\* Where components of a kind are, fwPathsLookups and swPathsLookups.
RelatedItems(k) ==
    CASE k \in {"iDRAC", "BMC", "USC"} -> {<<"Manager", "n">>}
      [] k = "PSU" -> {<<"Power", "e">>}
      [] k = "Enclosure" -> {<<"Chassis", "e">>}
      [] k \in {"RAID", "Disk"} -> {<<"SimpleStorages">>}
      [] k = "NIC" -> {<<"Nic", f.at>> : f \in {f \in Machine.software : f.kind = k}}
      [] OTHER -> {<<"System">>}

\* The enclosure is the first target of the node's first relation.
updateChassisIds(k) == k \in {"PSU", "Enclosure"} => Enclosed

getSoftFwInventory(k, application) ==
    Page(getVersions(application) /\ k \in getFwCollections(application) /\ updateChassisIds(k), RelatedItems(k))

--------------------------------------------------------------------------
(* dcimpower.js, dcimcooling.js, networks.js, service-root.js.            *)

listDCIMDomainCollection(k) == Page(TRUE, {<<"Domain", d.type, d.domain>> : d \in {d \in box.others : d.type = k}})

listDCIMDomain(k, domain) ==
    Page(TRUE, {<<"DCIMType", d.type, d.domain, d.kind>> :
                   d \in {d \in box.others : d.type = k /\ d.domain = domain}})

listDCIMTypeCollection(k, domain, kind) ==
    Page(TRUE, {<<"DCIM", d.type>> :
                   d \in {d \in box.others : d.type = k /\ d.domain = domain /\ d.kind = kind}})

\* The page the device itself gave, stored under its address.
listDCIMDefault(k) == Page(k \in present, {})

listNetworks == Page(TRUE, {<<"NetworkDevice">> : d \in {d \in box.others : d.type = "switch"}})

\* The handler calls a function that the service does not have.
getNetwork == Page(FALSE, {})

getServiceRoot ==
    Page(TRUE, {<<"Systems">>, <<"Managers">>, <<"ChassisList">>, <<"UpdateService">>}
               \cup {<<"DCIMs", k>> : k \in {"power", "cooling"}})

--------------------------------------------------------------------------
(* The operations of static/redfish.yaml, by the kind of their address.   *)

Get(l) ==
    CASE l[1] = "Root" -> getServiceRoot
      [] l[1] = "Systems" -> listSystems
      [] l[1] = "System" -> getSystem
      [] l[1] = "Processors" -> listSystemProcessors
      [] l[1] = "Processor" -> getSystemProcessor(l[2])
      [] l[1] = "Nics" -> listSystemEthernetInterfaces
      [] l[1] = "Nic" -> listSystemEthernetInterfacesById(l[2])
      [] l[1] = "Bios" -> listSystemBios
      [] l[1] = "BiosSettings" -> listSystemBiosSettings
      [] l[1] = "SecureBoot" -> getSecureBoot
      [] l[1] = "SimpleStorages" -> listSimpleStorage
      [] l[1] = "SimpleStorage" -> getSimpleStorage(l[2])
      [] l[1] = "Storages" -> listStorage
      [] l[1] = "Storage" -> getStorage(l[2])
      [] l[1] = "Drive" -> getDrive(l[2], l[3])
      [] l[1] = "Volumes" -> listVolume(l[2])
      [] l[1] = "Volume" -> getVolume(l[2], l[3])
      [] l[1] = "Logs" -> listLogService
      [] l[1] = "Sel" -> getSelLogService
      [] l[1] = "SelEntries" -> listSelLogServiceEntries
      [] l[1] = "SelEntry" -> getSelLogServiceEntry(l[2])
      [] l[1] = "Lc" -> getLcLogService
      [] l[1] = "LcEntries" -> listLcLogServiceEntries
      [] l[1] = "LcEntry" -> getLcLogServiceEntry(l[2])
      [] l[1] = "Managers" -> listManagers
      [] l[1] = "Manager" -> getManager(l[2])
      [] l[1] = "Protocol" -> listManagerNetworkProtocol(l[2])
      [] l[1] = "ManagerNics" -> listManagerEthernetInterfaces
      [] l[1] = "ManagerNic" -> getManagerEthernetInterface
      [] l[1] = "LocalNics" -> listLocalEthernetInterfaces
      [] l[1] = "LocalNic" -> getLocalEthernetInterface
      [] l[1] = "Serials" -> listManagerSerialInterfaces
      [] l[1] = "Serial" -> getManagerSerialInterface(l[2])
      [] l[1] = "ChassisList" -> listChassis
      [] l[1] = "Chassis" -> getChassis(l[2])
      [] l[1] = "Thermal" -> getThermal(l[2])
      [] l[1] = "Power" -> getPower(l[2])
      [] l[1] = "UpdateService" -> getUpdateService
      [] l[1] = "FirmwareList" -> getFirmwareInventoryList
      [] l[1] = "Firmware" -> getSoftFwInventory(l[2], FALSE)
      [] l[1] = "SoftwareList" -> getSoftwareInventoryList
      [] l[1] = "Software" -> getSoftFwInventory(l[2], TRUE)
      [] l[1] = "DCIMs" -> listDCIMDomainCollection(l[2])
      [] l[1] = "Domain" -> listDCIMDomain(l[2], l[3])
      [] l[1] = "DCIMType" -> listDCIMTypeCollection(l[2], l[3], l[4])
      [] l[1] = "DCIM" -> listDCIMDefault(l[2])
      [] l[1] = "Networks" -> listNetworks
      [] l[1] = "NetworkDevice" -> getNetwork

\* Resources no page links to.
Known ==
    {<<"Root">>, <<"Bios">>, <<"SecureBoot">>, <<"Storages">>, <<"SoftwareList">>, <<"Networks">>}

\* A client follows a link of its page or a known address.
Follow ==
    \E l \in shown \cup Known : \E links \in Get(l) :
        /\ shown' = links
        /\ UNCHANGED <<box, present>>

\* Discovery and its pollers are another program.
Store ==
    \E s \in box.expected \ present :
        /\ present' = present \cup {s}
        /\ UNCHANGED <<box, shown>>

InventoryNext == Follow \/ Store

InventorySpec == InventoryInit /\ [][InventoryNext]_rvars

--------------------------------------------------------------------------
Discovered == present = box.expected

(***************************************************************************)
(* What the code does not lead to, each for a reason of its own; the       *)
(* property below says that there is nothing else.                         *)
(***************************************************************************)
DeadEnd(l) ==
    \* getManager takes the first of the compute nodes for this program as well.
    \/ l[1] = "Manager" /\ l[2] = "RackHD" /\ ~box.node
    \* An enclosure without systems has no catalogs to render.
    \/ l[1] = "Chassis" /\ box.enclosure = "alone"
    \* A socket without processor shifts the positions of those after it, and of two
    \* such neighbours only the first is left out.
    \/ l[1] = "Processor" /\ ~Machine.sockets[l[2]]
    \* The bound of the search for a volume's drives.
    \/ l[1] = "Volume" /\ ~(Machine.volumes[l[3]] \subseteq DOMAIN Machine.drives)
    \* Disks behind one without identity, or without a rotation rate, and all disks
    \* whose storage was rendered from the device's own pages.
    \/ /\ l[1] = "Drive" /\ ~IsDell
       /\ \/ \E j \in 1 .. l[3] : ~Machine.drives[j].identity
          \/ ~Machine.drives[l[3]].rotation
          \/ l[2] \in Machine.ownIds
    \* The adapters change names when those pages arrive.
    \/ l[1] = "Storage" /\ ~IsDell /\ l[2] \notin Machine.ownIds /\ "Redfish" \in present
    \* UCS has no catalogs for the storage and interfaces its system page links to.
    \/ l[1] \in {"Storages", "Nics"} /\ Vendor = "Cisco"
    \* A node without disks hides the firmware and software of all; a first disk without
    \* identity hides the firmware.
    \/ l[1] \in {"FirmwareList", "Firmware"} /\ ~getVersions(FALSE)
    \/ l[1] = "Software" /\ ~getVersions(TRUE)
    \* Whose first identifier is that of its own pages has its RAID controllers looked
    \* for in the catalogs of other machines.
    \/ l[1] = "SimpleStorages" /\ Vendor = "Redfish" /\ "smart" \notin present
    \* A component of a chassis, in a node without enclosure.
    \/ l[1] = "Firmware" /\ l[2] \in {"PSU", "Enclosure"} /\ ~Enclosed
    \* networks.js
    \/ l[1] = "NetworkDevice"

(***************************************************************************)
(* Once all is stored, every link that a page has shown, even one rendered *)
(* half way, answers with a page: the handler of a collection and that of  *)
(* its members read different catalogs and count in different ways.        *)
(***************************************************************************)
LinksCanBeFollowed ==
    Discovered => \A l \in shown : Get(l) # {} \/ DeadEnd(l)
=============================================================================

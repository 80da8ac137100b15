---------------------------- MODULE MacScanProofs ----------------------------
(***************************************************************************)
(* What Fw::find_all reports on macOS, for every set of buses and devices  *)
(* and any number of hot-plug events between its visits.                   *)
(***************************************************************************)
EXTENDS MacScan, OperatorProofs

-----------------------------------------------------------------------------
(* Places. *)

PathSeq == Seq(Bus)

LEMMA PlacesAre ==
  /\ Places \subseteq PathSeq
  /\ \A p \in Places : Len(p) \in Nat /\ Len(p) > 0
  /\ \A slot \in Slots : slot.path \in Places /\ Len(slot.path) > 1 /\ Len(slot.path) # 1
<1>1. ASSUME NEW bus \in Buses
      PROVE  <<bus>> \in PathSeq /\ Len(<<bus>>) = 1
  BY SlotsAssumption DEF SlotsAssumption, PathSeq
<1>2. ASSUME NEW slot \in Slots
      PROVE  slot.path \in PathSeq /\ Len(slot.path) \in Nat /\ Len(slot.path) > 1
  <2>1. slot.path \in PathSeq
    BY SlotsAssumption DEF SlotsAssumption, PathSeq
  <2>2. PICK n : n = Len(slot.path)
    OBVIOUS
  <2>3. n \in 2..7
    BY <2>2, SlotsAssumption DEF SlotsAssumption
  <2>4. n \in Nat /\ n > 1
    BY <2>3
  <2> HIDE DEF PathSeq
  <2> QED
    BY <2>1, <2>2, <2>4
<1>3. ASSUME NEW p \in Places
      PROVE  p \in PathSeq /\ Len(p) \in Nat /\ Len(p) > 0
  <2>1. CASE \E bus \in Buses : p = <<bus>>
    <3>1. PICK n : n = Len(p)
      OBVIOUS
    <3>2. p \in PathSeq /\ n = 1
      BY <1>1, <2>1, <3>1
    <3> QED
      BY <3>1, <3>2
  <2>2. CASE \E slot \in Slots : p = slot.path
    <3>1. PICK n : n = Len(p)
      OBVIOUS
    <3>2. p \in PathSeq /\ n \in Nat /\ n > 1
      BY <1>2, <2>2, <3>1
    <3> QED
      BY <3>1, <3>2
  <2> QED
    BY <2>1, <2>2 DEF Places
<1>4. ASSUME NEW slot \in Slots
      PROVE  slot.path \in Places /\ Len(slot.path) > 1 /\ Len(slot.path) # 1
  <2>1. PICK n : n = Len(slot.path)
    OBVIOUS
  <2>2. n > 1 /\ n \in Nat
    BY <1>2, <2>1
  <2>3. n # 1
    BY <2>2
  <2>4. slot.path \in Places
    BY DEF Places
  <2> QED
    BY <2>1, <2>2, <2>3, <2>4
<1> QED
  BY <1>3, <1>4

\* The place of a device on a hub is not the hub's.
LEMMA FrontDiffers ==
  ASSUME NEW p \in PathSeq, Len(p) > 0
  PROVE  Front(p) \in PathSeq /\ Len(Front(p)) = Len(p) - 1 /\ Front(p) # p /\ IsPrefix(Front(p), p)
BY FrontIsPrefix, FrontElements DEF PathSeq

-----------------------------------------------------------------------------
(* The tree: every device hangs on hubs, and hubs have neither tty nor disk. *)

Attachable == {Attached(slot) : slot \in Slots}

LEMMA AttachedIs ==
  ASSUME NEW slot \in Slots
  PROVE  LET d == Attached(slot)
         IN  /\ d \in Attachable /\ d.prod = slot.prod /\ d.tty = slot.tty /\ d.disk = slot.disk
             /\ IsHub(d.prod) => ~d.tty /\ ~d.disk
<1>1. DOMAIN Controller = {"prod", "serial", "published", "container", "tty", "disk"}
  BY DEF Controller
<1>2. PICK d : d = Attached(slot)
  OBVIOUS
<1>3. d.prod = slot.prod /\ d.tty = slot.tty /\ d.disk = slot.disk
  BY <1>1, <1>2 DEF Attached
<1>4. IsHub(slot.prod) => ~slot.tty /\ ~slot.disk
  BY SlotsAssumption DEF SlotsAssumption
<1>5. d \in Attachable
  BY <1>2 DEF Attachable
<1> QED
  BY <1>2, <1>3, <1>4, <1>5

Closed ==
  \A q \in DOMAIN tree : \A a \in PathSeq :
    (Len(a) > 0 /\ IsPrefix(a, q))
      => a \in DOMAIN tree /\ (a # q => IsHub(tree[a].prod))

TreeInv ==
  /\ DOMAIN tree \subseteq Places
  /\ Closed
  /\ \A p \in DOMAIN tree :
       /\ IF Len(p) = 1 THEN tree[p] = Controller ELSE tree[p] \in Attachable
       /\ IsHub(tree[p].prod) => ~tree[p].tty /\ ~tree[p].disk

\* A hot-plug event leaves the rest of the tree alone, and what it changes is
\* everything below the place it changes.
Kept(paths) ==
  /\ \A p \in DOMAIN tree : p \in DOMAIN tree' => tree'[p] = tree[p]
  /\ \A p \in DOMAIN tree : p \in DOMAIN tree' \/ p \in paths
  /\ \A p \in DOMAIN tree' : p \in DOMAIN tree \/ p \in paths
  /\ paths \subseteq Places
  /\ \A d \in paths : \A p \in DOMAIN tree' : IsPrefix(d, p) => p \in paths

DistinctPaths(held) == \A s, t \in held : s.path = t.path => s = t

\* The services held before an event are held after it, some of them dead.
Aged(held, after, paths) ==
  /\ \A s \in after : \E t \in held :
       /\ s.path = t.path /\ s.at = t.at /\ s.dev = t.dev /\ s \in Service
       /\ s.live => t.live /\ s.path \in DOMAIN tree'
       /\ t.live /\ ~s.live => s.path \in paths
  /\ \A t \in held : \E s \in after : s.path = t.path /\ s.dev = t.dev
  /\ DistinctPaths(held) => DistinctPaths(after)

LEMMA Plugged ==
  ASSUME TreeInv, NEW slot \in Slots, Plug(slot)
  PROVE  TreeInv' /\ Kept({slot.path})
<1> DEFINE x == slot.path
<1>1. x \in Places /\ x \in PathSeq /\ Len(x) > 1 /\ Len(x) # 1 /\ Len(x) \in Nat
  BY PlacesAre
<1>2. \A p \in DOMAIN tree : p \in PathSeq /\ Len(p) > 0
  BY PlacesAre DEF TreeInv
<1>3. /\ x \notin DOMAIN tree
      /\ Front(x) \in DOMAIN tree /\ IsHub(tree[Front(x)].prod)
      /\ tree' = [p \in DOMAIN tree \cup {x} |-> IF p = x THEN Attached(slot) ELSE tree[p]]
  BY DEF Plug
<1>4. PICK new : new = Attached(slot)
  OBVIOUS
<1>5. new \in Attachable /\ (IsHub(new.prod) => ~new.tty /\ ~new.disk)
  BY <1>4, AttachedIs
<1> HIDE DEF x
<1>6. /\ DOMAIN tree' = DOMAIN tree \cup {x}
      /\ tree'[x] = new
      /\ \A p \in DOMAIN tree : tree'[p] = tree[p]
  BY <1>3, <1>4
<1>7. \A p \in DOMAIN tree : ~IsPrefix(x, p)
  BY <1>1, <1>3 DEF TreeInv, Closed
<1>8. Closed'
  <2> SUFFICES ASSUME NEW q \in DOMAIN tree', NEW a \in PathSeq, Len(a) > 0, IsPrefix(a, q)
               PROVE  a \in DOMAIN tree' /\ (a # q => IsHub(tree'[a].prod))
    BY DEF Closed
  <2>1. CASE q \in DOMAIN tree
    <3>1. a \in DOMAIN tree /\ (a # q => IsHub(tree[a].prod))
      BY <2>1 DEF TreeInv, Closed
    <3> QED
      BY <1>6, <3>1
  <2>2. CASE q = x /\ a = x
    BY <1>6, <2>2
  <2>3. CASE q = x /\ a # x
    <3>1. IsPrefix(a, Front(x))
      <4>1. Len(x) > 0
        BY <1>1
      <4> QED
        BY <1>1, <2>3, <4>1, StrictPrefixOfFront DEF PathSeq
    <3>2. a \in DOMAIN tree /\ (a # Front(x) => IsHub(tree[a].prod))
      BY <1>3, <3>1 DEF TreeInv, Closed
    <3>3. IsHub(tree[a].prod)
      BY <1>3, <3>2
    <3> QED
      BY <1>6, <3>2, <3>3
  <2> QED
    BY <1>6, <2>1, <2>2, <2>3
<1>9. TreeInv'
  <2>1. DOMAIN tree' \subseteq Places
    BY <1>1, <1>6 DEF TreeInv
  <2>2. ASSUME NEW p \in DOMAIN tree'
        PROVE  /\ IF Len(p) = 1 THEN tree'[p] = Controller ELSE tree'[p] \in Attachable
               /\ IsHub(tree'[p].prod) => ~tree'[p].tty /\ ~tree'[p].disk
    <3>1. CASE p = x
      <4> QED
        BY <1>1, <1>5, <1>6, <3>1
    <3>2. CASE p # x
      BY <1>6, <3>2 DEF TreeInv
    <3> QED
      BY <3>1, <3>2
  <2> QED
    BY <1>8, <2>1, <2>2 DEF TreeInv
<1>10. Kept({x})
  BY <1>1, <1>6, <1>7 DEF Kept
<1> QED
  BY <1>9, <1>10 DEF x

LEMMA Unplugged ==
  ASSUME TreeInv, NEW path \in DOMAIN tree, Unplug(path)
  PROVE  TreeInv' /\ Kept(Subtree(path))
<1>1. \A p \in DOMAIN tree : p \in Places /\ p \in PathSeq /\ Len(p) > 0
  BY PlacesAre DEF TreeInv
<1>2. /\ DOMAIN tree' = DOMAIN tree \ Subtree(path)
      /\ \A p \in DOMAIN tree \ Subtree(path) : tree'[p] = tree[p]
  BY DEF Unplug, Restrict
<1>3. \A p \in DOMAIN tree : p \in Subtree(path) <=> IsPrefix(path, p)
  BY DEF Subtree
<1>4. Subtree(path) \subseteq DOMAIN tree
  BY DEF Subtree
<1>5. Closed'
  <2> SUFFICES ASSUME NEW q \in DOMAIN tree', NEW a \in PathSeq, Len(a) > 0, IsPrefix(a, q)
               PROVE  a \in DOMAIN tree' /\ (a # q => IsHub(tree'[a].prod))
    BY DEF Closed
  <2>1. q \in DOMAIN tree /\ ~IsPrefix(path, q)
    BY <1>2, <1>3
  <2>2. a \in DOMAIN tree /\ (a # q => IsHub(tree[a].prod))
    BY <2>1 DEF TreeInv, Closed
  <2>3. ~IsPrefix(path, a)
    BY <1>1, <2>1, PrefixTransitive DEF PathSeq
  <2> QED
    BY <1>2, <1>3, <2>2, <2>3
<1>6. TreeInv'
  BY <1>2, <1>5 DEF TreeInv
<1>7. \A d \in Subtree(path) : \A p \in DOMAIN tree' : IsPrefix(d, p) => p \in Subtree(path)
  <2> SUFFICES ASSUME NEW d \in Subtree(path), NEW p \in DOMAIN tree', IsPrefix(d, p)
               PROVE  p \in Subtree(path)
    OBVIOUS
  <2>1. IsPrefix(path, d) /\ d \in PathSeq /\ p \in PathSeq /\ path \in PathSeq
    BY <1>1, <1>2, <1>3, <1>4
  <2>2. IsPrefix(path, p)
    BY <2>1, PrefixTransitive DEF PathSeq
  <2> QED
    BY <1>2, <1>3, <2>2
<1>8. Kept(Subtree(path))
  <2>1. Subtree(path) \subseteq Places
    BY <1>1, <1>4
  <2> QED
    BY <1>2, <1>4, <1>7, <2>1 DEF Kept
<1> QED
  BY <1>6, <1>8

\* A service is held of a device that is attached, or of a place that changed.
IsService(s) ==
  /\ s \in Service /\ Len(s.path) > 1 /\ s.at = s.path
  /\ s.live => s.path \in DOMAIN tree /\ tree[s.path] = s.dev
  /\ ~s.live => s.path \in disturbed

LEMMA NoneAged ==
  ASSUME NEW held, \A s \in held : s \in Service /\ (s.live => s.path \in DOMAIN tree'),
         NEW paths
  PROVE  Aged(held, held, paths)
BY DEF Aged

LEMMA SomeAged ==
  ASSUME NEW held, held \subseteq Service, NEW gone, DOMAIN tree' = DOMAIN tree \ gone,
         \A s \in held : s.live => s.path \in DOMAIN tree
  PROVE  Aged(held, WithDead(held, gone), gone)
<1> DEFINE dead(s) == [s EXCEPT !.live = s.live /\ s.path \notin gone]
           after == WithDead(held, gone)
<1>1. ASSUME NEW s \in held
      PROVE  /\ dead(s) \in after
             /\ dead(s).path = s.path /\ dead(s).at = s.at /\ dead(s).dev = s.dev
             /\ dead(s).live = (s.live /\ s.path \notin gone) /\ dead(s) \in Service
  <2>1. s \in Service
    OBVIOUS
  <2>2. dead(s) \in after
    BY DEF WithDead
  <2>3. PICK b \in BOOLEAN : b = (s.live /\ s.path \notin gone)
    BY <2>1 DEF Service
  <2>4. dead(s) = [s EXCEPT !.live = b]
    BY <2>3
  <2>5. dead(s).path = s.path /\ dead(s).at = s.at /\ dead(s).dev = s.dev /\ dead(s).live = b
    BY <2>1, <2>4 DEF Service
  <2>6. dead(s) \in Service
    BY <2>1, <2>4 DEF Service
  <2> QED
    BY <2>2, <2>3, <2>5, <2>6
<1>2. \A d \in after : \E s \in held : d = dead(s)
  BY DEF WithDead
<1> HIDE DEF after, dead
<1>3. ASSUME NEW d \in after
      PROVE  \E s \in held : /\ d = dead(s) /\ d.path = s.path /\ d.at = s.at /\ d.dev = s.dev
                             /\ d \in Service
                             /\ d.live => s.live /\ d.path \in DOMAIN tree'
                             /\ s.live /\ ~d.live => d.path \in gone
  BY <1>1, <1>2
<1>4. \A t \in held : \E s \in after : s.path = t.path /\ s.dev = t.dev
  BY <1>1
<1>5. ASSUME DistinctPaths(held) PROVE DistinctPaths(after)
  BY <1>3, <1>5 DEF DistinctPaths
<1>6. Aged(held, after, gone)
  BY <1>3, <1>4, <1>5 DEF Aged
<1> QED
  BY <1>6 DEF after

LEMMA HotPlug ==
  ASSUME TreeInv, \A s \in services \cup children : IsService(s),
         (\E slot \in Slots : Plug(slot)) \/ (\E path \in DOMAIN tree : Unplug(path))
  PROVE  \E paths : /\ TreeInv' /\ Kept(paths) /\ Changed(paths)
                    /\ Aged(services, services', paths) /\ Aged(children, children', paths)
<1>1. \A s \in services \cup children : s \in Service /\ (s.live => s.path \in DOMAIN tree)
  BY DEF IsService
<1>2. ASSUME NEW slot \in Slots, Plug(slot)
      PROVE  /\ TreeInv' /\ Kept({slot.path}) /\ Changed({slot.path})
             /\ Aged(services, services', {slot.path}) /\ Aged(children, children', {slot.path})
  <2>1. UNCHANGED <<services, children>> /\ DOMAIN tree \subseteq DOMAIN tree' /\ Changed({slot.path})
    BY <1>2 DEF Plug
  <2> QED
    BY <1>1, <1>2, <2>1, Plugged, NoneAged
<1>3. ASSUME NEW path \in DOMAIN tree, Unplug(path)
      PROVE  /\ TreeInv' /\ Kept(Subtree(path)) /\ Changed(Subtree(path))
             /\ Aged(services, services', Subtree(path)) /\ Aged(children, children', Subtree(path))
  <2>1. /\ services' = WithDead(services, Subtree(path))
        /\ children' = WithDead(children, Subtree(path)) /\ Changed(Subtree(path))
        /\ DOMAIN tree' = DOMAIN tree \ Subtree(path)
    BY <1>3 DEF Unplug, Restrict
  <2>2. Aged(services, services', Subtree(path))
    BY <1>1, <2>1, SomeAged
  <2>3. Aged(children, children', Subtree(path))
    BY <1>1, <2>1, SomeAged
  <2> QED
    BY <1>3, <2>1, <2>2, <2>3, Unplugged
<1> QED
  BY <1>2, <1>3
-----------------------------------------------------------------------------
(* The invariants of a scan. *)

Steady(p) == p \in DOMAIN tree /\ p \notin disturbed

\* A device was read at a place that changed since, or it tells what is there.
IsTrue(dev) ==
  /\ tree[dev.place].prod = dev.prod /\ tree[dev.place].container = dev.container
  /\ tree[dev.place].published => dev.serial = tree[dev.place].serial
  /\ IsHub(dev.prod) \/ Said(dev) = Due(dev.place)

IsRead(dev) ==
  /\ dev.place \in Places /\ Len(dev.place) > 1
  /\ dev.name = "name"
  /\ dev.portChain = Tail(dev.place) \/ (dev.place \in disturbed /\ dev.portChain = NoChain)
  /\ dev.place \in disturbed \/ (dev.place \in DOMAIN tree /\ IsTrue(dev))

IsChildOf(dev, hub) ==
  /\ Front(dev.place) = hub /\ IsMember(dev.prod)
  /\ \/ dev.place \in disturbed
     \/ dev.kind = getUSBDeviceTypeFrom(dev.prod, LocationID(dev.place))

\* The group of a hub: it and devices on it, from different places.
IsHubGroup(group) ==
  /\ group \in Seq(ToSet(group)) /\ Len(group) > 0
  /\ is_freewili_hub(group[1].prod) /\ group[1].kind = "Hub"
  /\ Steady(group[1].place) => Said(group[1]) = Due(group[1].place)
  /\ \A k \in DOMAIN group : IsRead(group[k])
  /\ \A k \in DOMAIN group : k > 1 => IsChildOf(group[k], group[1].place)
  /\ \A k, l \in DOMAIN group : group[k].place = group[l].place => k = l

Has(group, p) == \E k \in DOMAIN group : group[k].place = p

SteadyMembers(hub) == {p \in Members(hub) : p \notin disturbed}

HasMembers(group) == \A p \in SteadyMembers(group[1].place) : Has(group, p)

HubAt == hubGroup[1].place

ServicesInv ==
  /\ \A s \in services \cup children : IsService(s)
  /\ DistinctPaths(services) /\ DistinctPaths(children)

\* The hub that is visited: each steady member is in its group or still to be visited.
VisitInv ==
  /\ hubGroup = <<>> => children = {}
  /\ hubGroup # <<>> =>
       /\ pc = "hubs" /\ IsHubGroup(hubGroup)
       /\ \A c \in children : Front(c.path) = HubAt /\ ~Has(hubGroup, c.path)
       /\ \A p \in SteadyMembers(HubAt) : Has(hubGroup, p) \/ \E c \in children : c.path = p

\* The hubs that were visited.
GroupsInv ==
  /\ hubGroups \in Seq(ToSet(hubGroups))
  /\ \A i \in DOMAIN hubGroups :
       /\ IsHubGroup(hubGroups[i]) /\ Len(hubGroups[i]) > 1 /\ HasMembers(hubGroups[i])
       /\ hubGroup # <<>> => HubAt # hubGroups[i][1].place
  /\ \A i, j \in DOMAIN hubGroups : hubGroups[i][1].place = hubGroups[j][1].place => i = j

\* The hubs to be visited are others.
HubsInv ==
  /\ pc \in {"idle", "hubs", "standalone"}
  /\ pc = "idle" => services = {} /\ hubGroup = <<>>
  /\ pc = "hubs" =>
       /\ DOMAIN standaloneDevices = {}
       /\ \A s \in services : /\ is_freewili_hub(s.dev.prod)
                              /\ hubGroup # <<>> => s.path # HubAt
                              /\ \A i \in DOMAIN hubGroups : s.path # hubGroups[i][1].place

Scanning == pc # "idle" \/ result # NoResult

\* A steady hub with a steady member is visited.
HubsCovered ==
  (Scanning /\ "hubs" \notin failed) =>
     \A p \in DOMAIN tree :
       (is_freewili_hub(tree[p].prod) /\ SteadyMembers(p) # {} /\ p \notin disturbed)
         => \/ pc = "hubs" /\ \E s \in services : s.path = p
            \/ hubGroup # <<>> /\ HubAt = p
            \/ \E i \in DOMAIN hubGroups : hubGroups[i][1].place = p

IsStandaloneGroup(list, key) ==
  /\ list \in Seq(ToSet(list)) /\ Len(list) > 0
  /\ \A k \in DOMAIN list :
       /\ IsRead(list[k]) /\ isStandAloneDevice(list[k].prod)
       /\ list[k].container = key[1] /\ list[k].serial = key[2] /\ list[k].prod = key[3]

\* Every badge is listed under one key, once.
StandaloneInv ==
  /\ IsFiniteSet(DOMAIN standaloneDevices)
  /\ \A key \in DOMAIN standaloneDevices : IsStandaloneGroup(standaloneDevices[key], key)
  /\ \A key, other \in DOMAIN standaloneDevices :
       \A k \in DOMAIN standaloneDevices[key], l \in DOMAIN standaloneDevices[other] :
         standaloneDevices[key][k].place = standaloneDevices[other][l].place
           => key = other /\ k = l
  /\ pc = "standalone" =>
       \A s \in services :
         /\ isStandAloneDevice(s.dev.prod)
         /\ \A key \in DOMAIN standaloneDevices : ~Has(standaloneDevices[key], s.path)

\* A steady badge is listed or still to be visited.
StandaloneCovered ==
  (pc = "standalone" \/ (pc = "idle" /\ result # NoResult)) /\ "standalone" \notin failed =>
     \A p \in DOMAIN tree :
       (isStandAloneDevice(tree[p].prod) /\ p \notin disturbed)
         => \/ pc = "standalone" /\ \E s \in services : s.path = p
            \/ \E key \in DOMAIN standaloneDevices : Has(standaloneDevices[key], p)

DisturbedInv ==
  /\ disturbed \subseteq Places
  /\ \A d \in disturbed : \A p \in DOMAIN tree : IsPrefix(d, p) => p \in disturbed

Groups ==
  ToSet(hubGroups) \cup {standaloneDevices[key] : key \in DOMAIN standaloneDevices}

MadeOfGroup == [group \in Groups |-> fromUSBDevices(group)]

\* What find_all returned is made of the groups, each of which is reported if it can be.
ResultInv ==
  /\ failed \subseteq {"hubs", "standalone"}
  /\ result # NoResult => pc = "idle" /\ \E from : AreMade(from, result, Groups, MadeOfGroup)
IInv ==
  /\ TreeInv /\ DisturbedInv /\ ServicesInv /\ VisitInv /\ GroupsInv /\ HubsInv /\ HubsCovered
  /\ StandaloneInv /\ StandaloneCovered /\ ResultInv

\* No scan has run since the last change.
Fresh ==
  /\ pc = "idle" /\ services = {} /\ children = {} /\ hubGroup = <<>> /\ hubGroups = <<>>
  /\ standaloneDevices = <<>> /\ result = NoResult /\ disturbed = {} /\ failed = {}

LEMMA FreshIsFine == Fresh /\ TreeInv => IInv
<1> SUFFICES ASSUME Fresh, TreeInv PROVE IInv
  OBVIOUS
<1>1. DOMAIN hubGroups = {} /\ hubGroups \in Seq(ToSet(hubGroups)) /\ DOMAIN standaloneDevices = {}
  BY EmptyList DEF Fresh
<1>2. IsFiniteSet(DOMAIN standaloneDevices)
  BY <1>1, FS_EmptySet
<1>3. DisturbedInv /\ ServicesInv /\ VisitInv
  BY DEF Fresh, DisturbedInv, ServicesInv, DistinctPaths, VisitInv
<1>4. GroupsInv /\ HubsInv /\ HubsCovered
  BY <1>1 DEF Fresh, GroupsInv, HubsInv, HubsCovered, Scanning
<1>5. StandaloneInv
  BY <1>1, <1>2 DEF Fresh, StandaloneInv
<1>6. StandaloneCovered /\ ResultInv
  BY DEF Fresh, StandaloneCovered, ResultInv
<1> QED
  BY <1>3, <1>4, <1>5, <1>6 DEF IInv

-----------------------------------------------------------------------------
(* A hot-plug event during a scan. *)

LEMMA SteadyStays ==
  ASSUME NEW paths, Kept(paths), disturbed' = disturbed \cup paths
  PROVE  /\ \A p : Steady(p)' => Steady(p) /\ tree'[p] = tree[p]
         /\ \A p : Steady(p) => p \in disturbed' \/ (Steady(p)' /\ tree'[p] = tree[p])
BY DEF Kept, Steady

LEMMA DueStays ==
  ASSUME NEW p, tree'[p] = tree[p]
  PROVE  Due(p)' = Due(p)
BY DEF Due

LEMMA ReadStays ==
  ASSUME NEW paths, Kept(paths), disturbed' = disturbed \cup paths, NEW dev, IsRead(dev)
  PROVE  IsRead(dev)'
<1>1. PICK p : p = dev.place
  OBVIOUS
<1>2. CASE p \in disturbed
  BY <1>1, <1>2 DEF IsRead
<1>3. CASE p \notin disturbed
  <2>1. p \in DOMAIN tree /\ IsTrue(dev)
    BY <1>1, <1>3 DEF IsRead
  <2>2. p \in disturbed' \/ (p \in DOMAIN tree' /\ tree'[p] = tree[p])
    BY <2>1 DEF Kept
  <2>3. CASE p \in DOMAIN tree' /\ tree'[p] = tree[p]
    <3>1. IsTrue(dev)'
      BY <1>1, <2>1, <2>3, DueStays DEF IsTrue, Said
    <3> QED
      BY <1>1, <2>3, <3>1 DEF IsRead
  <2> QED
    BY <1>1, <2>2, <2>3 DEF IsRead
<1> QED
  BY <1>2, <1>3

LEMMA HubGroupStays ==
  ASSUME NEW paths, Kept(paths), disturbed' = disturbed \cup paths, NEW group, IsHubGroup(group)
  PROVE  IsHubGroup(group)'
<1>1. \A k \in DOMAIN group : IsRead(group[k])'
  BY ReadStays DEF IsHubGroup
<1>2. Steady(group[1].place)' => Said(group[1]) = Due(group[1].place)'
  <2>1. PICK p : p = group[1].place
    OBVIOUS
  <2>2. Steady(p)' => Steady(p) /\ Due(p)' = Due(p)
    BY SteadyStays, DueStays
  <2> QED
    BY <2>1, <2>2 DEF IsHubGroup
<1>3. ASSUME NEW k \in DOMAIN group, k > 1
      PROVE  IsChildOf(group[k], group[1].place)'
  <2>1. IsChildOf(group[k], group[1].place)
    BY <1>3 DEF IsHubGroup
  <2>2. PICK dev, hub : dev = group[k] /\ hub = group[1].place
    OBVIOUS
  <2>3. IsChildOf(dev, hub)'
    BY <2>1, <2>2 DEF IsChildOf
  <2> QED
    BY <2>2, <2>3
<1> QED
  BY <1>1, <1>2, <1>3 DEF IsHubGroup

LEMMA MembersStay ==
  ASSUME NEW paths, Kept(paths), disturbed' = disturbed \cup paths, NEW hub
  PROVE  SteadyMembers(hub)' \subseteq SteadyMembers(hub)
<1> SUFFICES ASSUME NEW p \in SteadyMembers(hub)' PROVE p \in SteadyMembers(hub)
  OBVIOUS
<1>1. /\ p \in DOMAIN tree' /\ IsPrefix(hub, p) /\ Len(p) = Len(hub) + 1
      /\ IsMember(tree'[p].prod) /\ p \notin disturbed'
  BY DEF SteadyMembers, Members, Below, Subtree
<1>2. p \in DOMAIN tree /\ tree'[p] = tree[p] /\ p \notin disturbed
  BY <1>1 DEF Kept
<1> QED
  BY <1>1, <1>2 DEF SteadyMembers, Members, Below, Subtree

LEMMA ServicesAge ==
  ASSUME TreeInv, NEW paths, Kept(paths), disturbed' = disturbed \cup paths,
         NEW held, \A s \in held : IsService(s), NEW after, Aged(held, after, paths)
  PROVE  \A s \in after : IsService(s)'
<1> SUFFICES ASSUME NEW s \in after PROVE IsService(s)'
  OBVIOUS
<1>1. PICK t \in held : /\ s.path = t.path /\ s.at = t.at /\ s.dev = t.dev /\ s \in Service
                        /\ s.live => t.live /\ s.path \in DOMAIN tree'
                        /\ t.live /\ ~s.live => s.path \in paths
  BY DEF Aged
<1>2. IsService(t)
  OBVIOUS
<1>3. s \in Service /\ Len(s.path) > 1 /\ s.at = s.path
  BY <1>1, <1>2 DEF IsService
<1>4. s.live => s.path \in DOMAIN tree' /\ tree'[s.path] = s.dev
  BY <1>1, <1>2 DEF IsService, Kept
<1>5. ~s.live => s.path \in disturbed'
  BY <1>1, <1>2 DEF IsService
<1> QED
  BY <1>3, <1>4, <1>5 DEF IsService, Service
\* What a hot-plug event does to a scan.
Disturbs(paths) ==
  /\ Kept(paths) /\ disturbed' = disturbed \cup paths
  /\ UNCHANGED scanVars
  /\ Aged(services, services', paths) /\ Aged(children, children', paths)

SamePlaces(held, after) ==
  /\ \A s \in after : \E t \in held : s.path = t.path /\ s.dev = t.dev
  /\ \A t \in held : \E s \in after : s.path = t.path /\ s.dev = t.dev

LEMMA Disturbing ==
  ASSUME NEW paths, Disturbs(paths)
  PROVE  /\ Kept(paths) /\ disturbed' = disturbed \cup paths
         /\ UNCHANGED <<pc, hubGroup, hubGroups, standaloneDevices, result, failed>>
         /\ SamePlaces(services, services') /\ SamePlaces(children, children')
BY DEF Disturbs, Aged, SamePlaces, scanVars

LEMMA DisturbedStays ==
  ASSUME TreeInv, DisturbedInv, NEW paths, Disturbs(paths)
  PROVE  DisturbedInv'
<1>1. Kept(paths) /\ disturbed' = disturbed \cup paths
  BY Disturbing
<1>2. disturbed' \subseteq Places
  BY <1>1 DEF Kept, DisturbedInv
<1>3. ASSUME NEW d \in disturbed', NEW p \in DOMAIN tree', IsPrefix(d, p)
      PROVE  p \in disturbed'
  <2>1. CASE d \in paths
    BY <1>1, <1>3, <2>1 DEF Kept
  <2>2. CASE d \in disturbed
    BY <1>1, <1>3, <2>2 DEF Kept, DisturbedInv
  <2> QED
    BY <1>1, <2>1, <2>2
<1> QED
  BY <1>2, <1>3 DEF DisturbedInv

LEMMA ServicesStay ==
  ASSUME TreeInv, ServicesInv, NEW paths, Disturbs(paths)
  PROVE  ServicesInv'
<1>1. /\ Kept(paths) /\ disturbed' = disturbed \cup paths
      /\ Aged(services, services', paths) /\ Aged(children, children', paths)
  BY DEF Disturbs
<1>2. /\ \A s \in services' : IsService(s)'
      /\ \A s \in children' : IsService(s)'
  BY <1>1, ServicesAge DEF ServicesInv
<1>3. DistinctPaths(services') /\ DistinctPaths(children')
  BY <1>1 DEF ServicesInv, Aged
<1>4. DistinctPaths(services)' /\ DistinctPaths(children)'
  BY <1>3 DEF DistinctPaths
<1> QED
  BY <1>2, <1>4 DEF ServicesInv

LEMMA NoneLeft ==
  ASSUME NEW held, NEW after, SamePlaces(held, after), held = {}
  PROVE  after = {}
BY DEF SamePlaces

LEMMA VisitStays ==
  ASSUME VisitInv, NEW paths, Disturbs(paths)
  PROVE  VisitInv'
<1>1. /\ Kept(paths) /\ disturbed' = disturbed \cup paths
      /\ pc' = pc /\ hubGroup' = hubGroup
      /\ SamePlaces(children, children')
  BY Disturbing
<1>2. hubGroup' = <<>> => children' = {}
  BY <1>1, NoneLeft DEF VisitInv
<1>3. ASSUME hubGroup' # <<>>
      PROVE  /\ pc' = "hubs" /\ IsHubGroup(hubGroup)'
             /\ \A c \in children' :
                  Front(c.path) = HubAt' /\ ~Has(hubGroup, c.path)'
             /\ \A p \in SteadyMembers(HubAt)' : Has(hubGroup, p)' \/ \E c \in children' : c.path = p
  <2>1. /\ pc = "hubs" /\ IsHubGroup(hubGroup)
        /\ \A c \in children : Front(c.path) = HubAt /\ ~Has(hubGroup, c.path)
        /\ \A p \in SteadyMembers(HubAt) : Has(hubGroup, p) \/ \E c \in children : c.path = p
    BY <1>1, <1>3 DEF VisitInv
  <2>2. PICK g : g = hubGroup
    OBVIOUS
  <2>3. IsHubGroup(g)'
    BY <1>1, <2>1, <2>2, HubGroupStays
  <2>4. PICK h : h = HubAt
    OBVIOUS
  <2>5. HubAt' = h
    BY <1>1, <2>4 DEF HubAt
  <2>6. SteadyMembers(h)' \subseteq SteadyMembers(h)
    BY <1>1, MembersStay
  <2>7. SteadyMembers(HubAt)' \subseteq SteadyMembers(HubAt)
    BY <2>4, <2>5, <2>6
  <2>8. IsHubGroup(hubGroup)'
    BY <1>1, <2>2, <2>3
  <2>9. \A c \in children' :
          Front(c.path) = HubAt' /\ ~Has(hubGroup, c.path)'
    BY <1>1, <2>1, <2>4, <2>5 DEF SamePlaces
  <2>10. \A p \in SteadyMembers(HubAt)' : Has(hubGroup, p)' \/ \E c \in children' : c.path = p
    BY <1>1, <2>1, <2>7 DEF SamePlaces
  <2> QED
    BY <1>1, <2>1, <2>8, <2>9, <2>10
<1> QED
  BY <1>2, <1>3 DEF VisitInv
LEMMA FullStays ==
  ASSUME NEW paths, Kept(paths), disturbed' = disturbed \cup paths, NEW group, HasMembers(group)
  PROVE  HasMembers(group)'
<1>1. PICK h : h = group[1].place
  OBVIOUS
<1>2. SteadyMembers(h)' \subseteq SteadyMembers(h)
  BY MembersStay
<1> QED
  BY <1>1, <1>2 DEF HasMembers

LEMMA GroupsStay ==
  ASSUME GroupsInv, NEW paths, Disturbs(paths)
  PROVE  GroupsInv'
<1>1. /\ Kept(paths) /\ disturbed' = disturbed \cup paths
      /\ hubGroup' = hubGroup /\ hubGroups' = hubGroups
  BY Disturbing
<1>2. HubAt' = HubAt
  BY <1>1 DEF HubAt
<1>3. ASSUME NEW i \in DOMAIN hubGroups
      PROVE  IsHubGroup(hubGroups[i])' /\ HasMembers(hubGroups[i])'
  <2>1. PICK g : g = hubGroups[i] /\ IsHubGroup(g) /\ HasMembers(g)
    BY DEF GroupsInv
  <2>2. IsHubGroup(g)' /\ HasMembers(g)'
    BY <1>1, <2>1, HubGroupStays, FullStays
  <2> QED
    BY <1>1, <2>1, <2>2
<1> QED
  BY <1>1, <1>2, <1>3 DEF GroupsInv

LEMMA HubsStay ==
  ASSUME HubsInv, NEW paths, Disturbs(paths)
  PROVE  HubsInv'
<1>1. /\ pc' = pc /\ hubGroup' = hubGroup /\ hubGroups' = hubGroups
      /\ standaloneDevices' = standaloneDevices /\ SamePlaces(services, services')
  BY Disturbing
<1>2. HubAt' = HubAt
  BY <1>1 DEF HubAt
<1>3. services = {} => services' = {}
  BY <1>1, NoneLeft
<1>4. pc = "hubs" =>
        \A s \in services' : /\ is_freewili_hub(s.dev.prod)
                             /\ hubGroup # <<>> => s.path # HubAt
                             /\ \A i \in DOMAIN hubGroups : s.path # hubGroups[i][1].place
  BY <1>1 DEF HubsInv, SamePlaces
<1> QED
  BY <1>1, <1>2, <1>3, <1>4 DEF HubsInv

LEMMA HubsStayCovered ==
  ASSUME HubsCovered, NEW paths, Disturbs(paths)
  PROVE  HubsCovered'
<1>1. /\ Kept(paths) /\ disturbed' = disturbed \cup paths
      /\ UNCHANGED <<pc, hubGroup, hubGroups, standaloneDevices, result, failed>>
      /\ SamePlaces(services, services')
  BY Disturbing
<1>2. HubAt' = HubAt /\ Scanning' = Scanning
  BY <1>1 DEF HubAt, Scanning
<1>3. ASSUME Scanning, "hubs" \notin failed, NEW p \in DOMAIN tree',
             is_freewili_hub(tree'[p].prod), SteadyMembers(p)' # {}, p \notin disturbed'
      PROVE  \/ pc = "hubs" /\ \E s \in services' : s.path = p
             \/ hubGroup # <<>> /\ HubAt = p
             \/ \E i \in DOMAIN hubGroups : hubGroups[i][1].place = p
  <2>1. p \in DOMAIN tree /\ tree'[p] = tree[p] /\ p \notin disturbed
    BY <1>1, <1>3 DEF Kept
  <2>2. SteadyMembers(p)' \subseteq SteadyMembers(p)
    BY <1>1, MembersStay
  <2>3. SteadyMembers(p) # {}
    BY <1>3, <2>2
  <2>4. \/ pc = "hubs" /\ \E s \in services : s.path = p
        \/ hubGroup # <<>> /\ HubAt = p
        \/ \E i \in DOMAIN hubGroups : hubGroups[i][1].place = p
    BY <1>3, <2>1, <2>3 DEF HubsCovered
  <2> QED
    BY <1>1, <2>4 DEF SamePlaces
<1> QED
  BY <1>1, <1>2, <1>3 DEF HubsCovered

LEMMA StandaloneStays ==
  ASSUME StandaloneInv, NEW paths, Disturbs(paths)
  PROVE  StandaloneInv'
<1>1. /\ Kept(paths) /\ disturbed' = disturbed \cup paths
      /\ pc' = pc /\ standaloneDevices' = standaloneDevices
      /\ SamePlaces(services, services')
  BY Disturbing
<1>2. ASSUME NEW key \in DOMAIN standaloneDevices
      PROVE  IsStandaloneGroup(standaloneDevices[key], key)'
  <2>1. PICK list : list = standaloneDevices[key] /\ IsStandaloneGroup(list, key)
    BY DEF StandaloneInv
  <2>2. \A k \in DOMAIN list : IsRead(list[k])'
    BY <1>1, <2>1, ReadStays DEF IsStandaloneGroup
  <2>3. IsStandaloneGroup(list, key)'
    BY <2>1, <2>2 DEF IsStandaloneGroup
  <2> QED
    BY <1>1, <2>1, <2>3
<1>3. pc = "standalone" =>
        \A s \in services' :
          /\ isStandAloneDevice(s.dev.prod)
          /\ \A key \in DOMAIN standaloneDevices : ~Has(standaloneDevices[key], s.path)
  BY <1>1 DEF StandaloneInv, SamePlaces
<1>4. pc = "standalone" =>
        \A s \in services' :
          /\ isStandAloneDevice(s.dev.prod)
          /\ \A key \in DOMAIN standaloneDevices' : ~Has(standaloneDevices[key], s.path)'
  BY <1>1, <1>3
<1> QED
  BY <1>1, <1>2, <1>4 DEF StandaloneInv

LEMMA StandaloneStaysCovered ==
  ASSUME StandaloneCovered, NEW paths, Disturbs(paths)
  PROVE  StandaloneCovered'
<1>1. /\ Kept(paths) /\ disturbed' = disturbed \cup paths
      /\ UNCHANGED <<pc, standaloneDevices, result, failed>>
      /\ SamePlaces(services, services')
  BY Disturbing
<1>2. ASSUME pc = "standalone" \/ (pc = "idle" /\ result # NoResult), "standalone" \notin failed,
             NEW p \in DOMAIN tree', isStandAloneDevice(tree'[p].prod), p \notin disturbed'
      PROVE  \/ pc = "standalone" /\ \E s \in services' : s.path = p
             \/ \E key \in DOMAIN standaloneDevices : Has(standaloneDevices[key], p)
  <2>1. p \in DOMAIN tree /\ tree'[p] = tree[p] /\ p \notin disturbed
    BY <1>1, <1>2 DEF Kept
  <2>2. \/ pc = "standalone" /\ \E s \in services : s.path = p
        \/ \E key \in DOMAIN standaloneDevices : Has(standaloneDevices[key], p)
    BY <1>2, <2>1 DEF StandaloneCovered
  <2> QED
    BY <1>1, <2>2 DEF SamePlaces
<1> QED
  BY <1>1, <1>2 DEF StandaloneCovered, Has

LEMMA HotPlugStays ==
  ASSUME IInv, (\E slot \in Slots : Plug(slot)) \/ (\E path \in DOMAIN tree : Unplug(path))
  PROVE  IInv'
<1>1. \A s \in services \cup children : IsService(s)
  BY DEF IInv, ServicesInv
<1>2. PICK paths : /\ TreeInv' /\ Kept(paths) /\ Changed(paths)
                   /\ Aged(services, services', paths) /\ Aged(children, children', paths)
  BY <1>1, HotPlug DEF IInv
<1>3. CASE pc = "idle"
  <2>1. services = {} /\ children = {} /\ hubGroup = <<>>
    BY <1>3 DEF IInv, HubsInv, VisitInv
  <2>2. services' = {} /\ children' = {}
    BY <1>2, <2>1 DEF Aged
  <2>3. Fresh'
    BY <1>2, <1>3, <2>1, <2>2 DEF Changed, Fresh
  <2>4. (Fresh /\ TreeInv => IInv)'
    BY FreshIsFine, PTL
  <2> QED
    BY <1>2, <2>3, <2>4
<1>4. CASE pc # "idle"
  <2>1. Disturbs(paths)
    BY <1>2, <1>4 DEF Changed, Disturbs
  <2>2. DisturbedInv' /\ ServicesInv' /\ VisitInv' /\ GroupsInv'
    BY <2>1, DisturbedStays, ServicesStay, VisitStays, GroupsStay DEF IInv
  <2>3. HubsInv' /\ HubsCovered' /\ StandaloneInv' /\ StandaloneCovered'
    BY <2>1, HubsStay, HubsStayCovered, StandaloneStays, StandaloneStaysCovered DEF IInv
  <2>4. ResultInv'
    <3>1. failed' = failed /\ result' = result /\ result = NoResult
      BY <1>4, <2>1, Disturbing DEF IInv, ResultInv
    <3> QED
      BY <3>1 DEF IInv, ResultInv
  <2> QED
    BY <1>2, <2>2, <2>3, <2>4 DEF IInv
<1> QED
  BY <1>3, <1>4
-----------------------------------------------------------------------------
(* The visits. *)

\* What is said of a device, or of a group of them, depends on the tree alone.
LEMMA Frame ==
  ASSUME UNCHANGED <<tree, disturbed>>, NEW x
  PROVE  /\ IsRead(x)' <=> IsRead(x)
         /\ IsHubGroup(x)' <=> IsHubGroup(x)
         /\ HasMembers(x)' <=> HasMembers(x)
         /\ IsService(x)' <=> IsService(x)
         /\ SteadyMembers(x)' = SteadyMembers(x)
<1>1. SteadyMembers(x)' = SteadyMembers(x)
  BY DEF SteadyMembers, Members, Below, Subtree
<1>2. IsService(x)' <=> IsService(x)
  BY DEF IsService, Service
<1>3. \A d : IsRead(d)' <=> IsRead(d)
  <2> SUFFICES ASSUME NEW d PROVE IsRead(d)' <=> IsRead(d)
    OBVIOUS
  <2>1. IsTrue(d)' <=> IsTrue(d)
    BY DEF IsTrue, Due, Said
  <2> QED
    BY <2>1 DEF IsRead
<1>4. IsHubGroup(x)' <=> IsHubGroup(x)
  <2>1. PICK h : h = x[1].place
    OBVIOUS
  <2>2. (Steady(h)' <=> Steady(h)) /\ Due(h)' = Due(h)
    BY DEF Steady, Due
  <2> QED
    BY <1>3, <2>1, <2>2 DEF IsHubGroup, IsChildOf
<1>5. HasMembers(x)' <=> HasMembers(x)
  <2>1. PICK h : h = x[1].place
    OBVIOUS
  <2>2. SteadyMembers(h)' = SteadyMembers(h)
    BY DEF SteadyMembers, Members, Below, Subtree
  <2> QED
    BY <2>1, <2>2 DEF HasMembers
<1> QED
  BY <1>1, <1>2, <1>3, <1>4, <1>5

LEMMA SnapshotIs ==
  ASSUME TreeInv, NEW paths, paths \subseteq DOMAIN tree, \A p \in paths : Len(p) # 1
  PROVE  /\ \A s \in Snapshot(paths) :
              /\ s \in Service /\ s.live /\ Len(s.path) > 1 /\ s.at = s.path
              /\ s.path \in paths /\ s.path \in DOMAIN tree /\ tree[s.path] = s.dev
         /\ \A p \in paths : \E s \in Snapshot(paths) : s.path = p
         /\ DistinctPaths(Snapshot(paths))
<1>1. ASSUME NEW s \in Snapshot(paths)
      PROVE  /\ s \in Service /\ s.live /\ Len(s.path) > 1 /\ s.at = s.path
             /\ s.path \in paths /\ s.path \in DOMAIN tree /\ tree[s.path] = s.dev
             /\ s = [path |-> s.path, at |-> s.path, dev |-> tree[s.path], live |-> TRUE]
  <2>1. PICK p \in paths : s = [path |-> p, at |-> p, dev |-> tree[p], live |-> TRUE]
    BY DEF Snapshot
  <2>2. p \in DOMAIN tree /\ p \in Places /\ tree[p] \in Attachable
    BY DEF TreeInv
  <2>3. s \in Service
    BY <2>1, <2>2 DEF Service, Attachable
  <2>4. PICK n : n = Len(p)
    OBVIOUS
  <2>5. n \in Nat /\ n > 0 /\ n # 1
    BY <2>2, <2>4, PlacesAre
  <2>6. Len(p) > 1
    BY <2>4, <2>5
  <2> QED
    BY <2>1, <2>2, <2>3, <2>6
<1>2. ASSUME NEW p \in paths
      PROVE  \E s \in Snapshot(paths) : s.path = p
  <2>1. PICK s : s = [path |-> p, at |-> p, dev |-> tree[p], live |-> TRUE]
    OBVIOUS
  <2>2. s \in Snapshot(paths) /\ s.path = p
    BY <2>1 DEF Snapshot
  <2> QED
    BY <2>2
<1>3. DistinctPaths(Snapshot(paths))
  BY <1>1 DEF DistinctPaths
<1> QED
  BY <1>1, <1>2, <1>3

\* The controllers are no FreeWili hubs, no badges, no members of a hub.
LEMMA NoController ==
  ASSUME TreeInv, NEW p \in DOMAIN tree,
         is_freewili_hub(tree[p].prod) \/ isStandAloneDevice(tree[p].prod)
  PROVE  Len(p) # 1
<1>1. Controller.prod = "ForeignHub"
  BY DEF Controller
<1>2. ~is_freewili_hub("ForeignHub") /\ ~isStandAloneDevice("ForeignHub")
  BY DEF is_freewili_hub, isStandAloneDevice, HubProduct, StandaloneProduct
<1> QED
  BY <1>1, <1>2 DEF TreeInv

LEMMA BelowIs ==
  ASSUME TreeInv, NEW h \in Places, NEW p \in Below(h)
  PROVE  /\ p \in DOMAIN tree /\ p \in Places /\ IsPrefix(h, p)
         /\ Front(p) = h /\ Len(p) > 1 /\ Len(p) # 1 /\ p # h
<1>1. p \in DOMAIN tree /\ p \in Places /\ IsPrefix(h, p) /\ Len(p) = Len(h) + 1
  BY DEF Below, Subtree, TreeInv
<1>2. h \in PathSeq /\ p \in PathSeq
  BY <1>1, PlacesAre
<1>3. PICK m : m = Len(h)
  OBVIOUS
<1>4. m \in Nat /\ m > 0 /\ Len(p) = m + 1
  BY <1>1, <1>3, PlacesAre
<1>5. Len(p) > 0 /\ Len(p) > 1 /\ Len(p) # 1 /\ Len(p) - 1 = m
  BY <1>4
<1>6. /\ Front(p) \in PathSeq /\ Len(Front(p)) = m
      /\ \A i \in 1..m : Front(p)[i] = p[i]
  BY <1>2, <1>5, FrontElements DEF PathSeq
<1>7. \A i \in 1..m : h[i] = p[i]
  BY <1>1, <1>2, <1>3, PrefixElements DEF PathSeq
<1>8. Front(p) = h
  BY <1>2, <1>3, <1>6, <1>7, SameSequence DEF PathSeq
<1>9. p # h
  BY <1>1, <1>3, <1>4
<1> QED
  BY <1>1, <1>5, <1>8, <1>9
\* No device is below one that is no hub.
LEMMA LeafIs ==
  ASSUME TreeInv, NEW p \in DOMAIN tree, ~IsHub(tree[p].prod)
  PROVE  Subtree(p) = {p}
<1>1. p \in PathSeq /\ Len(p) > 0 /\ IsPrefix(p, p)
  BY PlacesAre, PrefixReflexive DEF TreeInv, PathSeq
<1>2. ASSUME NEW q \in DOMAIN tree, IsPrefix(p, q)
      PROVE  q = p
  BY <1>1, <1>2 DEF TreeInv, Closed
<1> QED
  BY <1>1, <1>2 DEF Subtree

\* What a live device that is no hub finds below itself is its own.
LEMMA FoundOwn ==
  ASSUME TreeInv, NEW s, IsService(s), s.live, ~IsHub(s.dev.prod)
  PROVE  /\ SerialPorts(s) = {IF tree[s.path].tty THEN s.path ELSE NoPort}
         /\ StoragePaths(s) = {IF tree[s.path].disk THEN s.path ELSE NoPort}
<1>1. PICK p : p = s.path
  OBVIOUS
<1>2. p \in DOMAIN tree /\ tree[p] = s.dev
  BY <1>1 DEF IsService
<1>3. Subtree(p) = {p}
  BY <1>2, LeafIs
<1>4. {q \in Subtree(p) : tree[q].tty} = IF tree[p].tty THEN {p} ELSE {}
  BY <1>3
<1>5. {q \in Subtree(p) : tree[q].disk} = IF tree[p].disk THEN {p} ELSE {}
  BY <1>3
<1>6. SerialPorts(s) = IF {q \in Subtree(p) : tree[q].tty} # {}
                       THEN {q \in Subtree(p) : tree[q].tty} ELSE {NoPort}
  BY <1>1 DEF SerialPorts, FoundBelow
<1>7. StoragePaths(s) = IF {q \in Subtree(p) : tree[q].disk} # {}
                        THEN {q \in Subtree(p) : tree[q].disk} ELSE {NoPort}
  BY <1>1 DEF StoragePaths, FoundBelow
<1> QED
  BY <1>1, <1>4, <1>5, <1>6, <1>7

LEMMA ReadFields ==
  ASSUME NEW s, NEW location, NEW serial, NEW port, NEW storage,
         NEW dev, dev = USBDevice(s, location, serial, port, storage)
  PROVE  /\ dev.place = s.path /\ dev.prod = s.dev.prod /\ dev.container = s.dev.container
         /\ dev.kind = getUSBDeviceTypeFrom(s.dev.prod, location)
         /\ dev.name = "name" /\ dev.serial = serial
         /\ dev.location = getUSBPortFromLocationID(s.at)
         /\ dev.portChain = getUSBPortChainFromLocationID(s.at)
         /\ dev.port = port /\ dev.paths = storage
BY DEF USBDevice

\* What is told of where the device is: its place, or nothing.
LEMMA PlaceFields ==
  ASSUME NEW at
  PROVE  /\ at \in PathSeq /\ Len(at) > 1 =>
              /\ getUSBPortFromLocationID(at) = Last(at)
              /\ getUSBPortChainFromLocationID(at) = Tail(at)
         /\ at = NoLocation => getUSBPortChainFromLocationID(at) = NoChain
<1>1. ASSUME at \in PathSeq, Len(at) > 1
      PROVE  /\ getUSBPortFromLocationID(at) = Last(at)
             /\ getUSBPortChainFromLocationID(at) = Tail(at)
  <2>1. PICK n : n = Len(at)
    OBVIOUS
  <2>2. n \in Nat /\ n > 1
    BY <1>1, <2>1 DEF PathSeq
  <2>3. ~(n < 2) /\ n # 1 /\ n # 0
    BY <2>2
  <2>4. at # NoLocation
    BY <2>1, <2>3 DEF NoLocation
  <2> QED
    BY <2>1, <2>3, <2>4 DEF getUSBPortFromLocationID, getUSBPortChainFromLocationID
<1>2. ASSUME at = NoLocation
      PROVE  getUSBPortChainFromLocationID(at) = NoChain
  <2>1. Len(at) # 1
    BY <1>2 DEF NoLocation
  <2> QED
    BY <1>2, <2>1 DEF getUSBPortChainFromLocationID
<1> QED
  BY <1>1, <1>2

\* A serial the enumeration resolved is not asked for again.
LEMMA ResolvedAre ==
  ASSUME NEW s, NEW serial, serial \in ResolvedSerials(s) \/ serial = Published(s)
  PROVE  s.dev.published => serial = s.dev.serial
BY DEF ResolvedSerials, Published

LEMMA ServicePath ==
  ASSUME NEW s, IsService(s)
  PROVE  /\ s \in Service /\ s.path \in Places /\ s.path \in PathSeq
         /\ Len(s.path) > 1 /\ Len(s.path) # 1 /\ Len(s.path) > 0
<1>1. PICK p : p = s.path
  OBVIOUS
<1>2. s \in Service /\ p \in Places /\ Len(p) > 1
  BY <1>1 DEF IsService, Service
<1>3. PICK n : n = Len(p)
  OBVIOUS
<1>4. n \in Nat /\ n > 0 /\ n > 1
  BY <1>2, <1>3, PlacesAre
<1>5. n # 1
  BY <1>4
<1>6. p \in PathSeq
  BY <1>2, PlacesAre
<1> QED
  BY <1>1, <1>2, <1>3, <1>4, <1>5, <1>6

\* A service is read as it is, or it is one of a device that left.
LEMMA ReadAs ==
  ASSUME NEW s, IsService(s), NEW read \in AsRead(s)
  PROVE  /\ read.path = s.path /\ read.live = s.live /\ read.dev.prod = s.dev.prod
         /\ s.live => read = s
         /\ read.at = s.path \/ (read.at = NoLocation /\ ~s.live)
<1>1. s.at = s.path /\ s \in Service
  BY DEF IsService
<1>2. CASE s.live
  <2>1. AsRead(s) = {s}
    BY <1>2 DEF AsRead
  <2>2. read = s
    BY <2>1
  <2> QED
    BY <1>1, <2>2
<1>3. CASE ~s.live
  <2>1. s.live = FALSE
    BY <1>1, <1>3 DEF Service
  <2>2. PICK at \in {s.at, NoLocation}, serial \in {s.dev.serial, ""},
             container \in {s.dev.container, ""} :
          read = [path |-> s.path, at |-> at, live |-> FALSE,
                  dev |-> [s.dev EXCEPT !.serial = serial, !.container = container]]
    BY <1>3 DEF AsRead, Remains
  <2>3. [s.dev EXCEPT !.serial = serial, !.container = container].prod = s.dev.prod
    <3>1. PICK slot \in Slots : s.dev = Attached(slot)
      BY <1>1 DEF Service
    <3>2. DOMAIN Controller = {"prod", "serial", "published", "container", "tty", "disk"}
      BY DEF Controller
    <3>3. PICK d : d = s.dev
      OBVIOUS
    <3>4. d = [f \in {"prod", "serial", "published", "container", "tty", "disk"} |-> slot[f]]
      BY <3>1, <3>2, <3>3 DEF Attached
    <3>5. [d EXCEPT !.serial = serial, !.container = container].prod = d.prod
      BY <3>4
    <3> QED
      BY <3>3, <3>5
  <2> QED
    BY <1>1, <1>3, <2>1, <2>2, <2>3
<1> QED
  BY <1>2, <1>3

\* A device that is read is what the place has, or the place changed.
LEMMA DeviceIsRead ==
  ASSUME TreeInv, NEW s, IsService(s), NEW read \in AsRead(s),
         NEW location, NEW serial, serial \in ResolvedSerials(read) \/ serial = Published(read),
         NEW port, NEW storage,
         IsHub(s.dev.prod) \/ (port \in SerialPorts(read) /\ storage \in StoragePaths(read)),
         NEW dev, dev = USBDevice(read, location, serial, port, storage)
  PROVE  IsRead(dev)
<1>1. /\ dev.place = s.path /\ dev.name = "name"
      /\ dev.portChain = getUSBPortChainFromLocationID(read.at)
  BY ReadFields, ReadAs
<1>2. s.path \in Places /\ Len(s.path) > 1 /\ s.path \in PathSeq
  BY ServicePath
<1>3. CASE ~s.live
  <2>1. s.path \in disturbed
    BY <1>3 DEF IsService
  <2>2. read.at = s.path \/ read.at = NoLocation
    BY ReadAs
  <2>3. dev.portChain = Tail(s.path) \/ dev.portChain = NoChain
    BY <1>1, <1>2, <2>2, PlaceFields
  <2> QED
    BY <1>1, <1>2, <2>1, <2>3 DEF IsRead
<1>4. CASE s.live
  <2>a. read = s /\ s.at = s.path
    BY <1>4, ReadAs DEF IsService
  <2>c. /\ dev.prod = read.dev.prod /\ dev.serial = serial
        /\ dev.container = read.dev.container
        /\ dev.location = getUSBPortFromLocationID(read.at)
        /\ dev.portChain = getUSBPortChainFromLocationID(read.at)
        /\ dev.port = port /\ dev.paths = storage
    BY ReadFields
  <2>d. /\ getUSBPortFromLocationID(s.path) = Last(s.path)
        /\ getUSBPortChainFromLocationID(s.path) = Tail(s.path)
    BY <1>2, PlaceFields
  <2>b. /\ dev.prod = s.dev.prod /\ dev.serial = serial /\ dev.container = s.dev.container
        /\ dev.location = Last(s.path) /\ dev.portChain = Tail(s.path)
        /\ dev.port = port /\ dev.paths = storage
    BY <2>a, <2>c, <2>d
  <2>1. PICK p : p = s.path
    OBVIOUS
  <2>2. p \in DOMAIN tree /\ tree[p] = s.dev
    BY <1>4, <2>1 DEF IsService
  <2>3. tree[p].published => dev.serial = tree[p].serial
    BY <2>a, <2>b, <2>2, ResolvedAre
  <2>4. IsHub(dev.prod) \/ Said(dev) = Due(p)
    <3>1. CASE IsHub(s.dev.prod)
      BY <2>b, <3>1
    <3>2. CASE ~IsHub(s.dev.prod)
      <4>1. /\ port = IF tree[p].tty THEN p ELSE NoPort
            /\ storage = IF tree[p].disk THEN p ELSE NoPort
        BY <1>4, <2>a, <2>1, <3>2, FoundOwn
      <4> QED
        BY <1>1, <2>b, <2>1, <2>2, <4>1 DEF Said, Due
    <3> QED
      BY <3>1, <3>2
  <2>5. IsTrue(dev)
    BY <1>1, <2>b, <2>1, <2>2, <2>3, <2>4 DEF IsTrue
  <2> QED
    BY <1>1, <1>2, <2>b, <2>1, <2>2, <2>5 DEF IsRead
<1> QED
  BY <1>3, <1>4

\* A hub that is read says what is due of a hub.
LEMMA HubIsRead ==
  ASSUME TreeInv, NEW s, IsService(s),
         is_freewili_hub(s.dev.prod), NEW serial, serial \in ResolvedSerials(s),
         NEW dev, dev = USBDevice(s, LocationID(s.at), serial, NoPort, NoPort)
  PROVE  /\ IsRead(dev) /\ dev.place = s.path /\ dev.kind = "Hub" /\ is_freewili_hub(dev.prod)
         /\ Steady(dev.place) => Said(dev) = Due(dev.place)
<1>a. s.at = s.path /\ s.path \in PathSeq /\ Len(s.path) > 1 /\ s.path \in Places
  BY ServicePath DEF IsService
<1>b. /\ dev.place = s.path /\ dev.prod = s.dev.prod /\ dev.container = s.dev.container
      /\ dev.kind = getUSBDeviceTypeFrom(s.dev.prod, LocationID(s.at))
      /\ dev.name = "name" /\ dev.serial = serial
      /\ dev.location = getUSBPortFromLocationID(s.at)
      /\ dev.portChain = getUSBPortChainFromLocationID(s.at)
      /\ dev.port = NoPort /\ dev.paths = NoPort
  BY ReadFields
<1>c. /\ getUSBPortFromLocationID(s.path) = Last(s.path)
      /\ getUSBPortChainFromLocationID(s.path) = Tail(s.path)
  BY <1>a, PlaceFields
<1>1. /\ dev.place = s.path /\ dev.prod = s.dev.prod /\ dev.container = s.dev.container
      /\ dev.kind = getUSBDeviceTypeFrom(s.dev.prod, LocationID(s.path))
      /\ dev.name = "name" /\ dev.serial = serial
      /\ dev.location = Last(s.path) /\ dev.portChain = Tail(s.path)
      /\ dev.port = NoPort /\ dev.paths = NoPort
  BY <1>a, <1>b, <1>c
<1>2. IsHub(s.dev.prod)
  BY DEF is_freewili_hub, IsHub
<1>3. IsRead(dev)
  <2>1. CASE ~s.live
    BY <1>a, <1>1, <2>1 DEF IsRead, IsService
  <2>2. CASE s.live
    <3>1. PICK p : p = s.path
      OBVIOUS
    <3>2. p \in DOMAIN tree /\ tree[p] = s.dev
      BY <2>2, <3>1 DEF IsService
    <3>3. tree[p].published => dev.serial = tree[p].serial
      BY <1>1, <3>2, ResolvedAre
    <3>4. IsTrue(dev)
      BY <1>1, <1>2, <3>1, <3>2, <3>3 DEF IsTrue
    <3> QED
      BY <1>a, <1>1, <3>1, <3>2, <3>4 DEF IsRead
  <2> QED
    BY <2>1, <2>2
<1>4. dev.kind = "Hub"
  BY <1>1, HubKind
<1>5. ASSUME Steady(s.path)
      PROVE  Said(dev) = Due(s.path)
  <2>1. PICK p : p = s.path
    OBVIOUS
  <2>2. p \in DOMAIN tree /\ tree[p] = s.dev
    BY <1>5, <2>1 DEF IsService, Steady
  <2>3. ~tree[p].tty /\ ~tree[p].disk
    BY <1>2, <2>2 DEF TreeInv
  <2> QED
    BY <1>1, <2>1, <2>2, <2>3 DEF Said, Due
<1> QED
  BY <1>1, <1>3, <1>4, <1>5
LEMMA TreeStays ==
  ASSUME TreeInv, UNCHANGED tree
  PROVE  TreeInv'
BY DEF TreeInv, Closed

LEMMA FindHubBasedStays ==
  ASSUME IInv, FindHubBased
  PROVE  IInv'
<1> DEFINE P == {p \in DOMAIN tree : is_freewili_hub(tree[p].prod)}
<1>1. /\ pc = "idle" /\ pc' = "hubs"
      /\ hubGroups' = <<>> /\ standaloneDevices' = <<>>
      /\ result' = NoResult /\ disturbed' = {}
      /\ UNCHANGED <<tree, children, hubGroup>>
      /\ \/ services' = Snapshot(P) /\ failed' = {}
         \/ services' = {} /\ failed' = {"hubs"}
  BY DEF FindHubBased, Iterator
<1>2. TreeInv /\ hubGroup = <<>> /\ children = {}
  BY <1>1 DEF IInv, HubsInv, VisitInv
<1>3. P \subseteq DOMAIN tree /\ \A p \in P : Len(p) # 1 /\ is_freewili_hub(tree[p].prod)
  BY <1>2, NoController
<1>4. /\ \A s \in Snapshot(P) :
           /\ s \in Service /\ s.live /\ Len(s.path) > 1 /\ s.at = s.path
           /\ s.path \in P /\ s.path \in DOMAIN tree /\ tree[s.path] = s.dev
      /\ \A p \in P : \E s \in Snapshot(P) : s.path = p
      /\ DistinctPaths(Snapshot(P))
  BY <1>2, <1>3, SnapshotIs
<1>5. TreeInv' /\ DisturbedInv'
  BY <1>1, <1>2, TreeStays DEF DisturbedInv
<1>6. ServicesInv'
  <2>1. ASSUME NEW s \in services'
        PROVE  IsService(s)'
    <3>1. /\ s \in Service /\ s.live /\ Len(s.path) > 1 /\ s.at = s.path
          /\ s.path \in DOMAIN tree /\ tree[s.path] = s.dev
      BY <1>1, <1>4
    <3>2. s \in Service'
      BY <3>1 DEF Service
    <3> QED
      BY <1>1, <3>1, <3>2 DEF IsService
  <2>2. DistinctPaths(services)' /\ DistinctPaths(children)'
    BY <1>1, <1>2, <1>4 DEF DistinctPaths
  <2>3. children' = {}
    BY <1>1, <1>2
  <2> QED
    BY <2>1, <2>2, <2>3 DEF ServicesInv
<1>7. VisitInv'
  BY <1>1, <1>2 DEF VisitInv
<1>8. DOMAIN hubGroups' = {} /\ hubGroups' \in Seq(ToSet(hubGroups')) /\ DOMAIN standaloneDevices' = {}
  BY <1>1, EmptyList
<1>9. GroupsInv'
  BY <1>1, <1>2, <1>8 DEF GroupsInv
<1>10. HubsInv'
  <2>1. \A s \in services' : is_freewili_hub(s.dev.prod)
    BY <1>1, <1>3, <1>4
  <2> QED
    BY <1>1, <1>2, <1>8, <2>1 DEF HubsInv
<1>11. HubsCovered'
  <2>1. "hubs" \notin failed' => \A p \in P : \E s \in services' : s.path = p
    BY <1>1, <1>4
  <2> QED
    BY <1>1, <2>1 DEF HubsCovered
<1>12. StandaloneInv' /\ StandaloneCovered'
  <2>1. IsFiniteSet({})
    BY FS_EmptySet
  <2> QED
    BY <1>1, <1>8, <2>1 DEF StandaloneInv, StandaloneCovered
<1>13. ResultInv'
  BY <1>1 DEF ResultInv
<1> QED
  BY <1>5, <1>6, <1>7, <1>9, <1>10, <1>11, <1>12, <1>13 DEF IInv

\* The first of a group, and a group with one more.
LEMMA GroupOfOne ==
  ASSUME NEW dev
  PROVE  LET g == <<dev>>
         IN  g \in Seq(ToSet(g)) /\ Len(g) = 1 /\ DOMAIN g = {1} /\ g[1] = dev /\ g # <<>>
BY DEF ToSet

LEMMA GroupOfMore ==
  ASSUME NEW g, g \in Seq(ToSet(g)), NEW dev
  PROVE  \E n \in Nat : LET h == Append(g, dev)
                        IN  /\ n = Len(g) /\ DOMAIN g = 1..n
                            /\ h \in Seq(ToSet(h)) /\ Len(h) = n + 1 /\ DOMAIN h = 1..(n + 1)
                            /\ h[n + 1] = dev /\ \A k \in 1..n : h[k] = g[k]
                            /\ h # <<>>
<1>1. PICK n \in Nat : n = Len(g) /\ DOMAIN g = 1..n
  OBVIOUS
<1>2. PICK S : S = ToSet(g) \cup {dev}
  OBVIOUS
<1>3. g \in Seq(S)
  <2>1. ToSet(g) \subseteq S
    BY <1>2
  <2> QED
    BY <2>1, SeqOfMore
<1>4. PICK h : h = Append(g, dev)
  OBVIOUS
<1>5. /\ h \in Seq(S) /\ Len(h) = n + 1 /\ DOMAIN h = 1..(n + 1)
      /\ h[n + 1] = dev /\ \A k \in 1..n : h[k] = g[k]
  BY <1>1, <1>2, <1>3, <1>4
<1>6. h \in Seq(ToSet(h)) /\ h # <<>>
  BY <1>5, SeqOfItself
<1> QED
  BY <1>1, <1>4, <1>5, <1>6
\* Invariants that a visit does not touch.
LEMMA DisturbedFrame ==
  ASSUME DisturbedInv, UNCHANGED <<tree, disturbed>>
  PROVE  DisturbedInv'
BY DEF DisturbedInv

LEMMA ResultFrame ==
  ASSUME ResultInv, UNCHANGED <<result, failed>>, pc # "idle"
  PROVE  ResultInv'
BY DEF ResultInv

LEMMA ServicesFewer ==
  ASSUME ServicesInv, UNCHANGED <<tree, disturbed>>,
         services' \subseteq services,
         \A s \in children' : IsService(s), DistinctPaths(children')
  PROVE  ServicesInv'
<1>1. \A s \in services' \cup children' : IsService(s)
  BY DEF ServicesInv
<1>2. \A s \in services' \cup children' : IsService(s)'
  BY <1>1, Frame
<1>3. DistinctPaths(services)' /\ DistinctPaths(children)'
  BY DEF ServicesInv, DistinctPaths
<1> QED
  BY <1>2, <1>3 DEF ServicesInv

LEMMA StandaloneFrame ==
  ASSUME StandaloneInv, UNCHANGED <<tree, disturbed, standaloneDevices>>,
         pc' = "standalone" => pc = "standalone" /\ services' \subseteq services
  PROVE  StandaloneInv'
<1>1. ASSUME NEW key \in DOMAIN standaloneDevices
      PROVE  IsStandaloneGroup(standaloneDevices[key], key)'
  <2>1. PICK list : list = standaloneDevices[key] /\ IsStandaloneGroup(list, key)
    BY DEF StandaloneInv
  <2>2. \A k \in DOMAIN list : IsRead(list[k])'
    BY <2>1, Frame DEF IsStandaloneGroup
  <2>3. IsStandaloneGroup(list, key)'
    BY <2>1, <2>2 DEF IsStandaloneGroup
  <2> QED
    BY <2>1, <2>3
<1>2. pc' = "standalone" =>
        \A s \in services' :
          /\ isStandAloneDevice(s.dev.prod)
          /\ \A key \in DOMAIN standaloneDevices : ~Has(standaloneDevices[key], s.path)
  BY DEF StandaloneInv
<1>3. pc' = "standalone" =>
        \A s \in services' :
          /\ isStandAloneDevice(s.dev.prod)
          /\ \A key \in DOMAIN standaloneDevices' : ~Has(standaloneDevices[key], s.path)'
  BY <1>2
<1> QED
  BY <1>1, <1>3 DEF StandaloneInv

LEMMA GroupsFrame ==
  ASSUME GroupsInv, UNCHANGED <<tree, disturbed, hubGroups>>,
         hubGroup' # <<>> =>
           \A i \in DOMAIN hubGroups : hubGroup'[1].place # hubGroups[i][1].place
  PROVE  GroupsInv'
<1>1. \A i \in DOMAIN hubGroups : IsHubGroup(hubGroups[i])' /\ HasMembers(hubGroups[i])'
  <2>1. ASSUME NEW i \in DOMAIN hubGroups
        PROVE  IsHubGroup(hubGroups[i])' /\ HasMembers(hubGroups[i])'
    <3>1. PICK g : g = hubGroups[i] /\ IsHubGroup(g) /\ HasMembers(g)
      BY DEF GroupsInv
    <3>2. IsHubGroup(g)' /\ HasMembers(g)'
      BY <3>1, Frame
    <3> QED
      BY <3>1, <3>2
  <2> QED
    BY <2>1
<1> QED
  BY <1>1 DEF GroupsInv, HubAt

LEMMA StandaloneLater ==
  ASSUME pc' = "hubs"
  PROVE  StandaloneCovered'
BY DEF StandaloneCovered

LEMMA VisitHubStays ==
  ASSUME IInv, VisitHub
  PROVE  IInv'
<1>a. PICK hub \in services : \E serial \in ResolvedSerials(hub) :
        /\ services' = services \ {hub}
        /\ hubGroup' = <<USBDevice(hub, LocationID(hub.at), serial, NoPort, NoPort)>>
        /\ children' = IF hub.live THEN Snapshot(Below(hub.path)) ELSE {}
  BY DEF VisitHub
<1>1. PICK serial \in ResolvedSerials(hub) :
        /\ services' = services \ {hub}
        /\ hubGroup' = <<USBDevice(hub, LocationID(hub.at), serial, NoPort, NoPort)>>
        /\ children' = IF hub.live THEN Snapshot(Below(hub.path)) ELSE {}
  BY <1>a
<1>2. /\ pc = "hubs" /\ hubGroup = <<>>
      /\ UNCHANGED <<tree, pc, hubGroups, standaloneDevices, result, disturbed, failed>>
  BY DEF VisitHub
<1>3. TreeInv /\ ServicesInv /\ IsService(hub) /\ DistinctPaths(services) /\ children = {}
  BY <1>2 DEF IInv, ServicesInv, VisitInv
<1>4. PICK h : h = hub.path
  OBVIOUS
<1>5. h \in Places /\ Len(h) > 1
  BY <1>3, <1>4, ServicePath
<1>6. is_freewili_hub(hub.dev.prod) /\ \A i \in DOMAIN hubGroups : h # hubGroups[i][1].place
  BY <1>2, <1>4 DEF IInv, HubsInv
<1>7. PICK dev : dev = USBDevice(hub, LocationID(hub.at), serial, NoPort, NoPort)
  OBVIOUS
<1>8. /\ IsRead(dev) /\ dev.place = h /\ dev.kind = "Hub" /\ is_freewili_hub(dev.prod)
      /\ Steady(dev.place) => Said(dev) = Due(dev.place)
  BY <1>3, <1>4, <1>6, <1>7, HubIsRead
<1>9. PICK g : g = <<dev>> /\ g \in Seq(ToSet(g)) /\ Len(g) = 1 /\ DOMAIN g = {1} /\ g[1] = dev /\ g # <<>>
  BY GroupOfOne
<1>10. hubGroup' = g
  BY <1>1, <1>7, <1>9
<1>11. IsHubGroup(g)
  BY <1>8, <1>9 DEF IsHubGroup
<1>12. \A p \in Below(h) : p \in DOMAIN tree /\ Front(p) = h /\ Len(p) # 1 /\ p # h /\ IsPrefix(h, p)
  BY <1>3, <1>5, BelowIs
<1>13. /\ \A s \in Snapshot(Below(h)) :
            /\ s \in Service /\ s.live /\ Len(s.path) > 1 /\ s.at = s.path
            /\ s.path \in Below(h) /\ s.path \in DOMAIN tree /\ tree[s.path] = s.dev
       /\ \A p \in Below(h) : \E s \in Snapshot(Below(h)) : s.path = p
       /\ DistinctPaths(Snapshot(Below(h)))
  BY <1>3, <1>12, SnapshotIs
<1>14. children' \subseteq Snapshot(Below(h)) /\ DistinctPaths(children')
  BY <1>1, <1>4, <1>13 DEF DistinctPaths
<1>15. \A s \in children' : IsService(s) /\ Front(s.path) = h /\ s.path # h
  BY <1>12, <1>13, <1>14 DEF IsService
<1>16. TreeInv' /\ DisturbedInv' /\ ResultInv'
  BY <1>2, TreeStays, DisturbedFrame, ResultFrame DEF IInv
<1>17. ServicesInv'
  BY <1>1, <1>2, <1>3, <1>14, <1>15, ServicesFewer
<1>18. HubAt' = h
  BY <1>8, <1>9, <1>10 DEF HubAt
<1>19. VisitInv'
  <2>1. IsHubGroup(g)'
    BY <1>2, <1>11, Frame
  <2>2. \A c \in children' : ~Has(g, c.path)
    BY <1>8, <1>9, <1>15 DEF Has
  <2>3. \A p \in SteadyMembers(h) : \E c \in children' : c.path = p
    <3>1. CASE hub.live
      BY <1>1, <1>4, <1>13, <3>1 DEF SteadyMembers, Members
    <3>2. CASE ~hub.live
      <4>1. h \in disturbed
        BY <1>3, <1>4, <3>2 DEF IsService
      <4>2. \A p \in Below(h) : p \in disturbed
        BY <1>12, <4>1 DEF IInv, DisturbedInv
      <4> QED
        BY <4>2 DEF SteadyMembers, Members
    <3> QED
      BY <3>1, <3>2
  <2>4. SteadyMembers(h)' = SteadyMembers(h)
    BY <1>2, Frame
  <2>5. \A p \in SteadyMembers(HubAt)' : Has(hubGroup, p)' \/ \E c \in children' : c.path = p
    BY <1>18, <2>3, <2>4
  <2>6. \A c \in children' : Front(c.path) = HubAt' /\ ~Has(hubGroup, c.path)'
    BY <1>10, <1>15, <1>18, <2>2
  <2>7. IsHubGroup(hubGroup)'
    BY <1>10, <2>1
  <2> QED
    BY <1>2, <1>9, <1>10, <2>5, <2>6, <2>7 DEF VisitInv
<1>20. GroupsInv'
  BY <1>2, <1>6, <1>8, <1>9, <1>10, GroupsFrame DEF IInv
<1>21. HubsInv'
  <2>1. \A s \in services' : s.path # h
    BY <1>1, <1>3, <1>4 DEF DistinctPaths
  <2> QED
    BY <1>1, <1>2, <1>18, <2>1 DEF IInv, HubsInv
<1>22. HubsCovered'
  <2>1. ASSUME "hubs" \notin failed, NEW p \in DOMAIN tree,
               is_freewili_hub(tree[p].prod), SteadyMembers(p) # {}, p \notin disturbed
        PROVE  \/ \E s \in services' : s.path = p
               \/ h = p
               \/ \E i \in DOMAIN hubGroups : hubGroups[i][1].place = p
    BY <1>1, <1>2, <1>4, <2>1 DEF IInv, HubsCovered, Scanning
  <2>2. \A p : SteadyMembers(p)' = SteadyMembers(p)
    BY <1>2, Frame
  <2>3. hubGroup' # <<>>
    BY <1>9, <1>10
  <2> QED
    BY <1>2, <1>18, <2>1, <2>2, <2>3 DEF HubsCovered
<1>23. StandaloneInv' /\ StandaloneCovered'
  BY <1>2, StandaloneFrame, StandaloneLater DEF IInv
<1> QED
  BY <1>16, <1>17, <1>19, <1>20, <1>21, <1>22, <1>23 DEF IInv
\* A group with one more child of its hub.
LEMMA OneMoreChild ==
  ASSUME NEW g, IsHubGroup(g), NEW dev, IsRead(dev), IsChildOf(dev, g[1].place),
         ~Has(g, dev.place), NEW h, h = Append(g, dev)
  PROVE  /\ IsHubGroup(h) /\ h # <<>> /\ h[1].place = g[1].place
         /\ \A p : Has(h, p) <=> Has(g, p) \/ p = dev.place
<1>1. g \in Seq(ToSet(g)) /\ Len(g) > 0
  BY DEF IsHubGroup
<1>2. PICK n \in Nat : /\ n = Len(g) /\ DOMAIN g = 1..n
                       /\ h \in Seq(ToSet(h)) /\ Len(h) = n + 1 /\ DOMAIN h = 1..(n + 1)
                       /\ h[n + 1] = dev /\ \A k \in 1..n : h[k] = g[k]
                       /\ h # <<>>
  BY <1>1, GroupOfMore
<1>3. n > 0 /\ 1 \in 1..n /\ n + 1 > 0
  BY <1>1, <1>2
<1>4. h[1] = g[1]
  BY <1>2, <1>3
<1>5. \A k \in 1..(n + 1) : k \in 1..n \/ k = n + 1
  OBVIOUS
<1>6. \A k \in DOMAIN h : IsRead(h[k])
  BY <1>2, <1>5 DEF IsHubGroup
<1>7. \A k \in DOMAIN h : k > 1 => IsChildOf(h[k], h[1].place)
  BY <1>2, <1>4, <1>5 DEF IsHubGroup
<1>8. \A k \in 1..n : g[k].place # dev.place
  BY <1>2 DEF Has
<1>9. \A k, l \in DOMAIN h : h[k].place = h[l].place => k = l
  <2> SUFFICES ASSUME NEW k \in 1..(n + 1), NEW l \in 1..(n + 1), h[k].place = h[l].place
               PROVE  k = l
    BY <1>2
  <2>1. CASE k \in 1..n /\ l \in 1..n
    BY <1>2, <2>1 DEF IsHubGroup
  <2>2. CASE k = n + 1 \/ l = n + 1
    BY <1>2, <1>5, <1>8, <2>2
  <2> QED
    BY <1>5, <2>1, <2>2
<1>10. IsHubGroup(h)
  BY <1>2, <1>3, <1>4, <1>6, <1>7, <1>9 DEF IsHubGroup
<1>11. \A p : Has(h, p) <=> Has(g, p) \/ p = dev.place
  <2>1. n + 1 \in 1..(n + 1) /\ 1..n \subseteq 1..(n + 1)
    OBVIOUS
  <2> QED
    BY <1>2, <1>5, <2>1 DEF Has
<1> QED
  BY <1>2, <1>4, <1>10, <1>11

LEMMA MemberIsNoHub ==
  ASSUME NEW prod, IsMember(prod), ~is_freewili_hub(prod)
  PROVE  ~IsHub(prod) /\ ~isStandAloneDevice(prod)
BY DEF IsMember, IsHub, is_freewili_hub, isStandAloneDevice, is_vid_pid_whitelisted,
       WhitelistVIDPID, HubProduct, StandaloneProduct

\* What a visited child adds to the group, if anything.
ChildAdded(child) ==
  \/ /\ IsMember(child.dev.prod)
     /\ \E dev : /\ IsRead(dev) /\ IsChildOf(dev, HubAt) /\ dev.place = child.path
                 /\ hubGroup' = Append(hubGroup, dev)
  \/ /\ ~IsMember(child.dev.prod) \/ ~child.live
     /\ hubGroup' = hubGroup

LEMMA ChildRead ==
  ASSUME TreeInv, ServicesInv, VisitInv, VisitChild
  PROVE  \E child \in children : children' = children \ {child} /\ ChildAdded(child)
<1>1. PICK child \in children :
        /\ children' = children \ {child}
        /\ \/ /\ IsMember(child.dev.prod)
              /\ \E read \in AsRead(child) :
                   \E serial \in ResolvedSerials(read),
                      port \in SerialPorts(read), storage \in StoragePaths(read) :
                     hubGroup' = Append(hubGroup,
                       USBDevice(read, LocationID(read.at), serial, port, storage))
           \/ /\ ~IsMember(child.dev.prod) \/ ~child.live
              /\ UNCHANGED hubGroup
  BY DEF VisitChild
<1>2. IsService(child) /\ Front(child.path) = HubAt
  BY <1>1 DEF ServicesInv, VisitInv
<1>3. ASSUME IsMember(child.dev.prod), NEW read \in AsRead(child),
             NEW serial \in ResolvedSerials(read),
             NEW port \in SerialPorts(read), NEW storage \in StoragePaths(read),
             hubGroup' = Append(hubGroup,
                           USBDevice(read, LocationID(read.at), serial, port, storage))
      PROVE  ChildAdded(child)
  <2>1. PICK dev : dev = USBDevice(read, LocationID(read.at), serial, port, storage)
    OBVIOUS
  <2>2. IsRead(dev)
    BY <1>2, <1>3, <2>1, DeviceIsRead
  <2>3. /\ read.path = child.path /\ read.dev.prod = child.dev.prod
        /\ read.at = child.path \/ ~child.live
    BY <1>2, <1>3, ReadAs
  <2>4. dev.place = child.path /\ dev.prod = child.dev.prod
        /\ dev.kind = getUSBDeviceTypeFrom(child.dev.prod, LocationID(read.at))
    BY <2>1, <2>3, ReadFields
  <2>5. ~child.live => child.path \in disturbed
    BY <1>2 DEF IsService
  <2>6. IsChildOf(dev, HubAt)
    BY <1>2, <1>3, <2>3, <2>4, <2>5 DEF IsChildOf
  <2> QED
    BY <1>3, <2>1, <2>2, <2>4, <2>6 DEF ChildAdded
<1>4. ASSUME ~IsMember(child.dev.prod) \/ ~child.live, UNCHANGED hubGroup
      PROVE  ChildAdded(child)
  BY <1>4 DEF ChildAdded
<1> QED
  BY <1>1, <1>3, <1>4

LEMMA VisitChildStays ==
  ASSUME IInv, VisitChild
  PROVE  IInv'
<1>1. PICK child \in children : children' = children \ {child} /\ ChildAdded(child)
  BY ChildRead DEF IInv
<1>2. /\ pc = "hubs"
      /\ UNCHANGED <<tree, pc, services, hubGroups, standaloneDevices, result, disturbed, failed>>
  BY DEF VisitChild
<1>3. /\ TreeInv /\ ServicesInv /\ DistinctPaths(children) /\ IsService(child)
      /\ \A c \in children : IsService(c)
  BY DEF IInv, ServicesInv
<1>4. /\ hubGroup # <<>> /\ IsHubGroup(hubGroup)
      /\ \A c \in children : Front(c.path) = HubAt /\ ~Has(hubGroup, c.path)
      /\ \A p \in SteadyMembers(HubAt) : Has(hubGroup, p) \/ \E c \in children : c.path = p
  BY <1>1 DEF IInv, VisitInv
<1>5. \A c \in children' : c \in children /\ c.path # child.path
  BY <1>1, <1>3 DEF DistinctPaths
<1>6. PICK g, h : g = hubGroup' /\ h = HubAt /\ HubAt = hubGroup[1].place
  BY DEF HubAt
<1>7. /\ IsHubGroup(g) /\ g # <<>> /\ g[1].place = h
      /\ \A c \in children' : ~Has(g, c.path)
      /\ \A p \in SteadyMembers(h) : Has(g, p) \/ \E c \in children' : c.path = p
  <2>1. CASE \E dev : /\ IsRead(dev) /\ IsChildOf(dev, HubAt) /\ dev.place = child.path
                      /\ hubGroup' = Append(hubGroup, dev)
    <3>1. PICK dev : /\ IsRead(dev) /\ IsChildOf(dev, hubGroup[1].place) /\ dev.place = child.path
                     /\ g = Append(hubGroup, dev)
      BY <1>6, <2>1
    <3>2. ~Has(hubGroup, dev.place)
      BY <1>1, <1>4, <3>1
    <3>3. /\ IsHubGroup(g) /\ g # <<>> /\ g[1].place = h
          /\ \A p : Has(g, p) <=> Has(hubGroup, p) \/ p = child.path
      <4>1. PICK old, x : old = hubGroup /\ x = dev.place
        OBVIOUS
      <4>2. /\ IsHubGroup(old) /\ IsRead(dev) /\ IsChildOf(dev, old[1].place)
            /\ ~Has(old, dev.place) /\ g = Append(old, dev)
        BY <1>4, <3>1, <3>2, <4>1
      <4>3. /\ IsHubGroup(g) /\ g # <<>> /\ g[1].place = old[1].place
            /\ \A p : Has(g, p) <=> Has(old, p) \/ p = dev.place
        BY <4>2, OneMoreChild
      <4> QED
        BY <1>6, <3>1, <4>1, <4>3
    <3>4. \A p \in SteadyMembers(h) : Has(g, p) \/ \E c \in children' : c.path = p
      BY <1>1, <1>4, <1>6, <3>3
    <3> QED
      BY <1>4, <1>5, <3>3, <3>4
  <2>2. CASE (~IsMember(child.dev.prod) \/ ~child.live) /\ hubGroup' = hubGroup
    <3>1. child.path \notin SteadyMembers(h)
      BY <1>3, <2>2 DEF SteadyMembers, Members, IsService
    <3>2. \A p \in SteadyMembers(h) : Has(g, p) \/ \E c \in children' : c.path = p
      BY <1>1, <1>4, <1>6, <2>2, <3>1
    <3> QED
      BY <1>4, <1>5, <1>6, <2>2, <3>2
  <2> QED
    BY <1>1, <2>1, <2>2 DEF ChildAdded
<1>8. HubAt' = h
  BY <1>6, <1>7 DEF HubAt
<1>9. TreeInv' /\ DisturbedInv' /\ ResultInv'
  BY <1>2, TreeStays, DisturbedFrame, ResultFrame DEF IInv
<1>10. ServicesInv'
  <2>1. \A c \in children' : IsService(c)
    BY <1>3, <1>5
  <2>2. DistinctPaths(children')
    BY <1>3, <1>5 DEF DistinctPaths
  <2> QED
    BY <1>2, <1>3, <2>1, <2>2, ServicesFewer
<1>11. VisitInv'
  <2>1. IsHubGroup(g)' /\ SteadyMembers(h)' = SteadyMembers(h)
    BY <1>2, <1>7, Frame
  <2>2. IsHubGroup(hubGroup)' /\ \A p : Has(hubGroup, p)' <=> Has(g, p)
    BY <1>6, <2>1
  <2>3. \A p \in SteadyMembers(HubAt)' : Has(hubGroup, p)' \/ \E c \in children' : c.path = p
    BY <1>7, <1>8, <2>1, <2>2
  <2>4. \A c \in children' : Front(c.path) = HubAt' /\ ~Has(hubGroup, c.path)'
    BY <1>4, <1>5, <1>6, <1>7, <1>8, <2>2
  <2> QED
    BY <1>2, <1>6, <1>7, <2>2, <2>3, <2>4 DEF VisitInv
<1>12. GroupsInv'
  <2>1. \A i \in DOMAIN hubGroups : hubGroup'[1].place # hubGroups[i][1].place
    BY <1>4, <1>6, <1>7 DEF IInv, GroupsInv
  <2> QED
    BY <1>2, <2>1, GroupsFrame DEF IInv
<1>13. HubsInv'
  BY <1>2, <1>4, <1>6, <1>8 DEF IInv, HubsInv
<1>14. HubsCovered'
  <2>1. \A p : SteadyMembers(p)' = SteadyMembers(p)
    BY <1>2, Frame
  <2>2. ASSUME "hubs" \notin failed, NEW p \in DOMAIN tree,
               is_freewili_hub(tree[p].prod), SteadyMembers(p) # {}, p \notin disturbed
        PROVE  \/ \E s \in services : s.path = p
               \/ h = p
               \/ \E i \in DOMAIN hubGroups : hubGroups[i][1].place = p
    BY <1>2, <1>6, <2>2 DEF IInv, HubsCovered, Scanning
  <2> QED
    BY <1>2, <1>6, <1>7, <1>8, <2>1, <2>2 DEF HubsCovered
<1>15. StandaloneInv' /\ StandaloneCovered'
  BY <1>2, StandaloneFrame, StandaloneLater DEF IInv
<1> QED
  BY <1>9, <1>10, <1>11, <1>12, <1>13, <1>14, <1>15 DEF IInv
LEMMA EndHubStays ==
  ASSUME IInv, EndHub
  PROVE  IInv'
<1>1. /\ pc = "hubs" /\ hubGroup # <<>> /\ children = {}
      /\ hubGroups' = Pushed(hubGroups, hubGroup) /\ hubGroup' = <<>>
      /\ UNCHANGED <<tree, pc, services, children, standaloneDevices, result, disturbed, failed>>
  BY DEF EndHub
<1>2. PICK g : g = hubGroup /\ g # <<>>
  BY <1>1
<1>3. PICK h : h = HubAt /\ h = g[1].place
  BY <1>2 DEF HubAt
<1>4. /\ IsHubGroup(g) /\ \A p \in SteadyMembers(h) : Has(g, p)
      /\ \A i \in DOMAIN hubGroups : h # hubGroups[i][1].place
      /\ hubGroups \in Seq(ToSet(hubGroups))
  BY <1>1, <1>2, <1>3 DEF IInv, VisitInv, GroupsInv
<1>5. HasMembers(g)
  BY <1>3, <1>4 DEF HasMembers
<1>6. SteadyMembers(h) # {} => Len(g) > 1
  <2> SUFFICES ASSUME NEW p \in SteadyMembers(h) PROVE Len(g) > 1
    OBVIOUS
  <2>1. PICK n \in Nat : n = Len(g) /\ DOMAIN g = 1..n
    BY <1>4 DEF IsHubGroup
  <2>2. PICK k \in 1..n : g[k].place = p
    BY <1>4, <2>1 DEF Has
  <2>3. p # h
    <3>1. p \in Below(h)
      BY DEF SteadyMembers, Members
    <3>2. Len(p) = Len(h) + 1
      BY <3>1 DEF Below
    <3>3. h \in Places
      <4>1. 1 \in DOMAIN g
        BY <1>4, <2>1 DEF IsHubGroup
      <4> QED
        BY <1>3, <1>4, <4>1 DEF IsHubGroup, IsRead
    <3>4. PICK m : m = Len(h)
      OBVIOUS
    <3>5. m \in Nat
      BY <3>3, <3>4, PlacesAre
    <3>6. m + 1 # m
      BY <3>5
    <3> QED
      BY <3>2, <3>4, <3>6
  <2>4. k # 1
    BY <1>3, <2>2, <2>3
  <2> QED
    BY <2>1, <2>2, <2>4
<1>7. PICK gs : gs = hubGroups'
  OBVIOUS
<1>8. PICK n \in Nat : n = Len(hubGroups) /\ DOMAIN hubGroups = 1..n
  BY <1>4
<1>9. /\ gs \in Seq(ToSet(gs))
      /\ \A i \in DOMAIN gs : \/ i \in 1..n /\ gs[i] = hubGroups[i]
                              \/ i = n + 1 /\ gs[i] = g /\ Len(g) > 1
      /\ \A i \in 1..n : i \in DOMAIN gs /\ gs[i] = hubGroups[i]
      /\ Len(g) > 1 => \E i \in DOMAIN gs : gs[i] = g
  <2>1. CASE Len(g) > 1
    <3>1. gs = Append(hubGroups, g)
      BY <1>1, <1>2, <1>7, <2>1 DEF Pushed
    <3>2. /\ gs \in Seq(ToSet(gs)) /\ DOMAIN gs = 1..(n + 1)
          /\ gs[n + 1] = g /\ \A k \in 1..n : gs[k] = hubGroups[k]
      BY <1>4, <1>8, <3>1, GroupOfMore
    <3>3. n + 1 \in 1..(n + 1) /\ 1..n \subseteq 1..(n + 1) /\ \A i \in 1..(n + 1) : i \in 1..n \/ i = n + 1
      OBVIOUS
    <3> QED
      BY <2>1, <3>2, <3>3
  <2>2. CASE ~(Len(g) > 1)
    <3>1. gs = hubGroups
      BY <1>1, <1>2, <1>7, <2>2 DEF Pushed
    <3> QED
      BY <1>4, <1>8, <2>2, <3>1
  <2> QED
    BY <2>1, <2>2
<1>10. TreeInv' /\ DisturbedInv' /\ ResultInv'
  BY <1>1, TreeStays, DisturbedFrame, ResultFrame DEF IInv
<1>11. ServicesInv'
  <2>1. \A s \in children' : IsService(s)
    BY <1>1
  <2>2. DistinctPaths(children')
    BY <1>1 DEF DistinctPaths
  <2> QED
    BY <1>1, <2>1, <2>2, ServicesFewer DEF IInv
<1>12. VisitInv'
  BY <1>1 DEF VisitInv
<1>13. GroupsInv'
  <2>1. \A i \in 1..n : /\ IsHubGroup(hubGroups[i]) /\ Len(hubGroups[i]) > 1 /\ HasMembers(hubGroups[i])
                        /\ \A j \in 1..n : hubGroups[i][1].place = hubGroups[j][1].place => i = j
    BY <1>8 DEF IInv, GroupsInv
  <2>2. \A i \in DOMAIN gs : IsHubGroup(gs[i]) /\ Len(gs[i]) > 1 /\ HasMembers(gs[i])
    BY <1>4, <1>5, <1>9, <2>1
  <2>3. ASSUME NEW i \in DOMAIN gs, NEW j \in DOMAIN gs, gs[i][1].place = gs[j][1].place
        PROVE  i = j
    <3>1. \/ i \in 1..n /\ gs[i] = hubGroups[i]
          \/ i = n + 1 /\ gs[i] = g
      BY <1>9
    <3>2. \/ j \in 1..n /\ gs[j] = hubGroups[j]
          \/ j = n + 1 /\ gs[j] = g
      BY <1>9
    <3>3. \A k \in 1..n : hubGroups[k][1].place # g[1].place
      BY <1>3, <1>4, <1>8
    <3> QED
      BY <2>1, <2>3, <3>1, <3>2, <3>3
  <2>4. \A i \in DOMAIN gs : IsHubGroup(gs[i])' /\ HasMembers(gs[i])'
    <3>1. ASSUME NEW i \in DOMAIN gs
          PROVE  IsHubGroup(gs[i])' /\ HasMembers(gs[i])'
      BY <1>1, <2>2, Frame
    <3> QED
      BY <3>1
  <2> QED
    BY <1>1, <1>7, <1>9, <2>2, <2>3, <2>4 DEF GroupsInv
<1>14. HubsInv'
  <2>1. \A s \in services : /\ is_freewili_hub(s.dev.prod) /\ s.path # h
                            /\ \A i \in 1..n : s.path # hubGroups[i][1].place
    BY <1>1, <1>3, <1>8 DEF IInv, HubsInv
  <2>2. \A s \in services : \A i \in DOMAIN gs : s.path # gs[i][1].place
    BY <1>3, <1>9, <2>1
  <2> QED
    BY <1>1, <1>7, <2>1, <2>2 DEF IInv, HubsInv
<1>15. HubsCovered'
  <2>1. \A p : SteadyMembers(p)' = SteadyMembers(p)
    BY <1>1, Frame
  <2>2. ASSUME "hubs" \notin failed, NEW p \in DOMAIN tree,
               is_freewili_hub(tree[p].prod), SteadyMembers(p) # {}, p \notin disturbed
        PROVE  \/ \E s \in services : s.path = p
               \/ \E i \in DOMAIN gs : gs[i][1].place = p
    <3>1. \/ \E s \in services : s.path = p
          \/ h = p
          \/ \E i \in 1..n : hubGroups[i][1].place = p
      BY <1>1, <1>3, <1>8, <2>2 DEF IInv, HubsCovered, Scanning
    <3> QED
      BY <1>3, <1>6, <1>9, <2>2, <3>1
  <2> QED
    BY <1>1, <1>7, <2>1, <2>2 DEF HubsCovered
<1>16. StandaloneInv' /\ StandaloneCovered'
  BY <1>1, StandaloneFrame, StandaloneLater DEF IInv
<1> QED
  BY <1>10, <1>11, <1>12, <1>13, <1>14, <1>15, <1>16 DEF IInv

LEMMA FindStandaloneStays ==
  ASSUME IInv, FindStandalone
  PROVE  IInv'
<1> DEFINE P == {p \in DOMAIN tree : isStandAloneDevice(tree[p].prod)}
<1>1. /\ pc = "hubs" /\ hubGroup = <<>> /\ services = {} /\ pc' = "standalone"
      /\ UNCHANGED <<tree, children, hubGroup, hubGroups, standaloneDevices, result, disturbed>>
      /\ \/ services' = Snapshot(P) /\ failed' = failed
         \/ services' = {} /\ failed' = failed \cup {"standalone"}
  BY DEF FindStandalone, Iterator
<1>2. TreeInv /\ children = {} /\ DOMAIN standaloneDevices = {}
  BY <1>1 DEF IInv, HubsInv, VisitInv
<1>3. P \subseteq DOMAIN tree /\ \A p \in P : Len(p) # 1 /\ isStandAloneDevice(tree[p].prod)
  BY <1>2, NoController
<1>4. /\ \A s \in Snapshot(P) :
           /\ s \in Service /\ s.live /\ Len(s.path) > 1 /\ s.at = s.path
           /\ s.path \in P /\ s.path \in DOMAIN tree /\ tree[s.path] = s.dev
      /\ \A p \in P : \E s \in Snapshot(P) : s.path = p
      /\ DistinctPaths(Snapshot(P))
  BY <1>2, <1>3, SnapshotIs
<1>5. TreeInv' /\ DisturbedInv'
  BY <1>1, <1>2, TreeStays, DisturbedFrame DEF IInv
<1>6. ServicesInv'
  <2>1. ASSUME NEW s \in services'
        PROVE  IsService(s)'
    <3>1. IsService(s)
      BY <1>1, <1>4 DEF IsService
    <3> QED
      BY <1>1, <3>1, Frame
  <2>2. DistinctPaths(services)' /\ DistinctPaths(children)'
    BY <1>1, <1>2, <1>4 DEF DistinctPaths
  <2>3. children' = {}
    BY <1>1, <1>2
  <2> QED
    BY <2>1, <2>2, <2>3 DEF ServicesInv
<1>7. VisitInv'
  BY <1>1, <1>2 DEF VisitInv
<1>8. GroupsInv'
  BY <1>1, GroupsFrame DEF IInv
<1>9. HubsInv'
  BY <1>1 DEF HubsInv
<1>10. HubsCovered'
  <2>1. \A p : SteadyMembers(p)' = SteadyMembers(p)
    BY <1>1, Frame
  <2> QED
    BY <1>1, <2>1 DEF IInv, HubsCovered, Scanning
<1>11. StandaloneInv'
  <2>1. \A s \in services' : isStandAloneDevice(s.dev.prod)
    BY <1>1, <1>3, <1>4
  <2> QED
    BY <1>1, <1>2, <2>1 DEF IInv, StandaloneInv
<1>12. StandaloneCovered'
  <2>1. "standalone" \notin failed' => \A p \in P : \E s \in services' : s.path = p
    BY <1>1, <1>4
  <2> QED
    BY <1>1, <2>1 DEF StandaloneCovered
<1>13. ResultInv'
  BY <1>1 DEF IInv, ResultInv
<1> QED
  BY <1>5, <1>6, <1>7, <1>8, <1>9, <1>10, <1>11, <1>12, <1>13 DEF IInv
\* dev is listed last under key, and the rest is listed as before.
OneMoreListed(sd, key, dev, more) ==
  /\ DOMAIN more = DOMAIN sd \cup {key}
  /\ \A a \in DOMAIN more : more[a] \in Seq(ToSet(more[a])) /\ Len(more[a]) > 0
  /\ \E n \in Nat : \A a \in DOMAIN more : \A k \in DOMAIN more[a] :
       \/ a \in DOMAIN sd /\ k \in DOMAIN sd[a] /\ more[a][k] = sd[a][k]
       \/ a = key /\ k = n + 1 /\ more[a][k] = dev
  /\ \A a \in DOMAIN sd : \A k \in DOMAIN sd[a] : k \in DOMAIN more[a] /\ more[a][k] = sd[a][k]
  /\ \E k \in DOMAIN more[key] : more[key][k] = dev

LEMMA Listed ==
  ASSUME NEW sd, \A a \in DOMAIN sd : sd[a] \in Seq(ToSet(sd[a])) /\ Len(sd[a]) > 0,
         NEW key, NEW dev, NEW list, list = IF key \in DOMAIN sd THEN sd[key] ELSE <<>>,
         NEW more,
         more = [k \in DOMAIN sd \cup {key} |-> IF k = key THEN Append(list, dev) ELSE sd[k]]
  PROVE  OneMoreListed(sd, key, dev, more)
<1>1. list \in Seq(ToSet(list))
  BY EmptyList
<1>a. PICK h : h = Append(list, dev)
  OBVIOUS
<1>2. PICK n \in Nat : /\ h = Append(list, dev) /\ DOMAIN list = 1..n
                       /\ h \in Seq(ToSet(h)) /\ Len(h) = n + 1 /\ DOMAIN h = 1..(n + 1)
                       /\ h[n + 1] = dev /\ \A k \in 1..n : h[k] = list[k]
  BY <1>1, <1>a, GroupOfMore
<1>3. /\ DOMAIN more = DOMAIN sd \cup {key} /\ more[key] = h
      /\ \A a \in DOMAIN sd : a # key => more[a] = sd[a]
  BY <1>2
<1>4. Len(h) > 0 /\ n + 1 \in DOMAIN h /\ \A k \in DOMAIN h : k \in 1..n \/ k = n + 1
  BY <1>2
<1>5. key \notin DOMAIN sd => n = 0
  <2>1. ASSUME key \notin DOMAIN sd PROVE n = 0
    <3>1. DOMAIN list = {}
      BY <2>1, EmptyList
    <3>2. 1 \notin 1..n
      BY <1>2, <3>1
    <3> QED
      BY <3>2
  <2> QED
    BY <2>1
<1>6. \A k \in DOMAIN h : \/ key \in DOMAIN sd /\ k \in DOMAIN sd[key] /\ h[k] = sd[key][k]
                          \/ k = n + 1 /\ h[k] = dev
  <2>1. ASSUME NEW k \in 1..n
        PROVE  key \in DOMAIN sd /\ k \in DOMAIN sd[key] /\ h[k] = sd[key][k]
    <3>1. key \in DOMAIN sd
      BY <1>5
    <3> QED
      BY <1>2, <3>1
  <2> QED
    BY <1>2, <1>4, <2>1
<1>7. \A a \in DOMAIN more : more[a] \in Seq(ToSet(more[a])) /\ Len(more[a]) > 0
  BY <1>2, <1>3, <1>4
<1>8. \A a \in DOMAIN more : \A k \in DOMAIN more[a] :
        \/ a \in DOMAIN sd /\ k \in DOMAIN sd[a] /\ more[a][k] = sd[a][k]
        \/ a = key /\ k = n + 1 /\ more[a][k] = dev
  BY <1>3, <1>6
<1>9. \A a \in DOMAIN sd : \A k \in DOMAIN sd[a] : k \in DOMAIN more[a] /\ more[a][k] = sd[a][k]
  <2>1. ASSUME key \in DOMAIN sd, NEW k \in DOMAIN sd[key]
        PROVE  k \in DOMAIN h /\ h[k] = sd[key][k]
    <3>1. k \in 1..n /\ list = sd[key]
      BY <1>2, <2>1
    <3>2. k \in 1..(n + 1)
      BY <3>1
    <3> QED
      BY <1>2, <3>1, <3>2
  <2> QED
    BY <1>3, <2>1
<1>10. \E k \in DOMAIN more[key] : more[key][k] = dev
  BY <1>2, <1>3, <1>4
<1> QED
  BY <1>3, <1>7, <1>8, <1>9, <1>10 DEF OneMoreListed

\* What a visited badge adds to the map, if anything.
BadgeAdded(s) ==
  \/ \E key, dev : /\ IsRead(dev) /\ isStandAloneDevice(dev.prod) /\ dev.place = s.path
                   /\ dev.container = key[1] /\ dev.serial = key[2] /\ dev.prod = key[3]
                   /\ OneMoreListed(standaloneDevices, key, dev, standaloneDevices')
  \/ ~s.live /\ standaloneDevices' = standaloneDevices

LEMMA BadgeRead ==
  ASSUME TreeInv, ServicesInv, StandaloneInv, VisitStandalone
  PROVE  \E s \in services : services' = services \ {s} /\ BadgeAdded(s)
<1>1. PICK s \in services :
        /\ services' = services \ {s}
        /\ \/ \E read \in AsRead(s) :
                \E port \in SerialPorts(read), storage \in StoragePaths(read) :
                  LET key  == deviceKey(read)
                      dev  == USBDevice(read, getUSBPortFromLocationID(read.at),
                                        Published(read), port, storage)
                      list == IF key \in DOMAIN standaloneDevices
                              THEN standaloneDevices[key] ELSE <<>>
                  IN  standaloneDevices' = [k \in DOMAIN standaloneDevices \cup {key} |->
                        IF k = key THEN Append(list, dev) ELSE standaloneDevices[k]]
           \/ ~s.live /\ UNCHANGED standaloneDevices
  BY DEF VisitStandalone
<1>2. IsService(s) /\ isStandAloneDevice(s.dev.prod)
  BY DEF VisitStandalone, ServicesInv, StandaloneInv
<1>3. ASSUME NEW read \in AsRead(s), NEW port \in SerialPorts(read),
             NEW storage \in StoragePaths(read), NEW key, NEW dev, NEW list,
             key = deviceKey(read),
             dev = USBDevice(read, getUSBPortFromLocationID(read.at), Published(read), port, storage),
             list = IF key \in DOMAIN standaloneDevices THEN standaloneDevices[key] ELSE <<>>,
             standaloneDevices' = [k \in DOMAIN standaloneDevices \cup {key} |->
                                     IF k = key THEN Append(list, dev) ELSE standaloneDevices[k]]
      PROVE  BadgeAdded(s)
  <2>1. IsRead(dev)
    BY <1>2, <1>3, DeviceIsRead
  <2>2. read.path = s.path /\ read.dev.prod = s.dev.prod
    BY <1>2, <1>3, ReadAs
  <2>3. /\ dev.place = s.path /\ dev.prod = s.dev.prod /\ dev.serial = Published(read)
        /\ dev.container = read.dev.container
    BY <1>3, <2>2, ReadFields
  <2>4. key[1] = read.dev.container /\ key[2] = Published(read) /\ key[3] = s.dev.prod
    BY <1>3, <2>2 DEF deviceKey
  <2>5. \A a \in DOMAIN standaloneDevices :
          standaloneDevices[a] \in Seq(ToSet(standaloneDevices[a])) /\ Len(standaloneDevices[a]) > 0
    BY DEF StandaloneInv, IsStandaloneGroup
  <2>6. PICK sd, more : sd = standaloneDevices /\ more = standaloneDevices'
    OBVIOUS
  <2>7. OneMoreListed(sd, key, dev, more)
    BY <1>3, <2>5, <2>6, Listed
  <2> QED
    BY <1>2, <2>1, <2>3, <2>4, <2>6, <2>7 DEF BadgeAdded
<1>4. ASSUME ~s.live, UNCHANGED standaloneDevices
      PROVE  BadgeAdded(s)
  BY <1>4 DEF BadgeAdded
<1>5. ASSUME NEW read \in AsRead(s), NEW port \in SerialPorts(read),
             NEW storage \in StoragePaths(read),
             LET key  == deviceKey(read)
                 dev  == USBDevice(read, getUSBPortFromLocationID(read.at),
                                   Published(read), port, storage)
                 list == IF key \in DOMAIN standaloneDevices
                         THEN standaloneDevices[key] ELSE <<>>
             IN  standaloneDevices' = [k \in DOMAIN standaloneDevices \cup {key} |->
                   IF k = key THEN Append(list, dev) ELSE standaloneDevices[k]]
      PROVE  BadgeAdded(s)
  BY <1>3, <1>5
<1>6. BadgeAdded(s)
  BY <1>1, <1>4, <1>5
<1> QED
  BY <1>1, <1>6
LEMMA VisitStandaloneStays ==
  ASSUME IInv, VisitStandalone
  PROVE  IInv'
<1>1. PICK s \in services : services' = services \ {s} /\ BadgeAdded(s)
  BY BadgeRead DEF IInv
<1>2. /\ pc = "standalone"
      /\ UNCHANGED <<tree, pc, children, hubGroup, hubGroups, result, disturbed, failed>>
  BY DEF VisitStandalone
<1>3. TreeInv /\ ServicesInv /\ IsService(s) /\ DistinctPaths(services) /\ StandaloneInv
  BY DEF IInv, ServicesInv
<1>4. TreeInv' /\ DisturbedInv' /\ ResultInv'
  BY <1>2, TreeStays, DisturbedFrame, ResultFrame DEF IInv
<1>5. ServicesInv'
  <2>1. (\A c \in children' : IsService(c)) /\ DistinctPaths(children')
    BY <1>2, <1>3 DEF ServicesInv, DistinctPaths
  <2>2. services' \subseteq services
    BY <1>1
  <2> QED
    BY <1>2, <1>3, <2>1, <2>2, ServicesFewer
<1>6. VisitInv' /\ HubsInv'
  <2>1. hubGroup = <<>>
    BY <1>2 DEF IInv, VisitInv
  <2> QED
    BY <1>2, <2>1 DEF IInv, VisitInv, HubsInv
<1>7. GroupsInv'
  <2>1. hubGroup = <<>>
    BY <1>2 DEF IInv, VisitInv
  <2> QED
    BY <1>2, <2>1, GroupsFrame DEF IInv
<1>8. HubsCovered'
  <2>1. \A p : SteadyMembers(p)' = SteadyMembers(p)
    BY <1>2, Frame
  <2>2. HubAt' = HubAt
    BY <1>2 DEF HubAt
  <2> QED
    BY <1>2, <2>1, <2>2 DEF IInv, HubsCovered, Scanning
<1>9. PICK sd, more : sd = standaloneDevices /\ more = standaloneDevices'
  OBVIOUS
<1>10. /\ IsFiniteSet(DOMAIN sd)
       /\ \A a \in DOMAIN sd : IsStandaloneGroup(sd[a], a)
       /\ \A a, b \in DOMAIN sd : \A k \in DOMAIN sd[a], l \in DOMAIN sd[b] :
            sd[a][k].place = sd[b][l].place => a = b /\ k = l
       /\ \A t \in services : /\ isStandAloneDevice(t.dev.prod)
                              /\ \A a \in DOMAIN sd : ~Has(sd[a], t.path)
  BY <1>2, <1>3, <1>9 DEF StandaloneInv
<1>11. \A p \in DOMAIN tree :
         (isStandAloneDevice(tree[p].prod) /\ p \notin disturbed /\ "standalone" \notin failed)
           => \/ \E t \in services : t.path = p
              \/ \E a \in DOMAIN sd : Has(sd[a], p)
  BY <1>2, <1>9 DEF IInv, StandaloneCovered
<1>12. CASE ~s.live /\ standaloneDevices' = standaloneDevices
  <2>1. StandaloneInv'
    BY <1>1, <1>2, <1>3, <1>12, StandaloneFrame
  <2>2. s.path \in disturbed
    BY <1>3, <1>12 DEF IsService
  <2>3. StandaloneCovered'
    BY <1>1, <1>2, <1>9, <1>11, <1>12, <2>2 DEF StandaloneCovered
  <2> QED
    BY <1>4, <1>5, <1>6, <1>7, <1>8, <2>1, <2>3 DEF IInv
<1>13. CASE ~(~s.live /\ standaloneDevices' = standaloneDevices)
  <2>1. PICK key, dev : /\ IsRead(dev) /\ isStandAloneDevice(dev.prod) /\ dev.place = s.path
                        /\ dev.container = key[1] /\ dev.serial = key[2] /\ dev.prod = key[3]
                        /\ OneMoreListed(sd, key, dev, more)
    BY <1>1, <1>9, <1>13 DEF BadgeAdded
  <2>2. /\ DOMAIN more = DOMAIN sd \cup {key}
        /\ \A a \in DOMAIN more : more[a] \in Seq(ToSet(more[a])) /\ Len(more[a]) > 0
        /\ \A a \in DOMAIN sd : \A k \in DOMAIN sd[a] : k \in DOMAIN more[a] /\ more[a][k] = sd[a][k]
        /\ \E k \in DOMAIN more[key] : more[key][k] = dev
    BY <2>1 DEF OneMoreListed
  <2>3. PICK n \in Nat : \A a \in DOMAIN more : \A k \in DOMAIN more[a] :
          \/ a \in DOMAIN sd /\ k \in DOMAIN sd[a] /\ more[a][k] = sd[a][k]
          \/ a = key /\ k = n + 1 /\ more[a][k] = dev
    BY <2>1 DEF OneMoreListed
  <2>4. \A a \in DOMAIN sd : \A k \in DOMAIN sd[a] : sd[a][k].place # dev.place
    BY <1>1, <1>10, <2>1 DEF Has
  <2>5. IsFiniteSet(DOMAIN more)
    BY <1>10, <2>2, FS_AddElement
  <2>6. \A a \in DOMAIN more : IsStandaloneGroup(more[a], a)
    <3>1. ASSUME NEW a \in DOMAIN more, NEW k \in DOMAIN more[a]
          PROVE  /\ IsRead(more[a][k]) /\ isStandAloneDevice(more[a][k].prod)
                 /\ more[a][k].container = a[1] /\ more[a][k].serial = a[2]
                 /\ more[a][k].prod = a[3]
      <4>1. CASE a \in DOMAIN sd /\ k \in DOMAIN sd[a] /\ more[a][k] = sd[a][k]
        BY <1>10, <4>1 DEF IsStandaloneGroup
      <4>2. CASE a = key /\ more[a][k] = dev
        BY <2>1, <4>2
      <4> QED
        BY <2>3, <4>1, <4>2
    <3> QED
      BY <2>2, <3>1 DEF IsStandaloneGroup
  <2>7. ASSUME NEW a \in DOMAIN more, NEW b \in DOMAIN more,
               NEW k \in DOMAIN more[a], NEW l \in DOMAIN more[b],
               more[a][k].place = more[b][l].place
        PROVE  a = b /\ k = l
    <3>1. \/ a \in DOMAIN sd /\ k \in DOMAIN sd[a] /\ more[a][k] = sd[a][k]
          \/ a = key /\ k = n + 1 /\ more[a][k] = dev
      BY <2>3
    <3>2. \/ b \in DOMAIN sd /\ l \in DOMAIN sd[b] /\ more[b][l] = sd[b][l]
          \/ b = key /\ l = n + 1 /\ more[b][l] = dev
      BY <2>3
    <3> QED
      BY <1>10, <2>4, <2>7, <3>1, <3>2
  <2>8. ASSUME NEW t \in services'
        PROVE  isStandAloneDevice(t.dev.prod) /\ \A a \in DOMAIN more : ~Has(more[a], t.path)
    <3>1. t \in services /\ t.path # s.path
      BY <1>1, <1>3 DEF DistinctPaths
    <3>2. isStandAloneDevice(t.dev.prod) /\ \A a \in DOMAIN sd : ~Has(sd[a], t.path)
      BY <1>10, <3>1
    <3>3. ASSUME NEW a \in DOMAIN more, NEW k \in DOMAIN more[a], more[a][k].place = t.path
          PROVE  FALSE
      BY <2>1, <2>3, <3>1, <3>2, <3>3 DEF Has
    <3> QED
      BY <3>2, <3>3 DEF Has
  <2>9. StandaloneInv'
    <3>1. \A a \in DOMAIN more : IsStandaloneGroup(more[a], a)'
      <4>1. ASSUME NEW a \in DOMAIN more
            PROVE  IsStandaloneGroup(more[a], a)'
        <5>1. PICK list : list = more[a] /\ IsStandaloneGroup(list, a)
          BY <2>6
        <5>2. \A k \in DOMAIN list : IsRead(list[k])'
          BY <1>2, <5>1, Frame DEF IsStandaloneGroup
        <5>3. IsStandaloneGroup(list, a)'
          BY <5>1, <5>2 DEF IsStandaloneGroup
        <5> QED
          BY <5>1, <5>3
      <4> QED
        BY <4>1
    <3>2. pc' = "standalone" =>
            \A t \in services' :
              /\ isStandAloneDevice(t.dev.prod)
              /\ \A a \in DOMAIN more : ~Has(more[a], t.path)'
      BY <2>8
    <3> QED
      BY <1>9, <2>5, <2>7, <3>1, <3>2 DEF StandaloneInv
  <2>10. StandaloneCovered'
    <3>1. \A a \in DOMAIN sd : \A p : Has(sd[a], p) => Has(more[a], p)
      BY <2>2 DEF Has
    <3>2. Has(more[key], s.path) /\ key \in DOMAIN more
      BY <2>1, <2>2 DEF Has
    <3>3. \A p \in DOMAIN tree :
            (isStandAloneDevice(tree[p].prod) /\ p \notin disturbed /\ "standalone" \notin failed)
              => \/ \E t \in services' : t.path = p
                 \/ \E a \in DOMAIN more : Has(more[a], p)
      BY <1>1, <1>11, <2>2, <3>1, <3>2
    <3>4. \A p \in DOMAIN tree :
            (isStandAloneDevice(tree[p].prod) /\ p \notin disturbed /\ "standalone" \notin failed)
              => \/ \E t \in services' : t.path = p
                 \/ \E a \in DOMAIN more : Has(more[a], p)'
      BY <3>3
    <3> QED
      BY <1>2, <1>9, <3>4 DEF StandaloneCovered
  <2> QED
    BY <1>4, <1>5, <1>6, <1>7, <1>8, <2>9, <2>10 DEF IInv
<1> QED
  BY <1>12, <1>13
-----------------------------------------------------------------------------
(* The result. *)

StandaloneGroups == {standaloneDevices[key] : key \in DOMAIN standaloneDevices}

LEMMA HubGroupsListed ==
  ASSUME GroupsInv
  PROVE  IsListing(hubGroups, ToSet(hubGroups))
<1>1. hubGroups \in Seq(ToSet(hubGroups))
  BY DEF GroupsInv
<1>2. \A i, j \in DOMAIN hubGroups : hubGroups[i] = hubGroups[j] => i = j
  BY DEF GroupsInv
<1>3. \A x \in ToSet(hubGroups) : \E i \in DOMAIN hubGroups : hubGroups[i] = x
  BY DEF ToSet
<1> QED
  BY <1>1, <1>2, <1>3 DEF IsListing

LEMMA StandaloneGroupsListed ==
  ASSUME StandaloneInv, NEW keys, keys = SetToSeq(DOMAIN standaloneDevices),
         NEW groups, groups = [i \in DOMAIN keys |-> standaloneDevices[keys[i]]]
  PROVE  IsListing(groups, StandaloneGroups)
<1>1. PICK D, sd : D = DOMAIN standaloneDevices /\ sd = standaloneDevices
  OBVIOUS
<1>2. IsListing(keys, D)
  BY <1>1, SetToSeqLists DEF StandaloneInv
<1>3. PICK n \in Nat : n = Len(keys) /\ DOMAIN keys = 1..n
  BY <1>2 DEF IsListing
<1>4. /\ \A i \in 1..n : keys[i] \in D
      /\ \A i, j \in 1..n : keys[i] = keys[j] => i = j
      /\ \A x \in D : \E i \in 1..n : keys[i] = x
  BY <1>2, <1>3 DEF IsListing
<1>5. groups = [i \in 1..n |-> sd[keys[i]]]
  BY <1>1, <1>3
<1>6. \A i \in 1..n : groups[i] \in StandaloneGroups /\ groups[i] = sd[keys[i]]
  BY <1>1, <1>4, <1>5 DEF StandaloneGroups
<1>7. groups \in Seq(StandaloneGroups) /\ DOMAIN groups = 1..n
  <2>1. groups \in [1..n -> StandaloneGroups]
    BY <1>5, <1>6
  <2> QED
    BY <2>1
<1>8. ASSUME NEW i \in 1..n, NEW j \in 1..n, groups[i] = groups[j]
      PROVE  i = j
  <2>1. PICK a \in D, b \in D : a = keys[i] /\ b = keys[j]
    BY <1>4
  <2>2. sd[a] = sd[b] /\ 1 \in DOMAIN sd[a]
    <3>1. sd[a] = sd[b]
      BY <1>6, <1>8, <2>1
    <3>2. IsStandaloneGroup(sd[a], a)
      BY <1>1 DEF StandaloneInv
    <3>3. 1 \in DOMAIN sd[a]
      BY <3>2 DEF IsStandaloneGroup
    <3> QED
      BY <3>1, <3>3
  <2>3. a = b
    BY <1>1, <2>2 DEF StandaloneInv
  <2> QED
    BY <1>4, <2>1, <2>3
<1>9. ASSUME NEW x \in StandaloneGroups
      PROVE  \E i \in 1..n : groups[i] = x
  <2>1. PICK a \in D : x = sd[a]
    BY <1>1 DEF StandaloneGroups
  <2>2. PICK i \in 1..n : keys[i] = a
    BY <1>4
  <2> QED
    BY <1>6, <2>1, <2>2
<1>10. PICK S : S = StandaloneGroups
  OBVIOUS
<1>11. groups \in Seq(S) /\ DOMAIN groups = 1..n
  BY <1>7, <1>10
<1>12. \A i, j \in DOMAIN groups : groups[i] = groups[j] => i = j
  <2> SUFFICES ASSUME NEW i \in DOMAIN groups, NEW j \in DOMAIN groups, groups[i] = groups[j]
               PROVE  i = j
    OBVIOUS
  <2>1. i \in 1..n /\ j \in 1..n
    BY <1>11
  <2> QED
    BY <1>8, <2>1
<1>13. \A x \in S : \E i \in DOMAIN groups : groups[i] = x
  BY <1>9, <1>10, <1>11
<1> QED
  BY <1>10, <1>11, <1>12, <1>13 DEF IsListing

LEMMA HubGroupIsNoOther ==
  ASSUME GroupsInv, StandaloneInv
  PROVE  ToSet(hubGroups) \cap StandaloneGroups = {}
<1> SUFFICES ASSUME NEW g, g \in ToSet(hubGroups), g \in StandaloneGroups PROVE FALSE
  OBVIOUS
<1>1. is_freewili_hub(g[1].prod) /\ Len(g) > 0
  BY DEF ToSet, GroupsInv, IsHubGroup
<1>2. g \in Seq(ToSet(g)) /\ \A k \in DOMAIN g : isStandAloneDevice(g[k].prod)
  BY DEF StandaloneGroups, StandaloneInv, IsStandaloneGroup
<1>3. 1 \in DOMAIN g
  BY <1>1, <1>2
<1> QED
  BY <1>1, <1>2, <1>3 DEF is_freewili_hub, isStandAloneDevice, HubProduct, StandaloneProduct

LEMMA MadeGroups ==
  ASSUME NEW P, P \subseteq Groups, NEW list, IsListing(list, P),
         NEW X, X = {MadeOfGroup[group] : group \in Groups}
  PROVE  Made(list) \in Seq(X) /\ \E from : AreMade(from, Made(list), P, MadeOfGroup)
<1>1. PICK v : v = [i \in DOMAIN list |-> fromUSBDevices(list[i])]
  OBVIOUS
<1>2. Made(list) = Erase(v, {BuildError})
  BY <1>1 DEF Made
<1>3. \A i \in DOMAIN list : list[i] \in P
  BY DEF IsListing
<1>4. PICK G, g : G = Groups /\ g = MadeOfGroup
  OBVIOUS
<1>5. \A p \in G : g[p] = fromUSBDevices(p)
  BY <1>4 DEF MadeOfGroup
<1>6. v = [i \in DOMAIN list |-> g[list[i]]]
  BY <1>1, <1>3, <1>4, <1>5
<1>7. IsMapped(v, g, list)
  BY <1>6 DEF IsMapped
<1>8. \A p \in P : g[p] \in X
  BY <1>4
<1>9. PICK w : w = Erase(v, {BuildError})
  OBVIOUS
<1>10. w \in Seq(X) /\ \E from : AreMade(from, w, P, g)
  BY <1>7, <1>8, <1>9, MadeFrom
<1> QED
  BY <1>2, <1>4, <1>9, <1>10

LEMMA ResultIsMade ==
  ASSUME GroupsInv, StandaloneInv, Return
  PROVE  \E from : AreMade(from, result', Groups, MadeOfGroup)
<1>1. PICK keys : keys = SetToSeq(DOMAIN standaloneDevices)
  OBVIOUS
<1>2. PICK groups : groups = [i \in DOMAIN keys |-> standaloneDevices[keys[i]]]
  OBVIOUS
<1>3. result' = SortByUniqueID(Made(hubGroups) \o Made(groups))
  BY <1>1, <1>2 DEF Return
<1>4. PICK P, Q : P = ToSet(hubGroups) /\ Q = StandaloneGroups
  OBVIOUS
<1>5. P \cup Q = Groups /\ P \subseteq Groups /\ Q \subseteq Groups /\ P \cap Q = {}
  BY <1>4, HubGroupIsNoOther DEF Groups, StandaloneGroups
<1>6. IsListing(hubGroups, P) /\ IsListing(groups, Q)
  BY <1>1, <1>2, <1>4, HubGroupsListed, StandaloneGroupsListed
<1>7. PICK X, g : X = {MadeOfGroup[group] : group \in Groups} /\ g = MadeOfGroup
  OBVIOUS
<1>8. PICK v, w : v = Made(hubGroups) /\ w = Made(groups)
  OBVIOUS
<1>9. v \in Seq(X) /\ \E from : AreMade(from, v, P, g)
  BY <1>5, <1>6, <1>7, <1>8, MadeGroups
<1>10. w \in Seq(X) /\ \E from : AreMade(from, w, Q, g)
  BY <1>5, <1>6, <1>7, <1>8, MadeGroups
<1>11. PICK a : AreMade(a, v, P, g)
  BY <1>9
<1>12. PICK b : AreMade(b, w, Q, g)
  BY <1>10
<1>13. PICK u : u = v \o w
  OBVIOUS
<1>14. u \in Seq(X) /\ \E c : AreMade(c, u, P \cup Q, g)
  BY <1>5, <1>9, <1>10, <1>11, <1>12, <1>13, MadeTogether
<1>15. PICK c : AreMade(c, u, P \cup Q, g)
  BY <1>14
<1>16. \E to : AreMade(to, SortByUniqueID(u), P \cup Q, g)
  BY <1>14, <1>15, SortedFrom
<1> QED
  BY <1>3, <1>5, <1>7, <1>8, <1>13, <1>16

LEMMA ReturnStays ==
  ASSUME IInv, Return
  PROVE  IInv'
<1>1. /\ pc = "standalone" /\ services = {} /\ pc' = "idle"
      /\ UNCHANGED <<tree, services, children, hubGroup, hubGroups, standaloneDevices,
                     disturbed, failed>>
  BY DEF Return
<1>2. hubGroup = <<>> /\ children = {} /\ Scanning
  BY <1>1 DEF IInv, VisitInv, Scanning
<1>3. TreeInv' /\ DisturbedInv' /\ VisitInv' /\ HubsInv'
  BY <1>1, <1>2, TreeStays, DisturbedFrame DEF IInv, VisitInv, HubsInv
<1>4. ServicesInv'
  BY <1>1, <1>2 DEF ServicesInv, DistinctPaths
<1>5. GroupsInv' /\ StandaloneInv'
  BY <1>1, <1>2, GroupsFrame, StandaloneFrame DEF IInv
<1>6. HubsCovered'
  <2>1. \A p : SteadyMembers(p)' = SteadyMembers(p)
    BY <1>1, Frame
  <2> QED
    BY <1>1, <1>2, <2>1 DEF IInv, HubsCovered, Scanning
<1>7. StandaloneCovered'
  BY <1>1 DEF IInv, StandaloneCovered, Has
<1>8. ResultInv'
  <2>1. \E from : AreMade(from, result', Groups, MadeOfGroup)
    BY ResultIsMade DEF IInv
  <2>2. Groups' = Groups
    BY <1>1 DEF Groups
  <2>3. MadeOfGroup' = MadeOfGroup
    BY <2>2 DEF MadeOfGroup
  <2>4. PICK from, r : r = result' /\ AreMade(from, r, Groups, MadeOfGroup)
    BY <2>1
  <2>5. AreMade(from, r, Groups', MadeOfGroup')
    BY <2>2, <2>3, <2>4
  <2>6. AreMade(from, r, Groups, MadeOfGroup)'
    BY <2>5 DEF AreMade
  <2>7. AreMade(from, result, Groups, MadeOfGroup)'
    BY <2>4, <2>6
  <2> QED
    BY <1>1, <2>7 DEF IInv, ResultInv
<1> QED
  BY <1>3, <1>4, <1>5, <1>6, <1>7, <1>8 DEF IInv

-----------------------------------------------------------------------------
(* The inductive invariant. *)

LEMMA InitHolds == Init => IInv
<1> SUFFICES ASSUME Init PROVE IInv
  OBVIOUS
<1>1. Fresh
  BY DEF Init, Fresh
<1>2. /\ DOMAIN tree = {<<bus>> : bus \in Buses}
      /\ \A p \in DOMAIN tree : tree[p] = Controller /\ Len(p) = 1
  BY DEF Init
<1>3. DOMAIN tree \subseteq Places
  BY <1>2 DEF Places
<1>4. Closed
  <2> SUFFICES ASSUME NEW q \in DOMAIN tree, NEW a \in PathSeq, Len(a) > 0, IsPrefix(a, q)
               PROVE  a = q
    BY DEF Closed
  <2>1. q \in PathSeq /\ Len(q) = 1
    BY <1>2, <1>3, PlacesAre
  <2>2. Len(a) \in Nat /\ Len(a) <= Len(q) /\ \A i \in 1..Len(a) : a[i] = q[i]
    BY <2>1, PrefixElements DEF PathSeq
  <2>3. Len(a) = Len(q)
    BY <2>1, <2>2
  <2> QED
    BY <2>1, <2>2, <2>3, SameSequence DEF PathSeq
<1>5. ~Controller.tty /\ ~Controller.disk
  BY DEF Controller
<1>6. TreeInv
  BY <1>2, <1>3, <1>4, <1>5 DEF TreeInv
<1> QED
  BY <1>1, <1>6, FreshIsFine

LEMMA Unchanged == IInv /\ UNCHANGED vars => IInv'
<1> SUFFICES ASSUME IInv, UNCHANGED vars PROVE IInv'
  OBVIOUS
<1>1. UNCHANGED <<tree, pc, services, children, hubGroup, hubGroups, standaloneDevices, result,
                  disturbed, failed>>
  BY DEF vars
<1>2. HubAt' = HubAt /\ Scanning' = Scanning /\ \A p : SteadyMembers(p)' = SteadyMembers(p)
  BY <1>1, Frame DEF HubAt, Scanning
<1>3. TreeInv' /\ DisturbedInv' /\ HubsInv' /\ HubsCovered'
  BY <1>1, <1>2, TreeStays, DisturbedFrame DEF IInv, HubsInv, HubsCovered
<1>4. ServicesInv'
  BY <1>1, ServicesFewer DEF IInv, ServicesInv
<1>5. VisitInv'
  <2>1. PICK g : g = hubGroup
    OBVIOUS
  <2>2. IsHubGroup(g)' <=> IsHubGroup(g)
    BY <1>1, Frame
  <2> QED
    BY <1>1, <1>2, <2>1, <2>2 DEF IInv, VisitInv, Has
<1>6. GroupsInv'
  <2>1. hubGroup' # <<>> => \A i \in DOMAIN hubGroups : hubGroup'[1].place # hubGroups[i][1].place
    BY <1>1 DEF IInv, GroupsInv, HubAt
  <2> QED
    BY <1>1, <2>1, GroupsFrame DEF IInv
<1>7. StandaloneInv' /\ StandaloneCovered'
  BY <1>1, StandaloneFrame DEF IInv, StandaloneCovered, Has
<1>8. ResultInv'
  BY <1>1 DEF IInv, ResultInv, Groups, MadeOfGroup, AreMade
<1> QED
  BY <1>3, <1>4, <1>5, <1>6, <1>7, <1>8 DEF IInv

LEMMA StepHolds == IInv /\ [Next]_vars => IInv'
<1> SUFFICES ASSUME IInv, [Next]_vars PROVE IInv'
  OBVIOUS
<1>1. CASE (\E slot \in Slots : Plug(slot)) \/ (\E path \in DOMAIN tree : Unplug(path))
  BY <1>1, HotPlugStays
<1>2. CASE FindHubBased \/ VisitHub \/ VisitChild \/ EndHub
  BY <1>2, FindHubBasedStays, VisitHubStays, VisitChildStays, EndHubStays
<1>3. CASE FindStandalone \/ VisitStandalone \/ Return
  BY <1>3, FindStandaloneStays, VisitStandaloneStays, ReturnStays
<1>4. CASE UNCHANGED vars
  BY <1>4, Unchanged
<1> QED
  BY <1>1, <1>2, <1>3, <1>4 DEF Next

LEMMA Invariance == Spec => []IInv
BY InitHolds, StepHolds, PTL DEF Spec
-----------------------------------------------------------------------------
(* What the invariant says of the properties. *)

LEMMA ParentIsThere ==
  ASSUME TreeInv, NEW p \in DOMAIN tree, Len(p) # 1
  PROVE  Front(p) \in DOMAIN tree
<1>1. p \in PathSeq /\ Len(p) \in Nat /\ Len(p) > 0
  BY PlacesAre DEF TreeInv
<1>2. PICK f, n : f = Front(p) /\ n = Len(p)
  OBVIOUS
<1>3. f \in PathSeq /\ Len(f) = n - 1 /\ IsPrefix(f, p)
  BY <1>1, <1>2, FrontDiffers
<1>4. n - 1 > 0
  BY <1>1, <1>2
<1>5. Len(f) > 0
  BY <1>3, <1>4
<1> QED
  BY <1>2, <1>3, <1>5 DEF TreeInv, Closed

LEMMA ResultTypes ==
  ASSUME ResultInv, result # NoResult
  PROVE  \A i \in DOMAIN result : result[i].deviceType \in DeviceType
<1>1. PICK from : AreMade(from, result, Groups, MadeOfGroup)
  BY DEF ResultInv
<1> SUFFICES ASSUME NEW i \in DOMAIN result PROVE result[i].deviceType \in DeviceType
  OBVIOUS
<1>2. PICK group : group = from[i]
  OBVIOUS
<1>3. group \in Groups /\ result[i] = MadeOfGroup[group] /\ result[i] # BuildError
  BY <1>1, <1>2 DEF AreMade
<1>4. result[i] = fromUSBDevices(group)
  BY <1>3 DEF MadeOfGroup
<1> QED
  BY <1>3, <1>4, MadeType

LEMMA TypesFollow == IInv => TypeOK
<1> SUFFICES ASSUME IInv PROVE TypeOK
  OBVIOUS
<1>1. \A p \in DOMAIN tree : Len(p) = 1 \/ Front(p) \in DOMAIN tree
  BY ParentIsThere DEF IInv
<1>2. services \subseteq Service /\ children \subseteq Service
  BY DEF IInv, ServicesInv, IsService
<1>3. hubGroup # <<>> => is_freewili_hub(hubGroup[1].prod)
  BY DEF IInv, VisitInv, IsHubGroup
<1>4. \A i \in DOMAIN hubGroups : Len(hubGroups[i]) > 1 /\ hubGroups[i][1].kind = "Hub"
  BY DEF IInv, GroupsInv, IsHubGroup
<1>5. ASSUME NEW key \in DOMAIN standaloneDevices
      PROVE  standaloneDevices[key] # <<>>
  <2>1. PICK list : list = standaloneDevices[key]
    OBVIOUS
  <2>2. Len(list) > 0
    BY <2>1 DEF IInv, StandaloneInv, IsStandaloneGroup
  <2>3. list # <<>>
    BY <2>2, EmptyList
  <2> QED
    BY <2>1, <2>3
<1>6. result = NoResult \/ \A i \in DOMAIN result : result[i].deviceType \in DeviceType
  BY ResultTypes DEF IInv
<1> QED
  BY <1>1, <1>2, <1>3, <1>4, <1>5, <1>6
  DEF IInv, TypeOK, TreeInv, HubsInv, DisturbedInv, ResultInv

(* Between the visits and the hot-plug events the scanner's state keeps its  *)
(* shape: every device hangs on one that is attached, a group it pushed is a *)
(* hub with something on it, and whatever it reports has a known type.       *)
THEOREM MacTypes == Spec => []TypeOK
BY Invariance, TypesFollow, PTL
-----------------------------------------------------------------------------
(* IDs tell reports apart. *)

\* No device is deeper than the ID's six bits a port reach.
ShallowPlaces == \A slot \in Slots : Len(slot.path) <= 6

LEMMA PortsOfPlace ==
  ASSUME ShallowPlaces, NEW p \in Places, Len(p) > 1
  PROVE  Tail(p) \in Seq(1..63) /\ Len(Tail(p)) <= ExactDepth
<1>1. PICK slot \in Slots : p = slot.path
  <2>1. ASSUME NEW bus \in Buses, p = <<bus>> PROVE FALSE
    <3>1. Len(p) = 1
      BY <2>1
    <3> QED
      BY <3>1
  <2>2. (\E bus \in Buses : p = <<bus>>) \/ (\E slot \in Slots : p = slot.path)
    BY DEF Places
  <2> QED
    BY <2>1, <2>2
<1>2. PICK n : n = Len(p)
  OBVIOUS
<1>3. n \in 2..7 /\ p \in Seq(Bus) /\ \A i \in 2..n : p[i] \in Port
  BY <1>1, <1>2, SlotsAssumption DEF SlotsAssumption
<1>4. n <= 6 /\ n \in Nat /\ n > 1
  BY <1>1, <1>2, <1>3 DEF ShallowPlaces
<1>5. PICK t : t = Tail(p)
  OBVIOUS
<1>6. t \in Seq(Bus) /\ Len(t) = n - 1 /\ \A i \in 1..(n - 1) : t[i] = p[i + 1]
  BY <1>2, <1>3, <1>4, <1>5
<1>7. ASSUME NEW i \in 1..(n - 1)
      PROVE  t[i] \in 1..63
  <2>1. i + 1 \in 2..n
    BY <1>4
  <2>2. p[i + 1] \in 1..15
    BY <1>3, <2>1 DEF Port
  <2>3. t[i] \in 1..15
    BY <1>6, <2>2
  <2> QED
    BY <2>3
<1>8. t \in Seq(1..63)
  <2>1. PICK m \in Nat : m = n - 1
    BY <1>4
  <2>2. DOMAIN t = 1..m /\ \A i \in 1..m : t[i] \in 1..63
    BY <1>6, <1>7, <2>1
  <2>3. t \in [1..m -> 1..63]
    <3>1. t = [i \in 1..m |-> t[i]]
      BY <1>6, <2>2
    <3> QED
      BY <2>2, <3>1
  <2> QED
    BY <2>3
<1>9. Len(t) <= 5
  BY <1>4, <1>6
<1> QED
  BY <1>5, <1>8, <1>9 DEF ExactDepth

\* The place a report is named by: the hub's, or that of a standalone device in it.
NamedBy(group, p) ==
  \/ group \in ToSet(hubGroups) /\ p = group[1].place
  \/ \E key \in DOMAIN standaloneDevices :
       group = standaloneDevices[key] /\ Has(group, p)

LEMMA HubGroupIs ==
  ASSUME GroupsInv, NEW group \in ToSet(hubGroups)
  PROVE  /\ IsHubGroup(group) /\ Len(group) > 1 /\ HasMembers(group)
         /\ \A k \in DOMAIN group : ~isStandAloneDevice(group[k].prod)
<1>1. PICK i \in DOMAIN hubGroups : group = hubGroups[i]
  BY DEF ToSet
<1>2. IsHubGroup(group) /\ Len(group) > 1 /\ HasMembers(group)
  BY <1>1 DEF GroupsInv
<1>3. ASSUME NEW k \in DOMAIN group
      PROVE  ~isStandAloneDevice(group[k].prod)
  <2>1. k \in Nat /\ (k = 1 \/ k > 1)
    BY <1>2 DEF IsHubGroup
  <2>2. CASE k = 1
    BY <1>2, <2>2 DEF IsHubGroup, is_freewili_hub, isStandAloneDevice, HubProduct,
                      StandaloneProduct
  <2>3. CASE k > 1
    BY <1>2, <2>3 DEF IsHubGroup, IsChildOf, IsMember
  <2> QED
    BY <2>1, <2>2, <2>3
<1> QED
  BY <1>2, <1>3

LEMMA GroupIs ==
  ASSUME GroupsInv, StandaloneInv, NEW group \in Groups
  PROVE  /\ group \in Seq(ToSet(group)) /\ Len(group) > 0
         /\ \A k \in DOMAIN group : IsRead(group[k])
         /\ \/ group \in ToSet(hubGroups)
            \/ \E key \in DOMAIN standaloneDevices :
                 group = standaloneDevices[key] /\ IsStandaloneGroup(group, key)
<1>1. CASE group \in ToSet(hubGroups)
  BY <1>1, HubGroupIs DEF IsHubGroup
<1>2. ASSUME NEW key \in DOMAIN standaloneDevices, group = standaloneDevices[key]
      PROVE  IsStandaloneGroup(group, key)
  BY <1>2 DEF StandaloneInv
<1>3. CASE \E key \in DOMAIN standaloneDevices : group = standaloneDevices[key]
  BY <1>2, <1>3 DEF IsStandaloneGroup
<1> QED
  BY <1>1, <1>3 DEF Groups

\* Two groups are named by one place only if its device changed.
LEMMA NamedApart ==
  ASSUME GroupsInv, StandaloneInv, NEW group, NEW other, NEW p,
         NamedBy(group, p), NamedBy(other, p), p \notin disturbed
  PROVE  group = other
<1>1. ASSUME NEW g, g \in ToSet(hubGroups), g[1].place = p
      PROVE  is_freewili_hub(tree[p].prod)
  <2>1. IsHubGroup(g) /\ 1 \in DOMAIN g
    BY <1>1, HubGroupIs DEF IsHubGroup
  <2>2. IsRead(g[1]) /\ is_freewili_hub(g[1].prod)
    BY <2>1 DEF IsHubGroup
  <2> QED
    BY <1>1, <2>2 DEF IsRead, IsTrue
<1>2. ASSUME NEW key \in DOMAIN standaloneDevices, NEW g, g = standaloneDevices[key], Has(g, p)
      PROVE  isStandAloneDevice(tree[p].prod)
  <2>1. PICK k \in DOMAIN g : g[k].place = p
    BY <1>2 DEF Has
  <2>2. IsRead(g[k]) /\ isStandAloneDevice(g[k].prod)
    BY <1>2 DEF StandaloneInv, IsStandaloneGroup
  <2> QED
    BY <2>1, <2>2 DEF IsRead, IsTrue
<1>3. ~(is_freewili_hub(tree[p].prod) /\ isStandAloneDevice(tree[p].prod))
  BY DEF is_freewili_hub, isStandAloneDevice, HubProduct, StandaloneProduct
<1>4. CASE group \in ToSet(hubGroups) /\ p = group[1].place
  <2>1. other \in ToSet(hubGroups) /\ p = other[1].place
    BY <1>1, <1>2, <1>3, <1>4 DEF NamedBy
  <2>2. PICK i \in DOMAIN hubGroups, j \in DOMAIN hubGroups :
          group = hubGroups[i] /\ other = hubGroups[j]
    BY <1>4, <2>1 DEF ToSet
  <2>3. i = j
    BY <1>4, <2>1, <2>2 DEF GroupsInv
  <2> QED
    BY <2>2, <2>3
<1>5. CASE \E key \in DOMAIN standaloneDevices : group = standaloneDevices[key] /\ Has(group, p)
  <2>1. PICK a \in DOMAIN standaloneDevices : group = standaloneDevices[a] /\ Has(group, p)
    BY <1>5
  <2>2. isStandAloneDevice(tree[p].prod)
    BY <1>2, <2>1
  <2>3. PICK b \in DOMAIN standaloneDevices : other = standaloneDevices[b] /\ Has(other, p)
    BY <1>1, <1>3, <2>2 DEF NamedBy
  <2>4. PICK k \in DOMAIN group, l \in DOMAIN other : group[k].place = p /\ other[l].place = p
    BY <2>1, <2>3 DEF Has
  <2>5. a = b
    BY <2>1, <2>3, <2>4 DEF StandaloneInv
  <2> QED
    BY <2>1, <2>3, <2>5
<1> QED
  BY <1>4, <1>5 DEF NamedBy

\* The ID of a report is that of the place, or the device there did not tell its own.
IDTells(id, p) == id = UniqueID(Tail(p)) \/ (p \in disturbed /\ id = UniqueID(NoChain))

LEMMA IDOfGroup ==
  ASSUME GroupsInv, StandaloneInv, NEW group \in Groups, fromUSBDevices(group) # BuildError
  PROVE  \E p : /\ NamedBy(group, p) /\ IDTells(fromUSBDevices(group).uniqueID, p)
                /\ p \in Places /\ Len(p) > 1 /\ (p \in disturbed \/ p \in DOMAIN tree)
<1>1. PICK d : d = fromUSBDevices(group)
  OBVIOUS
<1>2. group \in Seq(ToSet(group)) /\ Len(group) > 0 /\ \A k \in DOMAIN group : IsRead(group[k])
  BY GroupIs
<1>3. IsMadeOf(d, group)
  BY <1>1, <1>2, MadeOf
<1>4. \A k \in DOMAIN group :
        LET p == group[k].place
        IN  /\ p \in Places /\ Len(p) > 1 /\ (p \in disturbed \/ p \in DOMAIN tree)
            /\ IDTells(UniqueID(group[k].portChain), p)
  BY <1>2 DEF IsRead, IDTells
<1>5. CASE group \in ToSet(hubGroups)
  <2>1. IsHubGroup(group) /\ \A k \in DOMAIN group : ~isStandAloneDevice(group[k].prod)
    BY <1>5, HubGroupIs
  <2>2. d.uniqueID = HubID(group)
    BY <1>3, <2>1 DEF IsMadeOf
  <2>3. FirstOfKind(group, "Hub") = 1
    BY <1>2, <2>1, FirstOfKindFirst DEF IsHubGroup
  <2>4. d.uniqueID = UniqueID(group[1].portChain)
    BY <2>2, <2>3 DEF HubID
  <2>5. 1 \in DOMAIN group
    BY <1>2
  <2>6. NamedBy(group, group[1].place)
    BY <1>5 DEF NamedBy
  <2> QED
    BY <1>1, <1>4, <2>4, <2>5, <2>6
<1>6. ASSUME NEW key \in DOMAIN standaloneDevices, group = standaloneDevices[key],
             IsStandaloneGroup(group, key)
      PROVE  \E p : /\ NamedBy(group, p) /\ IDTells(d.uniqueID, p)
                    /\ p \in Places /\ Len(p) > 1 /\ (p \in disturbed \/ p \in DOMAIN tree)
  <2>1. 1 \in DOMAIN group
    BY <1>2
  <2>2. isStandAloneDevice(group[1].prod)
    BY <1>6, <2>1 DEF IsStandaloneGroup
  <2>3. PICK k \in DOMAIN group : d.uniqueID = UniqueID(group[k].portChain)
    BY <1>3, <2>1, <2>2 DEF IsMadeOf
  <2>4. NamedBy(group, group[k].place)
    BY <1>6 DEF NamedBy, Has
  <2> QED
    BY <1>4, <2>3, <2>4
<1> QED
  BY <1>1, <1>5, <1>6, GroupIs

LEMMA IDsFollow ==
  ASSUME ShallowPlaces
  PROVE  IInv => SameIDOnlyAcrossBuses
<1> SUFFICES ASSUME IInv, Returned,
                    NEW i \in DOMAIN result, NEW j \in DOMAIN result,
                    i # j, result[i].uniqueID = result[j].uniqueID
             PROVE  \/ \E p \in disturbed :
                         result[i].uniqueID \in {UniqueID(Tail(p)), UniqueID(NoChain)}
                    \/ \E p, q \in DOMAIN tree :
                         p # q /\ Tail(p) = Tail(q) /\ UniqueID(Tail(p)) = result[i].uniqueID
  BY DEF SameIDOnlyAcrossBuses
<1>1. PICK from : AreMade(from, result, Groups, MadeOfGroup)
  BY DEF IInv, ResultInv, Returned
<1>2. PICK g, h : g = from[i] /\ h = from[j]
  OBVIOUS
<1>3. g \in Groups /\ h \in Groups /\ g # h
  BY <1>1, <1>2 DEF AreMade
<1>4. /\ result[i] = fromUSBDevices(g) /\ fromUSBDevices(g) # BuildError
      /\ result[j] = fromUSBDevices(h) /\ fromUSBDevices(h) # BuildError
  <2>1. MadeOfGroup[g] = fromUSBDevices(g) /\ MadeOfGroup[h] = fromUSBDevices(h)
    BY <1>3 DEF MadeOfGroup
  <2> QED
    BY <1>1, <1>2, <2>1 DEF AreMade
<1>5. GroupsInv /\ StandaloneInv
  BY DEF IInv
<1>6. PICK p : /\ NamedBy(g, p) /\ IDTells(result[i].uniqueID, p)
               /\ p \in Places /\ Len(p) > 1 /\ (p \in disturbed \/ p \in DOMAIN tree)
  BY <1>3, <1>4, <1>5, IDOfGroup
<1>7. PICK q : /\ NamedBy(h, q) /\ IDTells(result[j].uniqueID, q)
               /\ q \in Places /\ Len(q) > 1 /\ (q \in disturbed \/ q \in DOMAIN tree)
  BY <1>3, <1>4, <1>5, IDOfGroup
<1>8. CASE p \in disturbed \/ q \in disturbed
  BY <1>6, <1>7, <1>8 DEF IDTells
<1>9. CASE p \notin disturbed /\ q \notin disturbed
  <2>a. result[i].uniqueID = UniqueID(Tail(p)) /\ result[j].uniqueID = UniqueID(Tail(q))
    BY <1>6, <1>7, <1>9 DEF IDTells
  <2>1. PICK s, t : s = Tail(p) /\ t = Tail(q)
    OBVIOUS
  <2>2. s \in Seq(1..63) /\ t \in Seq(1..63) /\ Len(s) <= ExactDepth /\ Len(t) <= ExactDepth
    BY <1>6, <1>7, <2>1, PortsOfPlace
  <2>3. UniqueID(s) = UniqueID(t)
    BY <2>a, <2>1
  <2>4. s = t
    BY <2>2, <2>3, DistinctWords
  <2>5. p # q
    BY <1>3, <1>5, <1>6, <1>7, <1>9, NamedApart
  <2> QED
    BY <1>6, <1>7, <1>9, <2>a, <2>1, <2>4, <2>5
<1> QED
  BY <1>8, <1>9

(* Where no device is deeper than five ports, the unit's own place is what   *)
(* its ID says, and no two reports are of one place: two entries share an ID *)
(* only at the same ports of two buses, which the ID leaves out              *)
(* (fwfinder_mac.cpp:96), or after a change during the scan at that place or *)
(* of a device whose place could no longer be read (fwfinder_mac.cpp:116).   *)
THEOREM IDsTellPorts ==
  ASSUME ShallowPlaces
  PROVE  Spec => []SameIDOnlyAcrossBuses
<1>1. IInv => SameIDOnlyAcrossBuses
  BY IDsFollow
<1> QED
  BY <1>1, Invariance, PTL
-----------------------------------------------------------------------------
(* A badge has its own entry. *)

LEMMA ReportElements ==
  ASSUME GroupsInv, StandaloneInv, NEW group \in Groups, fromUSBDevices(group) # BuildError
  PROVE  LET d == fromUSBDevices(group)
         IN  ToSet(d.usbDevices) = ToSet(group) /\ Len(d.usbDevices) = Len(group)
<1>1. group \in Seq(ToSet(group))
  BY GroupIs
<1>2. PICK d : d = fromUSBDevices(group)
  OBVIOUS
<1>3. IsMadeOf(d, group)
  BY <1>1, <1>2, MadeOf
<1>4. d.usbDevices = group \/ d.usbDevices = SortUSBDevices(group)
  BY <1>3 DEF IsMadeOf
<1>5. PICK sorted : sorted = SortUSBDevices(group)
  OBVIOUS
<1>6. PICK S : S = ToSet(group)
  OBVIOUS
<1>7. IsReordering(sorted, group, Len(group)) /\ sorted \in Seq(S) /\ group \in Seq(S)
  BY <1>1, <1>5, <1>6, DeviceSortReorders
<1>8. ToSet(sorted) = ToSet(group) /\ Len(sorted) = Len(group)
  BY <1>7, SameElements
<1> QED
  BY <1>2, <1>4, <1>5, <1>8

\* Each report is of a group, each group that can be made has one report.
IsReportOf(i, group) ==
  /\ group \in Groups /\ result[i] = fromUSBDevices(group)
  /\ fromUSBDevices(group) # BuildError

LEMMA ReportsAndGroups ==
  ASSUME ResultInv, result # NoResult
  PROVE  /\ \A i \in DOMAIN result : \E group : IsReportOf(i, group)
         /\ \A group \in Groups : fromUSBDevices(group) # BuildError =>
              \E i \in DOMAIN result :
                /\ IsReportOf(i, group)
                /\ \A P : (P \subseteq DOMAIN result /\ i \in P
                             /\ \A j \in P : \A g : IsReportOf(j, g) => g = group)
                            => P = {i}
<1>1. PICK from : AreMade(from, result, Groups, MadeOfGroup)
  BY DEF ResultInv
<1>2. \A g \in Groups : MadeOfGroup[g] = fromUSBDevices(g)
  BY DEF MadeOfGroup
<1>3. ASSUME NEW i \in DOMAIN result
      PROVE  IsReportOf(i, from[i])
  <2>1. PICK g : g = from[i]
    OBVIOUS
  <2>2. g \in Groups /\ result[i] = MadeOfGroup[g] /\ MadeOfGroup[g] # BuildError
    BY <1>1, <2>1 DEF AreMade
  <2> QED
    BY <1>2, <2>1, <2>2 DEF IsReportOf
<1>4. ASSUME NEW group \in Groups, fromUSBDevices(group) # BuildError
      PROVE  \E i \in DOMAIN result :
                /\ IsReportOf(i, group)
                /\ \A P : (P \subseteq DOMAIN result /\ i \in P
                             /\ \A j \in P : \A g : IsReportOf(j, g) => g = group)
                            => P = {i}
  <2>1. PICK i \in DOMAIN result : from[i] = group
    BY <1>1, <1>2, <1>4 DEF AreMade
  <2>2. ASSUME NEW P, P \subseteq DOMAIN result, i \in P,
               \A j \in P : \A g : IsReportOf(j, g) => g = group
        PROVE  P = {i}
    <3>1. ASSUME NEW j \in P PROVE j = i
      <4>1. from[j] = group
        BY <1>3, <2>2
      <4> QED
        BY <1>1, <2>1, <2>2, <4>1 DEF AreMade
    <3> QED
      BY <2>2, <3>1
  <2> QED
    BY <1>3, <2>1, <2>2
<1> QED
  BY <1>3, <1>4

\* What makes a badge's own entry.
IsBadgeGroup(group, path) ==
  /\ \E key \in DOMAIN standaloneDevices :
       group = standaloneDevices[key] /\ IsStandaloneGroup(group, key)
  /\ \E k \in DOMAIN group : group[k].place = path /\ Said(group[k]) = Due(path)
  /\ \A k \in DOMAIN group : /\ group[k].prod = tree[path].prod
                             /\ group[k].serial = tree[path].serial
                             /\ group[k].container = tree[path].container

LEMMA BadgeGroup ==
  ASSUME IInv, Returned, NEW path, KnownStandalone(path), path \notin disturbed
  PROVE  \E group \in Groups : IsBadgeGroup(group, path)
<1>1. /\ path \in DOMAIN tree /\ isStandAloneDevice(tree[path].prod)
      /\ tree[path].published /\ tree[path].serial # "" /\ "standalone" \notin failed
      /\ pc = "idle" /\ result # NoResult
  BY DEF KnownStandalone, Returned
<1>2. PICK key \in DOMAIN standaloneDevices : Has(standaloneDevices[key], path)
  BY <1>1 DEF IInv, StandaloneCovered
<1>3. PICK group : group = standaloneDevices[key]
  OBVIOUS
<1>4. IsStandaloneGroup(group, key)
  BY <1>3 DEF IInv, StandaloneInv
<1>5. PICK k \in DOMAIN group : group[k].place = path
  BY <1>2, <1>3 DEF Has
<1>6. IsTrue(group[k])
  BY <1>4, <1>5 DEF IsStandaloneGroup, IsRead
<1>7. ~IsHub(group[k].prod)
  BY <1>4 DEF IsStandaloneGroup, isStandAloneDevice, StandaloneProduct, IsHub, HubProduct
<1>8. Said(group[k]) = Due(path) /\ group[k].prod = tree[path].prod
      /\ group[k].serial = tree[path].serial /\ group[k].container = tree[path].container
  BY <1>1, <1>5, <1>6, <1>7 DEF IsTrue
<1>9. key[1] = tree[path].container /\ key[2] = tree[path].serial /\ key[3] = tree[path].prod
  BY <1>4, <1>8 DEF IsStandaloneGroup
<1>10. group \in Groups
  BY <1>3 DEF Groups
<1>11. \A l \in DOMAIN group : /\ group[l].prod = tree[path].prod
                               /\ group[l].serial = tree[path].serial
                               /\ group[l].container = tree[path].container
  BY <1>4, <1>9 DEF IsStandaloneGroup
<1> QED
  BY <1>3, <1>4, <1>5, <1>8, <1>10, <1>11 DEF IsBadgeGroup

LEMMA BadgeGroupIsMade ==
  ASSUME NEW path, KnownStandalone(path), NEW group, IsBadgeGroup(group, path)
  PROVE  fromUSBDevices(group) # BuildError /\ fromUSBDevices(group).standalone
<1>1. PICK prod, serial : prod = tree[path].prod /\ serial = tree[path].serial
  OBVIOUS
<1>2. isStandAloneDevice(prod) /\ serial # ""
  BY <1>1 DEF KnownStandalone
<1>3. /\ group \in Seq(ToSet(group)) /\ 1 \in DOMAIN group
      /\ \A k \in DOMAIN group : /\ group[k].prod = prod /\ group[k].serial = serial
                                 /\ group[k].name = "name"
  BY <1>1 DEF IsBadgeGroup, IsStandaloneGroup, IsRead
<1>4. PICK k \in DOMAIN group : fromUSBDevices(group) = FromStandalone(group, k)
  BY <1>2, <1>3, FirstStandaloneIs
<1>5. PICK type : type = standaloneDeviceType(group[k].prod) /\ type # "Unknown"
  BY <1>2, <1>3, TypeOfStandalone
<1>6. PICK d : d = DeviceRecord(type, group[k].name, group[k].serial,
                                UniqueID(group[k].portChain), TRUE, group)
  OBVIOUS
<1>7. group[k].name # "" /\ group[k].serial # ""
  BY <1>2, <1>3
<1>8. d # BuildError /\ Build(d) = d
  BY <1>5, <1>6, <1>7, DeviceIsNoError
<1>9. fromUSBDevices(group) = d
  BY <1>4, <1>5, <1>6, <1>8, StandaloneRecord
<1>10. d.standalone
  BY <1>6 DEF DeviceRecord
<1> QED
  BY <1>8, <1>9, <1>10

\* What says it is at the place was read there.
LEMMA SaidThere ==
  ASSUME NEW dev, NEW p, Said(dev) = Due(p)
  PROVE  dev.place = p /\ dev.prod = tree[p].prod
<1>1. PICK s, d : s = Said(dev) /\ d = Due(p)
  OBVIOUS
<1>2. s.place = dev.place /\ s.prod = dev.prod /\ d.place = p /\ d.prod = tree[p].prod
  BY <1>1 DEF Said, Due
<1> QED
  BY <1>1, <1>2

LEMMA BadgesFollow == IInv => BadgeHasItsOwnEntry
<1> SUFFICES ASSUME IInv, Returned, NEW path \in DOMAIN tree,
                    Undisturbed(path), KnownStandalone(path),
                    NEW reports,
                    reports = {i \in DOMAIN result : Due(path) \in SaidBy(result[i])}
             PROVE  /\ Cardinality(reports) = 1
                    /\ \A i \in reports :
                         /\ result[i].standalone
                         /\ \A dev \in ToSet(result[i].usbDevices) :
                              /\ dev.prod = tree[path].prod /\ dev.serial = tree[path].serial
                              /\ dev.container = tree[path].container
  BY DEF BadgeHasItsOwnEntry
<1>1. path \notin disturbed
  <2>1. path \in PathSeq
    BY PlacesAre DEF IInv, TreeInv
  <2>2. IsPrefix(path, path)
    BY <2>1, PrefixReflexive DEF PathSeq
  <2> QED
    BY <2>2 DEF Undisturbed
<1>2. PICK group \in Groups : IsBadgeGroup(group, path)
  BY <1>1, BadgeGroup
<1>3. fromUSBDevices(group) # BuildError /\ fromUSBDevices(group).standalone
  BY <1>2, BadgeGroupIsMade
<1>4. PICK i \in DOMAIN result :
        /\ IsReportOf(i, group)
        /\ \A P : (P \subseteq DOMAIN result /\ i \in P
                     /\ \A j \in P : \A g : IsReportOf(j, g) => g = group)
                    => P = {i}
  BY <1>2, <1>3, ReportsAndGroups DEF IInv, Returned
<1>5. GroupsInv /\ StandaloneInv
  BY DEF IInv
<1>6. \A j \in DOMAIN result : \A g : IsReportOf(j, g) =>
        ToSet(result[j].usbDevices) = ToSet(g)
  BY <1>5, ReportElements DEF IsReportOf
<1>7. i \in reports
  <2>1. PICK k \in DOMAIN group : Said(group[k]) = Due(path)
    BY <1>2 DEF IsBadgeGroup
  <2>2. group[k] \in ToSet(result[i].usbDevices)
    BY <1>4, <1>6 DEF ToSet
  <2>3. Due(path) \in SaidBy(result[i])
    BY <2>1, <2>2 DEF SaidBy
  <2> QED
    BY <2>3
<1>8. ASSUME NEW j \in reports, NEW g, IsReportOf(j, g)
      PROVE  g = group
  <2>1. PICK e \in ToSet(result[j].usbDevices) : Said(e) = Due(path)
    <3>1. Due(path) \in SaidBy(result[j])
      OBVIOUS
    <3> QED
      BY <3>1 DEF SaidBy
  <2>2. e \in ToSet(g) /\ e.place = path /\ e.prod = tree[path].prod
    BY <1>6, <1>8, <2>1, SaidThere
  <2>3. PICK l \in DOMAIN g : e = g[l]
    BY <2>2 DEF ToSet
  <2>4. isStandAloneDevice(g[l].prod)
    BY <2>2, <2>3 DEF KnownStandalone
  <2>5. g \in Groups /\ g \notin ToSet(hubGroups)
    BY <1>5, <1>8, <2>4, HubGroupIs DEF IsReportOf
  <2>6. NamedBy(g, path)
    BY <2>2, <2>3, <2>5 DEF Groups, NamedBy, Has
  <2>7. NamedBy(group, path)
    BY <1>2 DEF IsBadgeGroup, NamedBy, Has
  <2> QED
    BY <1>1, <1>5, <2>6, <2>7, NamedApart
<1>9. reports = {i}
  BY <1>4, <1>7, <1>8
<1>10. Cardinality(reports) = 1
  BY <1>9, FS_Singleton
<1>11. result[i].standalone
  BY <1>3, <1>4 DEF IsReportOf
<1>12. ASSUME NEW dev \in ToSet(result[i].usbDevices)
       PROVE  /\ dev.prod = tree[path].prod /\ dev.serial = tree[path].serial
              /\ dev.container = tree[path].container
  <2>1. PICK k \in DOMAIN group : dev = group[k]
    BY <1>4, <1>6 DEF ToSet
  <2> QED
    BY <1>2, <2>1 DEF IsBadgeGroup
<1> QED
  BY <1>9, <1>10, <1>11, <1>12

(* A badge or bootloader that stays put while other devices come and go is   *)
(* in exactly one report, and whatever shares it has its serial, product and *)
(* container, by which the second pass groups (fwfinder_mac.cpp:686-687).    *)
THEOREM BadgesApart == Spec => []BadgeHasItsOwnEntry
BY Invariance, BadgesFollow, PTL
-----------------------------------------------------------------------------
(* A FreeWili is reported whole. *)

\* The group of a FreeWili that stayed put: its hub and each device on it, read true.
IsWholeGroup(group, path) ==
  /\ group \in ToSet(hubGroups) /\ group[1].place = path
  /\ group \in Seq(ToSet(group)) /\ Len(group) > 1
  /\ is_freewili_hub(group[1].prod) /\ group[1].kind = "Hub"
  /\ \A k \in DOMAIN group :
       /\ Said(group[k]) = Due(group[k].place)
       /\ tree[group[k].place].published => group[k].serial = tree[group[k].place].serial
       /\ ~isStandAloneDevice(group[k].prod)
       /\ k > 1 => /\ group[k].place \in Members(path) /\ ~is_freewili_hub(group[k].prod)
                   /\ group[k].kind = getUSBDeviceTypeFrom(tree[group[k].place].prod,
                                                           LocationID(group[k].place))
  /\ \A k, l \in DOMAIN group : group[k].place = group[l].place => k = l
  /\ \A p \in Members(path) : \E k \in DOMAIN group : k > 1 /\ group[k].place = p

LEMMA MemberPlace ==
  ASSUME TreeInv, NEW path \in DOMAIN tree, NEW p \in Members(path)
  PROVE  /\ p \in DOMAIN tree /\ IsPrefix(path, p) /\ Front(p) = path /\ p # path
         /\ IsMember(tree[p].prod)
<1>1. path \in Places /\ p \in Below(path) /\ IsMember(tree[p].prod)
  BY DEF TreeInv, Members
<1> QED
  BY <1>1, BelowIs

LEMMA WholeSteady ==
  ASSUME TreeInv, NEW path, Undisturbed(path), path \in DOMAIN tree
  PROVE  /\ path \notin disturbed
         /\ \A p : IsPrefix(path, p) => p \notin disturbed
         /\ SteadyMembers(path) = Members(path)
<1>1. path \in PathSeq
  BY PlacesAre DEF TreeInv
<1>2. IsPrefix(path, path)
  BY <1>1, PrefixReflexive DEF PathSeq
<1>3. \A p : IsPrefix(path, p) => p \notin disturbed
  BY DEF Undisturbed
<1>4. \A p \in Members(path) : p \notin disturbed
  BY <1>3, MemberPlace
<1> QED
  BY <1>2, <1>3, <1>4 DEF SteadyMembers

LEMMA WholeHasHubGroup ==
  ASSUME IInv, Returned, NEW path, Undisturbed(path), WholeFreeWili(path)
  PROVE  \E group \in ToSet(hubGroups) : group[1].place = path
<1>1. /\ path \in DOMAIN tree /\ is_freewili_hub(tree[path].prod)
      /\ Members(path) # {} /\ "hubs" \notin failed
  BY DEF WholeFreeWili
<1>2. pc = "idle" /\ result # NoResult /\ hubGroup = <<>>
  BY DEF Returned, IInv, HubsInv
<1>3. SteadyMembers(path) # {} /\ path \notin disturbed
  BY <1>1, WholeSteady DEF IInv
<1>4. PICK i \in DOMAIN hubGroups : hubGroups[i][1].place = path
  BY <1>1, <1>2, <1>3 DEF IInv, HubsCovered, Scanning
<1> QED
  BY <1>4 DEF ToSet

\* A device on such a hub is no hub, or another FreeWili would be inside.
LEMMA NoneInside ==
  ASSUME TreeInv, NEW path, WholeFreeWili(path), NEW p \in Members(path)
  PROVE  ~is_freewili_hub(tree[p].prod) /\ ~IsHub(tree[p].prod)
<1>1. path \in DOMAIN tree
  BY DEF WholeFreeWili
<1>2. p \in DOMAIN tree /\ IsPrefix(path, p) /\ p # path /\ IsMember(tree[p].prod)
  BY <1>1, MemberPlace
<1>3. {q \in DOMAIN tree : is_freewili_hub(tree[q].prod)
         /\ (IsPrefix(path, q) \/ IsPrefix(q, path))} = {path}
  BY DEF WholeFreeWili
<1>4. ~is_freewili_hub(tree[p].prod)
  BY <1>2, <1>3
<1>5. tree[p].prod # "ForeignHub"
  BY <1>2 DEF IsMember, is_vid_pid_whitelisted, WhitelistVIDPID, HubProduct, StandaloneProduct
<1> QED
  BY <1>4, <1>5 DEF IsHub, is_freewili_hub

LEMMA WholeGroup ==
  ASSUME IInv, Returned, NEW path, Undisturbed(path), WholeFreeWili(path)
  PROVE  \E group \in Groups : IsWholeGroup(group, path)
<1>1. PICK group \in ToSet(hubGroups) : group[1].place = path
  BY WholeHasHubGroup
<1>2. TreeInv /\ GroupsInv /\ path \in DOMAIN tree
  BY DEF IInv, WholeFreeWili
<1>3. /\ path \notin disturbed /\ \A p : IsPrefix(path, p) => p \notin disturbed
      /\ SteadyMembers(path) = Members(path)
  BY <1>2, WholeSteady
<1>4. /\ IsHubGroup(group) /\ Len(group) > 1 /\ HasMembers(group)
      /\ \A k \in DOMAIN group : ~isStandAloneDevice(group[k].prod)
  BY <1>2, HubGroupIs
<1>5. /\ group \in Seq(ToSet(group)) /\ is_freewili_hub(group[1].prod) /\ group[1].kind = "Hub"
      /\ \A k \in DOMAIN group : IsRead(group[k])
      /\ \A k \in DOMAIN group : k > 1 => IsChildOf(group[k], path)
      /\ \A k, l \in DOMAIN group : group[k].place = group[l].place => k = l
      /\ (Steady(path) => Said(group[1]) = Due(path))
  BY <1>1, <1>4 DEF IsHubGroup
<1>6. Said(group[1]) = Due(path)
  BY <1>2, <1>3, <1>5 DEF Steady
<1>7. DOMAIN group \subseteq Nat \ {0} /\ 1 \in DOMAIN group
  BY <1>4, <1>5
<1>8. ASSUME NEW k \in DOMAIN group, k > 1
      PROVE  /\ group[k].place \in Members(path) /\ ~is_freewili_hub(group[k].prod)
             /\ Said(group[k]) = Due(group[k].place)
             /\ group[k].kind = getUSBDeviceTypeFrom(tree[group[k].place].prod,
                                                     LocationID(group[k].place))
  <2>1. PICK p : p = group[k].place
    OBVIOUS
  <2>2. Front(p) = path /\ IsMember(group[k].prod)
    BY <1>5, <1>8, <2>1 DEF IsChildOf
  <2>3. p \in Places
    BY <1>5, <2>1 DEF IsRead
  <2>4. p \in PathSeq /\ Len(p) > 0 /\ Len(p) \in Nat
    BY <2>3, PlacesAre
  <2>5. IsPrefix(path, p) /\ Len(path) = Len(p) - 1
    BY <2>2, <2>4, FrontDiffers
  <2>6. p \in DOMAIN tree /\ IsTrue(group[k])
    BY <1>3, <1>5, <2>1, <2>5 DEF IsRead
  <2>a. group[k].kind = getUSBDeviceTypeFrom(group[k].prod, LocationID(p))
    BY <1>3, <1>5, <1>8, <2>1, <2>5 DEF IsChildOf
  <2>7. tree[p].prod = group[k].prod
    BY <2>1, <2>6 DEF IsTrue
  <2>8. Len(p) = Len(path) + 1
    <3>1. PICK n : n = Len(p)
      OBVIOUS
    <3>2. n \in Nat /\ Len(path) = n - 1
      BY <2>4, <2>5, <3>1
    <3>3. Len(path) + 1 = n
      BY <3>2
    <3> QED
      BY <3>1, <3>3
  <2>9. p \in Members(path)
    BY <2>2, <2>5, <2>6, <2>7, <2>8 DEF Members, Below, Subtree
  <2>10. ~is_freewili_hub(group[k].prod) /\ ~IsHub(group[k].prod)
    BY <1>2, <2>7, <2>9, NoneInside
  <2>11. Said(group[k]) = Due(p)
    BY <2>1, <2>6, <2>10 DEF IsTrue
  <2> QED
    BY <2>1, <2>a, <2>7, <2>9, <2>10, <2>11
<1>9. ASSUME NEW k \in DOMAIN group
      PROVE  /\ Said(group[k]) = Due(group[k].place)
             /\ tree[group[k].place].published => group[k].serial = tree[group[k].place].serial
  <2>1. k = 1 \/ k > 1
    BY <1>7
  <2>2. Said(group[k]) = Due(group[k].place)
    BY <1>1, <1>6, <1>8, <2>1
  <2>3. group[k].place \notin disturbed
    <3>1. CASE k = 1
      BY <1>1, <1>3, <3>1
    <3>2. CASE k > 1
      BY <1>2, <1>3, <1>8, <3>2, MemberPlace
    <3> QED
      BY <2>1, <3>1, <3>2
  <2>4. IsTrue(group[k])
    BY <1>5, <2>3 DEF IsRead
  <2> QED
    BY <2>2, <2>4 DEF IsTrue
<1>10. ASSUME NEW p \in Members(path)
       PROVE  \E k \in DOMAIN group : k > 1 /\ group[k].place = p
  <2>1. PICK k \in DOMAIN group : group[k].place = p
    BY <1>1, <1>3, <1>4 DEF HasMembers, Has
  <2>2. k # 1
    BY <1>1, <1>2, <2>1, MemberPlace
  <2>3. k > 1
    BY <1>7, <2>2
  <2> QED
    BY <2>1, <2>3
<1>11. group \in Groups
  BY DEF Groups
<1>12. IsWholeGroup(group, path)
  BY <1>1, <1>4, <1>5, <1>8, <1>9, <1>10 DEF IsWholeGroup
<1> QED
  BY <1>11, <1>12

LEMMA CarriersAreFallbackKinds == ToSet(FallbackKinds) = CarrierKinds
<1>1. DOMAIN FallbackKinds = {1, 2, 3} /\ FallbackKinds[1] = "FTDI"
      /\ FallbackKinds[2] = "SerialMain" /\ FallbackKinds[3] = "SerialDisplay"
  BY DEF FallbackKinds
<1> QED
  BY <1>1 DEF ToSet, CarrierKinds

\* It has a serial, on the hub or on a child.
LEMMA WholeSerial ==
  ASSUME TreeInv, NEW path, WholeFreeWili(path), NEW group, IsWholeGroup(group, path)
  PROVE  HubSerial(group) # ""
<1>1. /\ group \in Seq(ToSet(group)) /\ Len(group) > 0 /\ 1 \in DOMAIN group
      /\ DOMAIN group \subseteq Nat \ {0}
      /\ is_freewili_hub(group[1].prod) /\ group[1].kind = "Hub"
  BY DEF IsWholeGroup
<1>2. FirstOfKind(group, "Hub") = 1
  BY <1>1, FirstOfKindFirst
<1>3. group[1].prod = tree[path].prod
  BY <1>1, SaidThere DEF IsWholeGroup
<1>4. \A k \in DOMAIN group : k # 1 => k > 1
  BY <1>1
<1>5. HasFW2Hub(group) <=> tree[path].prod = "FW2Hub"
  <2>1. ASSUME NEW k \in DOMAIN group, group[k].prod = "FW2Hub"
        PROVE  k = 1
    <3>1. is_freewili_hub(group[k].prod)
      BY <2>1 DEF is_freewili_hub, HubProduct
    <3> QED
      BY <1>4, <3>1 DEF IsWholeGroup
  <2> QED
    BY <1>1, <1>3, <2>1 DEF HasFW2Hub
<1>6. CASE tree[path].prod = "FW2Hub"
  <2>1. PICK p \in Members(path) :
          /\ tree[p].published /\ tree[p].serial # ""
          /\ getUSBDeviceTypeFrom(tree[p].prod, LocationID(p)) \in ToSet(FallbackKinds)
    BY <1>6 DEF WholeFreeWili
  <2>2. PICK k \in DOMAIN group : k > 1 /\ group[k].place = p
    BY DEF IsWholeGroup
  <2>3. group[k].serial # "" /\ group[k].kind \in CarrierKinds
    BY <2>1, <2>2, CarriersAreFallbackKinds DEF IsWholeGroup
  <2>4. PICK s : s = FallbackSerial(group)
    OBVIOUS
  <2>5. s # ""
    BY <1>1, <2>3, <2>4, FallbackSerialIs
  <2>6. HubSerial(group) = IF group[1].serial # "" THEN group[1].serial ELSE s
    BY <1>2, <1>5, <1>6, <2>4 DEF HubSerial
  <2> QED
    BY <2>5, <2>6
<1>7. CASE tree[path].prod # "FW2Hub"
  <2>1. PICK k : k = FirstOfKind(group, "FTDI")
    OBVIOUS
  <2>2. HubSerial(group) = IF k # 0 THEN group[k].serial ELSE "Unknown"
    BY <1>5, <1>7, <2>1 DEF HubSerial
  <2>3. CASE k # 0
    <3>1. k \in DOMAIN group /\ group[k].kind = "FTDI"
      BY <1>1, <2>1, <2>3, FirstOfKindIs
    <3>2. k > 1
      BY <1>1, <1>4, <3>1
    <3>3. PICK p : p = group[k].place
      OBVIOUS
    <3>4. p \in Members(path) /\ getUSBDeviceTypeFrom(tree[p].prod, LocationID(p)) = "FTDI"
      BY <3>1, <3>2, <3>3 DEF IsWholeGroup
    <3>5. tree[p].published /\ tree[p].serial # ""
      BY <1>7, <3>4 DEF WholeFreeWili
    <3>6. group[k].serial = tree[p].serial
      BY <3>1, <3>3, <3>5 DEF IsWholeGroup
    <3> QED
      BY <2>2, <2>3, <3>5, <3>6
  <2> QED
    BY <2>2, <2>3
<1> QED
  BY <1>6, <1>7

LEMMA WholeIsMade ==
  ASSUME TreeInv, NEW path, WholeFreeWili(path), NEW group, IsWholeGroup(group, path)
  PROVE  fromUSBDevices(group) # BuildError /\ ~fromUSBDevices(group).standalone
<1>1. group \in Seq(ToSet(group)) /\ \A k \in DOMAIN group : ~isStandAloneDevice(group[k].prod)
  BY DEF IsWholeGroup
<1>2. fromUSBDevices(group) = FromHub(group)
  BY <1>1, FirstStandaloneIs
<1>3. HubType(group) # "" /\ HubType(group) # "Unknown" /\ HubSerial(group) # ""
  BY WholeSerial DEF HubType
<1>4. PICK d : d = HubRecordOf(group)
  OBVIOUS
<1>5. d # BuildError /\ Build(d) = d
  BY <1>3, <1>4, DeviceIsNoError DEF HubRecordOf
<1>6. ~d.standalone
  BY <1>4 DEF HubRecordOf, DeviceRecord
<1> QED
  BY <1>2, <1>4, <1>5, <1>6, HubRecord

WholeDue(path) == {Due(p) : p \in {path} \cup Members(path)}

LEMMA WholeSaid ==
  ASSUME NEW path, NEW group, IsWholeGroup(group, path)
  PROVE  /\ {Said(dev) : dev \in ToSet(group)} = WholeDue(path)
         /\ Len(group) = Cardinality(WholeDue(path))
<1>1. PICK n \in Nat : n = Len(group) /\ DOMAIN group = 1..n /\ n > 1
  <2>1. group \in Seq(ToSet(group)) /\ Len(group) > 1
    BY DEF IsWholeGroup
  <2> QED
    BY <2>1
<1>2. PICK S : S = WholeDue(path)
  OBVIOUS
<1>3. PICK f : f = [k \in 1..n |-> Said(group[k])]
  OBVIOUS
<1>4. ASSUME NEW k \in 1..n
      PROVE  /\ f[k] = Due(group[k].place)
             /\ group[k].place \in {path} \cup Members(path)
  <2>1. k = 1 \/ k > 1
    OBVIOUS
  <2>2. f[k] = Due(group[k].place)
    BY <1>1, <1>3 DEF IsWholeGroup
  <2>3. group[k].place \in {path} \cup Members(path)
    BY <1>1, <2>1 DEF IsWholeGroup
  <2> QED
    BY <2>2, <2>3
<1>5. f \in [1..n -> S]
  BY <1>2, <1>3, <1>4 DEF WholeDue
<1>6. ASSUME NEW k \in 1..n, NEW l \in 1..n, f[k] = f[l] PROVE k = l
  <2>1. Due(group[k].place).place = Due(group[l].place).place
    BY <1>4, <1>6
  <2>2. group[k].place = group[l].place
    BY <2>1 DEF Due
  <2> QED
    BY <1>1, <2>2 DEF IsWholeGroup
<1>7. ASSUME NEW d \in S PROVE \E k \in 1..n : f[k] = d
  <2>1. PICK p \in {path} \cup Members(path) : d = Due(p)
    BY <1>2 DEF WholeDue
  <2>2. PICK k \in 1..n : group[k].place = p
    BY <1>1, <2>1 DEF IsWholeGroup
  <2> QED
    BY <1>4, <2>1, <2>2
<1>8. {Said(dev) : dev \in ToSet(group)} = S
  <2>1. ASSUME NEW k \in 1..n PROVE Said(group[k]) = f[k] /\ f[k] \in S
    BY <1>3, <1>5
  <2>2. \A x : x \in ToSet(group) <=> \E k \in 1..n : x = group[k]
    BY <1>1 DEF ToSet
  <2>3. {Said(dev) : dev \in ToSet(group)} \subseteq S
    BY <2>1, <2>2
  <2>4. ASSUME NEW d \in S PROVE d \in {Said(dev) : dev \in ToSet(group)}
    <3>1. PICK k \in 1..n : f[k] = d
      BY <1>7
    <3>2. Said(group[k]) = d /\ group[k] \in ToSet(group)
      BY <2>1, <2>2, <3>1
    <3> QED
      BY <3>2
  <2> QED
    BY <2>3, <2>4
<1>9. Cardinality(S) = n
  <2>1. f \in Bijection(1..n, S)
    BY <1>5, <1>6, <1>7 DEF Bijection, Injection, Surjection, IsInjective
  <2>2. IsFiniteSet(1..n) /\ Cardinality(1..n) = n
    <3>1. PICK I, c : I = 1..n /\ c = Cardinality(I)
      OBVIOUS
    <3>2. IsFiniteSet(I) /\ c = IF 1 > n THEN 0 ELSE n - 1 + 1
      BY <3>1, FS_Interval
    <3>3. c = n
      BY <1>1, <3>2
    <3> QED
      BY <3>1, <3>2, <3>3
  <2> QED
    BY <2>1, <2>2, FS_Bijection DEF ExistsBijection
<1> QED
  BY <1>1, <1>2, <1>8, <1>9
\* Whatever says it was read on that hub is of its group.
LEMMA OnlyItsGroup ==
  ASSUME TreeInv, GroupsInv, StandaloneInv, NEW path, WholeFreeWili(path),
         NEW group, IsWholeGroup(group, path), NEW other \in Groups,
         NEW e \in ToSet(other), NEW p \in Members(path), Said(e) = Due(p)
  PROVE  other = group
<1>1. /\ path \in DOMAIN tree /\ Front(p) = path /\ p # path /\ IsMember(tree[p].prod)
      /\ e.place = p /\ e.prod = tree[p].prod /\ ~is_freewili_hub(tree[p].prod)
  BY MemberPlace, SaidThere, NoneInside DEF WholeFreeWili
<1>2. PICK k \in DOMAIN other : e = other[k]
  BY DEF ToSet
<1>3. other \in ToSet(hubGroups)
  <2>1. ASSUME NEW key, IsStandaloneGroup(other, key) PROVE FALSE
    <3>1. isStandAloneDevice(e.prod)
      BY <1>2, <2>1 DEF IsStandaloneGroup
    <3> QED
      BY <1>1, <3>1 DEF IsMember
  <2> QED
    BY <2>1, GroupIs
<1>4. IsHubGroup(other)
  BY <1>3, HubGroupIs
<1>5. DOMAIN other \subseteq Nat \ {0}
  <2>1. other \in Seq(ToSet(other))
    BY <1>4 DEF IsHubGroup
  <2> QED
    BY <2>1
<1>6. k > 1
  <2>1. k # 1
    BY <1>1, <1>2, <1>4 DEF IsHubGroup
  <2> QED
    BY <1>5, <2>1
<1>7. other[1].place = path
  BY <1>1, <1>2, <1>4, <1>6 DEF IsHubGroup, IsChildOf
<1>8. PICK i \in DOMAIN hubGroups, j \in DOMAIN hubGroups :
        other = hubGroups[i] /\ group = hubGroups[j]
  BY <1>3 DEF IsWholeGroup, ToSet
<1>9. i = j
  BY <1>7, <1>8 DEF IsWholeGroup, GroupsInv
<1> QED
  BY <1>8, <1>9

\* What the reports say of the devices on a hub that stayed put.
LEMMA WholeReported ==
  ASSUME IInv, Returned, NEW path, Undisturbed(path), WholeFreeWili(path)
  PROVE  \E group \in Groups : \E i \in DOMAIN result :
           /\ IsWholeGroup(group, path) /\ IsReportOf(i, group)
           /\ \A j \in DOMAIN result :
                (\E p \in Members(path) : Due(p) \in SaidBy(result[j])) <=> j = i
<1>1. PICK group \in Groups : IsWholeGroup(group, path)
  BY WholeGroup
<1>2. TreeInv /\ GroupsInv /\ StandaloneInv /\ ResultInv /\ result # NoResult
  BY DEF IInv, Returned
<1>3. fromUSBDevices(group) # BuildError
  BY <1>1, <1>2, WholeIsMade
<1>4. PICK i \in DOMAIN result :
        /\ IsReportOf(i, group)
        /\ \A P : (P \subseteq DOMAIN result /\ i \in P
                     /\ \A j \in P : \A g : IsReportOf(j, g) => g = group)
                    => P = {i}
  BY <1>1, <1>2, <1>3, ReportsAndGroups
<1>5. \A j \in DOMAIN result : \A g : IsReportOf(j, g) =>
        g \in Groups /\ ToSet(result[j].usbDevices) = ToSet(g)
  BY <1>2, ReportElements DEF IsReportOf
<1> DEFINE P == {j \in DOMAIN result : \E p \in Members(path) : Due(p) \in SaidBy(result[j])}
<1>6. i \in P
  <2>1. PICK p \in Members(path) : TRUE
    BY DEF WholeFreeWili
  <2>2. PICK k \in DOMAIN group : group[k].place = p
    BY <1>1, <2>1 DEF IsWholeGroup
  <2>3. Said(group[k]) = Due(p)
    BY <1>1, <2>2 DEF IsWholeGroup
  <2>4. group[k] \in ToSet(result[i].usbDevices)
    BY <1>4, <1>5 DEF ToSet
  <2>5. Due(p) \in SaidBy(result[i])
    BY <2>3, <2>4 DEF SaidBy
  <2> QED
    BY <2>5
<1>7. ASSUME NEW j \in P, NEW g, IsReportOf(j, g)
      PROVE  g = group
  <2>1. PICK p \in Members(path) : Due(p) \in SaidBy(result[j])
    OBVIOUS
  <2>2. PICK e \in ToSet(result[j].usbDevices) : Said(e) = Due(p)
    BY <2>1 DEF SaidBy
  <2>3. e \in ToSet(g) /\ g \in Groups
    BY <1>5, <1>7, <2>2
  <2> QED
    BY <1>1, <1>2, <2>2, <2>3, OnlyItsGroup
<1>8. P = {i}
  <2>1. P \subseteq DOMAIN result
    OBVIOUS
  <2> HIDE DEF P
  <2> QED
    BY <1>4, <1>6, <1>7, <2>1
<1>9. \A j \in DOMAIN result :
        (\E p \in Members(path) : Due(p) \in SaidBy(result[j])) <=> j = i
  BY <1>8
<1> QED
  BY <1>1, <1>4, <1>9

LEMMA WholeFollows == IInv => FreeWiliReportedWhole
<1> SUFFICES ASSUME IInv, Returned, NEW path \in DOMAIN tree,
                    Undisturbed(path), WholeFreeWili(path),
                    NEW reports,
                    reports = {i \in DOMAIN result :
                                 SaidBy(result[i]) \cap {Due(p) : p \in Members(path)} # {}}
             PROVE  /\ Cardinality(reports) = 1
                    /\ \A i \in reports :
                         /\ ~result[i].standalone
                         /\ SaidBy(result[i]) = WholeDue(path)
                         /\ Len(result[i].usbDevices) = Cardinality(WholeDue(path))
  BY DEF FreeWiliReportedWhole, WholeDue
<1>1. PICK group \in Groups, i \in DOMAIN result :
        /\ IsWholeGroup(group, path) /\ IsReportOf(i, group)
        /\ \A j \in DOMAIN result :
             (\E p \in Members(path) : Due(p) \in SaidBy(result[j])) <=> j = i
  BY WholeReported
<1>2. \A j \in DOMAIN result :
        j \in reports <=> \E p \in Members(path) : Due(p) \in SaidBy(result[j])
  OBVIOUS
<1>3. reports \subseteq DOMAIN result
  OBVIOUS
<1>4. reports = {i}
  BY <1>1, <1>2, <1>3
<1>5. Cardinality(reports) = 1
  BY <1>4, FS_Singleton
<1>6. TreeInv /\ GroupsInv /\ StandaloneInv
  BY DEF IInv
<1>7. ~result[i].standalone
  BY <1>1, <1>6, WholeIsMade DEF IsReportOf
<1>8. ToSet(result[i].usbDevices) = ToSet(group) /\ Len(result[i].usbDevices) = Len(group)
  BY <1>1, <1>6, ReportElements DEF IsReportOf
<1>9. /\ {Said(dev) : dev \in ToSet(group)} = WholeDue(path)
      /\ Len(group) = Cardinality(WholeDue(path))
  BY <1>1, WholeSaid
<1>10. SaidBy(result[i]) = WholeDue(path)
  BY <1>8, <1>9 DEF SaidBy
<1> QED
  BY <1>4, <1>5, <1>7, <1>8, <1>9, <1>10

(* Whatever is plugged and unplugged elsewhere between the visits, a         *)
(* FreeWili that stays put while find_all runs is in exactly one report,     *)
(* which holds its hub and the devices on it, each once, and nothing else;   *)
(* no other report says one of those devices is on it.                       *)
THEOREM FreeWilisWhole == Spec => []FreeWiliReportedWhole
BY Invariance, WholeFollows, PTL
-----------------------------------------------------------------------------
(* The getters find the processors of a FreeWili that stayed put. *)

\* The hub's traces lead from port 1 to the main processor and from port 2 to the
\* display processor (USBHubPortLocation); a device of their kinds is at no other.
ProcessorsInPlace ==
  \A slot \in Slots : IsMember(slot.prod) =>
    /\ usbDeviceTypeMap[slot.prod] = "SerialMain" => Last(slot.path) = MainLocation
    /\ usbDeviceTypeMap[slot.prod] = "SerialDisplay" => Last(slot.path) = DisplayLocation

\* What is attached was plugged in there.
SlotsInv ==
  \A p \in DOMAIN tree : Len(p) # 1 => \E slot \in Slots : slot.path = p /\ tree[p].prod = slot.prod

LEMMA SlotsStay == Spec => []SlotsInv
<1>1. Init => SlotsInv
  <2> SUFFICES ASSUME Init, NEW p \in DOMAIN tree PROVE Len(p) = 1
    BY DEF SlotsInv
  <2>1. PICK bus \in Buses : p = <<bus>>
    BY DEF Init
  <2> QED
    BY <2>1
<1>2. SlotsInv /\ [Next]_vars => SlotsInv'
  <2> SUFFICES ASSUME SlotsInv, [Next]_vars PROVE SlotsInv'
    OBVIOUS
  <2>1. ASSUME UNCHANGED tree PROVE SlotsInv'
    BY <2>1 DEF SlotsInv
  <2>2. ASSUME NEW slot \in Slots, Plug(slot) PROVE SlotsInv'
    <3>1. PICK new : new = Attached(slot)
      OBVIOUS
    <3>2. new.prod = slot.prod
      BY <3>1, AttachedIs
    <3>3. tree' = [p \in DOMAIN tree \cup {slot.path} |-> IF p = slot.path THEN new ELSE tree[p]]
      BY <2>2, <3>1 DEF Plug
    <3> QED
      BY <3>2, <3>3 DEF SlotsInv
  <2>3. ASSUME NEW path \in DOMAIN tree, Unplug(path) PROVE SlotsInv'
    BY <2>3 DEF Unplug, Restrict, SlotsInv
  <2>4. CASE FindHubBased \/ VisitHub \/ VisitChild \/ EndHub
    BY <2>1, <2>4 DEF FindHubBased, VisitHub, VisitChild, EndHub
  <2>5. CASE FindStandalone \/ VisitStandalone \/ Return
    BY <2>1, <2>5 DEF FindStandalone, VisitStandalone, Return
  <2>6. CASE UNCHANGED vars
    BY <2>1, <2>6 DEF vars
  <2> QED
    BY <2>2, <2>3, <2>4, <2>5, <2>6 DEF Next
<1> QED
  BY <1>1, <1>2, PTL DEF Spec

\* A device on a hub: its port and what it is.
LEMMA MemberPort ==
  ASSUME TreeInv, SlotsInv, NEW path \in DOMAIN tree, NEW p \in Members(path)
  PROVE  /\ p \in PathSeq /\ Len(p) > 1 /\ Len(p) # 1
         /\ LocationID(p) \in Nat /\ LocationID(p) >= 16
         /\ \E slot \in Slots : /\ slot.path = p /\ tree[p].prod = slot.prod
                                /\ IsMember(slot.prod)
<1>1. p \in Below(path) /\ path \in Places /\ IsMember(tree[p].prod)
  BY DEF Members, TreeInv
<1>2. p \in DOMAIN tree /\ p \in Places /\ Len(p) > 1 /\ Len(p) # 1
  BY <1>1, BelowIs
<1>3. p \in PathSeq
  BY <1>2, PlacesAre
<1>4. PICK slot \in Slots : slot.path = p /\ tree[p].prod = slot.prod
  BY <1>2 DEF SlotsInv
<1>5. PICK n : n = Len(p)
  OBVIOUS
<1>6. n \in Nat /\ n > 1 /\ p \in Seq(Bus)
  <2>1. n \in 2..7 /\ p \in Seq(Bus)
    BY <1>4, <1>5, SlotsAssumption DEF SlotsAssumption
  <2> QED
    BY <2>1
<1>7. n \in 2..n /\ p[n] \in Port
  <2>1. n \in 2..n
    BY <1>6
  <2>2. \A i \in 2..n : p[i] \in Port
    BY <1>4, <1>5, SlotsAssumption DEF SlotsAssumption
  <2> QED
    BY <2>1, <2>2
<1>8. PICK bus, port : bus = Head(p) /\ port = p[n]
  OBVIOUS
<1>9. bus \in 1..255 /\ port \in 1..15
  <2>1. p[1] \in Bus /\ Head(p) = p[1]
    BY <1>5, <1>6
  <2> QED
    BY <1>7, <1>8, <2>1 DEF Bus, Port
<1>a. p # NoLocation /\ ~(n < 2)
  <2>1. ~(n < 2) /\ n # 0
    BY <1>6
  <2> QED
    BY <1>5, <2>1 DEF NoLocation
<1>10. LocationID(p) = 16 * bus + port
  BY <1>a, <1>5, <1>8 DEF LocationID, getUSBPortFromLocationID, Last
<1>11. LocationID(p) \in Nat /\ LocationID(p) >= 16
  BY <1>9, <1>10
<1> QED
  BY <1>1, <1>2, <1>3, <1>4, <1>11

\* Two devices on a hub have two ports.
LEMMA OnePerPort ==
  ASSUME NEW p \in PathSeq, NEW q \in PathSeq, Len(p) > 1, Len(q) > 1,
         Front(p) = Front(q), Last(p) = Last(q)
  PROVE  p = q
<1>1. PICK m \in Nat, n \in Nat : m = Len(p) /\ n = Len(q) /\ m > 1 /\ n > 1
  BY DEF PathSeq
<1>2. Len(p) > 0 /\ Len(q) > 0
  BY <1>1
<1>3. PICK f, g : f = Front(p) /\ g = Front(q)
  OBVIOUS
<1>4. /\ Len(f) = m - 1 /\ \A i \in 1..(m - 1) : f[i] = p[i]
      /\ Len(g) = n - 1 /\ \A i \in 1..(n - 1) : g[i] = q[i]
  BY <1>1, <1>2, <1>3, FrontElements DEF PathSeq
<1>5. m = n
  <2>1. m - 1 = n - 1
    BY <1>3, <1>4
  <2> QED
    BY <2>1
<1>6. p[m] = q[m]
  BY <1>1, <1>5 DEF Last
<1>7. \A i \in 1..m : i \in 1..(m - 1) \/ i = m
  BY <1>1
<1>8. \A i \in 1..m : p[i] = q[i]
  BY <1>3, <1>4, <1>5, <1>6, <1>7
<1> QED
  BY <1>1, <1>5, <1>8, SameSequence DEF PathSeq

\* The kind of a device on a hub, whose whole locationID is no port.
LEMMA KindOfMember ==
  ASSUME TreeInv, SlotsInv, ProcessorsInPlace,
         NEW path \in DOMAIN tree, NEW p \in Members(path),
         NEW kind, kind = getUSBDeviceTypeFrom(tree[p].prod, LocationID(p))
  PROVE  /\ tree[p].prod = "RpiCdc" => kind = "Serial"
         /\ kind = "SerialMain" => Last(p) = MainLocation
         /\ kind = "SerialDisplay" => Last(p) = DisplayLocation
<1>1. PICK prod, location : prod = tree[p].prod /\ location = LocationID(p)
  OBVIOUS
<1>2. location \in Nat /\ location >= 16
  BY <1>1, MemberPort
<1>3. location # MainLocation /\ location # DisplayLocation
  BY <1>2 DEF MainLocation, DisplayLocation
<1>4. PICK slot \in Slots : slot.path = p /\ prod = slot.prod /\ IsMember(prod)
  BY <1>1, MemberPort
<1>5. prod \in WhitelistVIDPID
  BY <1>4 DEF IsMember, is_vid_pid_whitelisted
<1>6. kind = usbDeviceTypeMap[prod]
  <2>1. DOMAIN usbDeviceTypeMap = WhitelistVIDPID
    BY DEF usbDeviceTypeMap
  <2> QED
    BY <1>1, <1>3, <1>5, <2>1 DEF getUSBDeviceTypeFrom
<1>7. prod = "RpiCdc" => usbDeviceTypeMap[prod] = "Serial"
  BY <1>5 DEF usbDeviceTypeMap, HubProduct
<1>8. /\ usbDeviceTypeMap[prod] = "SerialMain" => Last(p) = MainLocation
      /\ usbDeviceTypeMap[prod] = "SerialDisplay" => Last(p) = DisplayLocation
  BY <1>4 DEF ProcessorsInPlace
<1> QED
  BY <1>1, <1>6, <1>7, <1>8
\* A hub that stayed put heads the only group with it: no FreeWili is around it.
LEMMA HubHeadsItsGroup ==
  ASSUME TreeInv, DisturbedInv, GroupsInv, StandaloneInv,
         NEW path, WholeFreeWili(path), path \notin disturbed,
         NEW group, IsWholeGroup(group, path), NEW other \in Groups,
         NEW e \in ToSet(other), Said(e) = Due(path)
  PROVE  other = group
<1>1. /\ path \in DOMAIN tree /\ is_freewili_hub(tree[path].prod)
      /\ {q \in DOMAIN tree : is_freewili_hub(tree[q].prod)
            /\ (IsPrefix(path, q) \/ IsPrefix(q, path))} = {path}
  BY DEF WholeFreeWili
<1>2. e.place = path /\ is_freewili_hub(e.prod)
  BY <1>1, SaidThere
<1>3. PICK k \in DOMAIN other : e = other[k]
  BY DEF ToSet
<1>4. other \in ToSet(hubGroups)
  <2>1. ASSUME NEW key, IsStandaloneGroup(other, key) PROVE FALSE
    <3>1. isStandAloneDevice(e.prod)
      BY <1>3, <2>1 DEF IsStandaloneGroup
    <3> QED
      BY <1>2, <3>1 DEF is_freewili_hub, isStandAloneDevice, HubProduct, StandaloneProduct
  <2> QED
    BY <2>1, GroupIs
<1>5. /\ other \in Seq(ToSet(other)) /\ Len(other) > 0 /\ is_freewili_hub(other[1].prod)
      /\ \A l \in DOMAIN other : IsRead(other[l])
      /\ \A l \in DOMAIN other : l > 1 => IsChildOf(other[l], other[1].place)
  BY <1>4, HubGroupIs DEF IsHubGroup
<1>6. DOMAIN other \subseteq Nat \ {0} /\ 1 \in DOMAIN other
  BY <1>5
<1>7. other[1].place = path
  <2>1. CASE k = 1
    BY <1>2, <1>3, <2>1
  <2>2. CASE k # 1
    <3>1. k > 1
      BY <1>6, <2>2
    <3>2. PICK h : h = other[1].place
      OBVIOUS
    <3>3. Front(path) = h
      BY <1>2, <1>3, <1>5, <3>1, <3>2 DEF IsChildOf
    <3>4. path \in PathSeq /\ Len(path) > 0
      BY <1>1, PlacesAre DEF TreeInv
    <3>5. IsPrefix(h, path) /\ h # path
      BY <3>3, <3>4, FrontDiffers
    <3>6. h \notin disturbed
      BY <1>1, <3>5 DEF DisturbedInv
    <3>7. h \in DOMAIN tree /\ tree[h].prod = other[1].prod
      BY <1>5, <1>6, <3>2, <3>6 DEF IsRead, IsTrue
    <3>8. is_freewili_hub(tree[h].prod)
      BY <1>5, <3>7
    <3>9. h \in {path}
      BY <1>1, <3>5, <3>7, <3>8
    <3> QED
      BY <3>5, <3>9
  <2> QED
    BY <2>1, <2>2
<1>8. PICK i \in DOMAIN hubGroups, j \in DOMAIN hubGroups :
        other = hubGroups[i] /\ group = hubGroups[j]
  BY <1>4 DEF IsWholeGroup, ToSet
<1>9. i = j
  BY <1>7, <1>8 DEF IsWholeGroup, GroupsInv
<1> QED
  BY <1>8, <1>9

\* A getter that asks for the kind of the port's processor, or else the port, finds
\* the device that is at the port.
LEMMA FoundAtPort ==
  ASSUME TreeInv, SlotsInv, ProcessorsInPlace, NEW path \in DOMAIN tree,
         NEW group, IsWholeGroup(group, path),
         NEW S, NEW list \in Seq(S), ToSet(list) = ToSet(group),
         NEW port, NEW kind, kind # "Hub",
         \A p \in Members(path) :
           getUSBDeviceTypeFrom(tree[p].prod, LocationID(p)) = kind => Last(p) = port,
         NEW q \in Members(path), tree[q].prod = "RpiCdc", Last(q) = port,
         NEW k, Finds(list, kind, port, k)
  PROVE  k # 0 /\ Said(list[k]) = Due(q)
<1>1. \A l \in DOMAIN list : \E j \in DOMAIN group : list[l] = group[j]
  BY DEF ToSet
<1>2. \A j \in DOMAIN group : \E l \in DOMAIN list : list[l] = group[j]
  BY DEF ToSet
<1>3. \A j \in DOMAIN group : j = 1 \/ j > 1
  <2>1. group \in Seq(ToSet(group))
    BY DEF IsWholeGroup
  <2> QED
    BY <2>1
<1>4. group[1].kind = "Hub"
  BY DEF IsWholeGroup
<1>5. PICK j \in DOMAIN group : j > 1 /\ group[j].place = q
  BY DEF IsWholeGroup
<1>6. group[j].kind = "Serial" /\ Said(group[j]) = Due(q)
  <2>1. group[j].kind = getUSBDeviceTypeFrom(tree[q].prod, LocationID(q))
    BY <1>5 DEF IsWholeGroup
  <2>2. group[j].kind = "Serial"
    BY <2>1, KindOfMember
  <2>3. Said(group[j]) = Due(q)
    BY <1>5 DEF IsWholeGroup
  <2> QED
    BY <2>2, <2>3
<1>7. ASSUME NEW dev, NEW p, Said(dev) = Due(p)
      PROVE  dev.location = Last(p)
  <2>1. PICK s, d : s = Said(dev) /\ d = Due(p)
    OBVIOUS
  <2>2. s.location = dev.location /\ d.location = Last(p)
    BY <2>1 DEF Said, Due
  <2> QED
    BY <1>7, <2>1, <2>2
<1>8. AtPort(group[j], port)
  BY <1>6, <1>7 DEF AtPort
<1>9. PICK l \in DOMAIN list : list[l] = group[j]
  BY <1>2
<1>10. k # 0 /\ k \in DOMAIN list /\ (list[k].kind = kind \/ AtPort(list[k], port))
  BY <1>8, <1>9 DEF Finds
<1>11. PICK m \in DOMAIN group : list[k] = group[m]
  BY <1>1, <1>10
<1>12. m > 1
  <2>1. group[m].kind # "Hub"
    BY <1>10, <1>11 DEF AtPort
  <2> QED
    BY <1>3, <1>4, <2>1
<1>13. PICK p : p = group[m].place
  OBVIOUS
<1>14. /\ p \in Members(path) /\ Said(group[m]) = Due(p)
       /\ group[m].kind = getUSBDeviceTypeFrom(tree[p].prod, LocationID(p))
  BY <1>12, <1>13 DEF IsWholeGroup
<1>15. Last(p) = port
  <2>1. CASE group[m].kind = kind
    BY <1>14, <2>1
  <2>2. CASE AtPort(group[m], port)
    BY <1>7, <1>14, <2>2 DEF AtPort
  <2> QED
    BY <1>10, <1>11, <2>1, <2>2
<1>16. p = q
  <2>1. Front(p) = path /\ Front(q) = path
    BY <1>14, MemberPlace
  <2>2. p \in PathSeq /\ q \in PathSeq /\ Len(p) > 1 /\ Len(q) > 1
    BY <1>14, MemberPort
  <2> QED
    BY <1>15, <2>1, <2>2, OnePerPort
<1> QED
  BY <1>10, <1>11, <1>14, <1>16

LEMMA OldFirmwareFollows ==
  ASSUME ProcessorsInPlace
  PROVE  IInv /\ SlotsInv => OldFirmwareStillFound
<1> DEFINE found(i, index) == IF index = 0 THEN {} ELSE {Said(result[i].usbDevices[index])}
           at(path, port) == {Due(p) : p \in {q \in Members(path) :
                                               tree[q].prod = "RpiCdc" /\ Last(q) = port}}
<1> SUFFICES ASSUME IInv, SlotsInv, Returned, NEW path \in DOMAIN tree,
                    Undisturbed(path), WholeFreeWili(path),
                    NEW i \in DOMAIN result, Due(path) \in SaidBy(result[i])
             PROVE  /\ at(path, MainLocation) \subseteq found(i, getMainUSBDevice(result[i]))
                    /\ at(path, DisplayLocation) \subseteq found(i, getDisplayUSBDevice(result[i]))
  BY DEF OldFirmwareStillFound
<1>1. TreeInv /\ DisturbedInv /\ GroupsInv /\ StandaloneInv /\ ResultInv /\ result # NoResult
  BY DEF IInv, Returned
<1>2. PICK group \in Groups : IsWholeGroup(group, path)
  BY WholeGroup
<1>3. PICK other : IsReportOf(i, other)
  BY <1>1, ReportsAndGroups
<1>4. ToSet(result[i].usbDevices) = ToSet(other) /\ other \in Groups
  BY <1>1, <1>3, ReportElements DEF IsReportOf
<1>5. other = group
  <2>1. PICK e \in ToSet(result[i].usbDevices) : Said(e) = Due(path)
    BY DEF SaidBy
  <2>2. path \notin disturbed
    BY <1>1, WholeSteady
  <2> QED
    BY <1>1, <1>2, <1>4, <2>1, <2>2, HubHeadsItsGroup
<1>6. PICK d : d = result[i]
  OBVIOUS
<1>7. d = fromUSBDevices(group) /\ d # BuildError /\ ~d.standalone
  BY <1>1, <1>2, <1>3, <1>5, <1>6, WholeIsMade DEF IsReportOf
<1>8. PICK S, list : S = ToSet(group) /\ list = d.usbDevices
  OBVIOUS
<1>9. list \in Seq(S) /\ ToSet(list) = ToSet(group)
  <2>1. group \in Seq(S)
    BY <1>2, <1>8 DEF IsWholeGroup
  <2>2. IsMadeOf(d, group)
    BY <1>7, <2>1, MadeOf
  <2>3. list = SortUSBDevices(group)
    BY <1>7, <1>8, <2>2 DEF IsMadeOf
  <2>4. list \in Seq(S)
    BY <2>1, <2>3, DeviceSortReorders
  <2> QED
    BY <1>4, <1>5, <1>6, <1>8, <2>4
<1>10. ASSUME NEW port, NEW kind, kind # "Hub", NEW k, k = ByKindElseLocation(d, kind, port),
              \A p \in Members(path) :
                getUSBDeviceTypeFrom(tree[p].prod, LocationID(p)) = kind => Last(p) = port
       PROVE  at(path, port) \subseteq found(i, k)
  <2>1. Finds(list, kind, port, k)
    BY <1>8, <1>9, <1>10, ByKindElseLocationIs
  <2>2. ASSUME NEW q \in Members(path), tree[q].prod = "RpiCdc", Last(q) = port
        PROVE  k # 0 /\ Said(list[k]) = Due(q)
    BY <1>1, <1>2, <1>9, <1>10, <2>1, <2>2, FoundAtPort
  <2> QED
    BY <1>6, <1>8, <2>2
<1>11. /\ getMainUSBDevice(result[i]) = ByKindElseLocation(d, "SerialMain", MainLocation)
       /\ getDisplayUSBDevice(result[i]) = ByKindElseLocation(d, "SerialDisplay", DisplayLocation)
  BY <1>6, <1>7 DEF getMainUSBDevice, getDisplayUSBDevice
<1>12. \A p \in Members(path) :
         /\ getUSBDeviceTypeFrom(tree[p].prod, LocationID(p)) = "SerialMain"
              => Last(p) = MainLocation
         /\ getUSBDeviceTypeFrom(tree[p].prod, LocationID(p)) = "SerialDisplay"
              => Last(p) = DisplayLocation
  BY <1>1, KindOfMember
<1>13. at(path, MainLocation) \subseteq found(i, getMainUSBDevice(result[i]))
  BY <1>10, <1>11, <1>12
<1>14. at(path, DisplayLocation) \subseteq found(i, getDisplayUSBDevice(result[i]))
  BY <1>10, <1>11, <1>12
<1> QED
  BY <1>13, <1>14

(* On a hub whose ports carry the processors they are wired to, the getters  *)
(* of whatever report shows the hub find both processors of a FREE-WILi with *)
(* old firmware, though the scanner looked their kinds up with the whole     *)
(* locationID (fwfinder_mac.cpp:570) and never calls them Main or Display:   *)
(* the port does.                                                            *)
THEOREM OldFirmwareFound ==
  ASSUME ProcessorsInPlace
  PROVE  Spec => []OldFirmwareStillFound
<1>1. IInv /\ SlotsInv => OldFirmwareStillFound
  BY OldFirmwareFollows
<1> QED
  BY <1>1, Invariance, SlotsStay, PTL
=============================================================================

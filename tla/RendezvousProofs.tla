------------------------- MODULE RendezvousProofs -------------------------
(***************************************************************************)
(* Proofs about Rendezvous, for every set of slots and sockets, every TTL  *)
(* and a store that may fail.  RoutesAreMutual and PairedSlotsInformed are *)
(* not inductive: a new pairing trusts the address in the mirror slot, so  *)
(* the induction carries that a slot only ever holds a socket of its owner *)
(* (SlotsOwned).                                                           *)
(***************************************************************************)
EXTENDS Rendezvous, TLAPS

\* The address of a registered slot is a socket of the slot's owner.
SlotsOwned == \A s \in Slots : peers[s] # NoPeer => peers[s].addr \in Sockets[s]

\* The routes part of RoutesAreMutual.
MutualRoutes == \A a \in Addrs : pairs[a] # NoRoute => Mutual(a, pairs[a].dst)
MutualRelaying == relaying # Idle => Mutual(relaying.src, relaying.route.dst)

IInv ==
  /\ TypeOK
  /\ SlotsOwned
  /\ MutualRoutes
  /\ MutualRelaying
  /\ PairedSlotsInformed

\* Looking up the mirror of a mirror gives the slot itself (lookupPeer with
\* from and want swapped).
LEMMA MirrorTwice ==
  ASSUME NEW s \in Slots PROVE Mirror(Mirror(s)) = s
  BY SlotAssumption, Zenon DEF Mirror

\* Two slots that want each other share one session (pairKey).
LEMMA KeyType ==
  ASSUME NEW s \in Slots PROVE PairKey(s) \in PairKeys
  BY DEF PairKeys

\* An age stays an age when time passes.
LEMMA LaterType ==
  ASSUME NEW n \in Ages PROVE Later(n) \in Ages
  BY TTLAssumption DEF Later, Ages, MaxAge

\* The absent entries have the types of the tables.
LEMMA AbsentTypes ==
  /\ NoPeer \in [addr : MaybeAddr, seen : Ages]
  /\ NoRoute \in Routes
  /\ 0 \in Ages
  BY TTLAssumption DEF NoPeer, NoRoute, Routes, Ages, MaxAge, MaybeAddr

\* The empty server satisfies the inductive invariant.
LEMMA InitIInv == Init => IInv
  <1> SUFFICES ASSUME Init PROVE IInv OBVIOUS
  <1>1. TypeOK BY AbsentTypes DEF Init, TypeOK, MaybeAddr, Idle, Resting
  <1>2. SlotsOwned /\ MutualRoutes /\ MutualRelaying /\ PairedSlotsInformed
    BY DEF Init, SlotsOwned, MutualRoutes, MutualRelaying, PairedSlotsInformed
  <1> QED BY <1>1, <1>2 DEF IInv

\* Both handlers that register a slot write a well-typed slot table whose new
\* entry is a socket of the slot's owner.
LEMMA RegisteredOwned ==
  ASSUME IInv, NEW s \in Slots, NEW a \in Sockets[s]
  PROVE  /\ a \in Addrs
         /\ Registered(s, a) \in [Slots -> [addr : MaybeAddr, seen : Ages]]
         /\ \A t \in Slots : Registered(s, a)[t] # NoPeer => Registered(s, a)[t].addr \in Sockets[t]
         /\ Registered(s, a)[s].addr = a
         /\ \A t \in Slots \ {s} : Registered(s, a)[t] = peers[t]
  <1>1. a \in Addrs BY AddrAssumption
  <1>2. [addr |-> a, seen |-> 0] \in [addr : MaybeAddr, seen : Ages]
    BY <1>1, AbsentTypes DEF MaybeAddr
  <1>3. peers \in [Slots -> [addr : MaybeAddr, seen : Ages]] BY DEF IInv, TypeOK
  <1>4. Registered(s, a) \in [Slots -> [addr : MaybeAddr, seen : Ages]]
    BY <1>2, <1>3 DEF Registered
  <1>5. Registered(s, a)[s].addr = a BY <1>3 DEF Registered
  <1>6. \A t \in Slots \ {s} : Registered(s, a)[t] = peers[t] BY <1>3 DEF Registered
  <1>7. \A t \in Slots : Registered(s, a)[t] # NoPeer => Registered(s, a)[t].addr \in Sockets[t]
    BY <1>5, <1>6 DEF IInv, SlotsOwned
  <1> QED BY <1>1, <1>4, <1>5, <1>6, <1>7

\* Voiding an old socket's route keeps types and mutuality.
LEMMA VoidedMutual ==
  ASSUME IInv, NEW s \in Slots, NEW a \in Addrs
  PROVE  /\ Voided(s, a) \in [Addrs -> Routes]
         /\ \A x \in Addrs : Voided(s, a)[x] # NoRoute => Mutual(x, Voided(s, a)[x].dst)
  BY AbsentTypes DEF Voided, IInv, TypeOK, MutualRoutes

\* The two routes of a pairing join sockets of slots that want each other.
LEMMA PairedMutual ==
  ASSUME NEW r \in [Addrs -> Routes], NEW a \in Addrs, NEW b \in Addrs,
         NEW key \in PairKeys \cup {NoKey}, Mutual(a, b), Mutual(b, a),
         \A x \in Addrs : r[x] # NoRoute => Mutual(x, r[x].dst)
  PROVE  /\ Paired(r, a, b, key) \in [Addrs -> Routes]
         /\ \A x \in Addrs : Paired(r, a, b, key)[x] # NoRoute
                               => Mutual(x, Paired(r, a, b, key)[x].dst)
  <1>1. Route(a, key) \in Routes /\ Route(b, key) \in Routes
    BY AbsentTypes DEF Route, Routes, MaybeAddr
  <1>2. Route(a, key).dst = a /\ Route(b, key).dst = b BY DEF Route
  <1>3. \A x \in Addrs : Paired(r, a, b, key)[x]
          = IF x = b THEN Route(a, key) ELSE IF x = a THEN Route(b, key) ELSE r[x]
    BY DEF Paired
  <1>4. Paired(r, a, b, key) \in [Addrs -> Routes] BY <1>1 DEF Paired
  <1> HIDE DEF Paired, Route, Mutual
  <1>5. ASSUME NEW x \in Addrs, Paired(r, a, b, key)[x] # NoRoute
        PROVE  Mutual(x, Paired(r, a, b, key)[x].dst)
    BY <1>2, <1>3, <1>5
  <1> QED BY <1>4, <1>5

\* A registration without a mirror slot (handleRegister, handleLANRegister
\* returning early) preserves the invariant.
LEMMA RegisterAloneStep ==
  ASSUME IInv, NEW s \in Slots, NEW a \in Sockets[s], RegisterAlone(s, a)
  PROVE  IInv'
  <1>1. /\ peers' = Registered(s, a) /\ pairs' = Voided(s, a)
        /\ Mirror(s) \in Slots => Registered(s, a)[Mirror(s)] = NoPeer
        /\ UNCHANGED <<told, session, touched, relaying, cleaner>>
    BY DEF RegisterAlone
  <1>2. TypeOK' BY <1>1, RegisteredOwned, VoidedMutual DEF IInv, TypeOK
  <1>3. SlotsOwned' BY <1>1, RegisteredOwned DEF SlotsOwned
  <1>4. MutualRoutes'
    <2>1. a \in Addrs BY RegisteredOwned
    <2>2. \A x \in Addrs : Voided(s, a)[x] # NoRoute => Mutual(x, Voided(s, a)[x].dst)
      BY <2>1, VoidedMutual
    <2> QED BY <1>1, <2>2 DEF MutualRoutes, Mutual
  <1>5. MutualRelaying' BY <1>1 DEF IInv, MutualRelaying, Mutual
  <1>6. PairedSlotsInformed'
    <2> SUFFICES ASSUME NEW t \in Slots, Mirror(t) \in Slots,
                        peers'[t] # NoPeer, peers'[Mirror(t)] # NoPeer
                 PROVE  told'[t] = peers'[Mirror(t)].addr
      BY DEF PairedSlotsInformed
    <2>1. t # s BY <1>1
    <2>2. Mirror(t) # s BY <1>1, MirrorTwice
    <2>3. peers'[t] = peers[t] /\ peers'[Mirror(t)] = peers[Mirror(t)]
      BY <1>1, <2>1, <2>2, RegisteredOwned
    <2> QED BY <1>1, <2>3 DEF IInv, PairedSlotsInformed
  <1> QED BY <1>2, <1>3, <1>4, <1>5, <1>6 DEF IInv

\* A registration that finds its mirror slot preserves the invariant.
LEMMA RegisterPairStep ==
  ASSUME IInv, NEW s \in Slots, NEW a \in Sockets[s], RegisterPair(s, a)
  PROVE  IInv'
  <1> DEFINE m == Mirror(s)
             b == Registered(s, a)[m].addr
             k == PairKey(s)
  <1>1. PICK id \in Opened(k) : pairs' = Paired(Voided(s, a), a, b, id)
    BY DEF RegisterPair
  <1>2. /\ m \in Slots /\ b # NoAddr
        /\ peers' = Registered(s, a)
        /\ told' = [told EXCEPT ![s] = b, ![m] = a]
        /\ UNCHANGED <<relaying, cleaner>>
    BY DEF RegisterPair
  <1>3. /\ session' \in [PairKeys -> {"none", "active", "ended"}]
        /\ touched' \in [PairKeys -> Ages]
    <2>1. CASE UNCHANGED <<session, touched>> BY <2>1 DEF IInv, TypeOK
    <2>2. CASE /\ session' = [session EXCEPT ![k] = "active"]
               /\ touched' = [touched EXCEPT ![k] = 0]
      <3>1. session' \in [PairKeys -> {"none", "active", "ended"}]
        BY <2>2, Zenon DEF IInv, TypeOK
      <3>2. touched \in [PairKeys -> Ages] /\ 0 \in Ages
        BY AbsentTypes DEF IInv, TypeOK
      <3>3. touched' \in [PairKeys -> Ages] BY <2>2, <3>2, Zenon
      <3> QED BY <3>1, <3>3
    <2> QED BY <2>1, <2>2 DEF RegisterPair
  <1>4. id \in PairKeys \cup {NoKey} BY <1>1, KeyType DEF Opened
  <1>5. a \in Sockets[s] /\ b \in Sockets[m] /\ a \in Addrs /\ b \in Addrs
    <2>1. Registered(s, a)[m] # NoPeer BY <1>2 DEF NoPeer
    <2>2. b \in Sockets[m] BY <1>2, <2>1, RegisteredOwned
    <2> HIDE DEF b, m
    <2> QED BY <1>2, <2>2, AddrAssumption
  <1>6. Mutual(a, b) /\ Mutual(b, a)
    <2>1. Mirror(m) = s BY MirrorTwice
    <2>2. Mutual(a, b) BY <1>2, <1>5 DEF Mutual
    <2> HIDE DEF b
    <2>3. Mutual(b, a) BY <1>2, <1>5, <2>1 DEF Mutual
    <2> QED BY <2>2, <2>3
  <1>7. /\ Paired(Voided(s, a), a, b, id) \in [Addrs -> Routes]
        /\ \A x \in Addrs : Paired(Voided(s, a), a, b, id)[x] # NoRoute
                              => Mutual(x, Paired(Voided(s, a), a, b, id)[x].dst)
    <2> DEFINE r == Voided(s, a)
    <2>1. r \in [Addrs -> Routes] /\ \A x \in Addrs : r[x] # NoRoute => Mutual(x, r[x].dst)
      BY <1>5, VoidedMutual
    <2> HIDE DEF b, r
    <2>2. /\ Paired(r, a, b, id) \in [Addrs -> Routes]
          /\ \A x \in Addrs : Paired(r, a, b, id)[x] # NoRoute
                                => Mutual(x, Paired(r, a, b, id)[x].dst)
      BY <1>4, <1>5, <1>6, <2>1, PairedMutual
    <2> QED BY <2>2 DEF r
  <1> HIDE DEF b, k
  <1>8. told' \in [Slots -> MaybeAddr] BY <1>2, <1>5 DEF IInv, TypeOK, MaybeAddr
  <1>9. TypeOK'
    <2>1. peers' \in [Slots -> [addr : MaybeAddr, seen : Ages]] BY <1>2, RegisteredOwned
    <2>2. pairs' \in [Addrs -> Routes] BY <1>1, <1>7
    <2> QED BY <1>2, <1>3, <1>8, <2>1, <2>2 DEF IInv, TypeOK
  <1>10. SlotsOwned' BY <1>2, RegisteredOwned DEF SlotsOwned
  <1>11. MutualRoutes' BY <1>1, <1>7 DEF MutualRoutes, Mutual
  <1>12. MutualRelaying' BY <1>2 DEF IInv, MutualRelaying, Mutual
  <1>13. PairedSlotsInformed'
    <2> SUFFICES ASSUME NEW t \in Slots, Mirror(t) \in Slots,
                        peers'[t] # NoPeer, peers'[Mirror(t)] # NoPeer
                 PROVE  told'[t] = peers'[Mirror(t)].addr
      BY DEF PairedSlotsInformed
    <2>0. told \in [Slots -> MaybeAddr] BY DEF IInv, TypeOK
    <2>1. CASE t = m
      <3>1. Mirror(t) = s BY <2>1, MirrorTwice
      <3>2. told'[t] = a BY <1>2, <2>0, <2>1
      <3> QED BY <1>2, <3>1, <3>2, RegisteredOwned
    <2>2. CASE t = s /\ t # m
      <3>1. told'[t] = b BY <1>2, <2>0, <2>2
      <3> QED BY <1>2, <2>2, <3>1 DEF b
    <2>3. CASE t # s /\ t # m
      <3>1. Mirror(t) # s BY <2>3, MirrorTwice
      <3>2. told'[t] = told[t] BY <1>2, <2>0, <2>3
      <3>3. \A u \in Slots \ {s} : peers'[u] = peers[u]
        <4>1. \A u \in Slots \ {s} : Registered(s, a)[u] = peers[u] BY RegisteredOwned
        <4> QED BY <1>2, <4>1
      <3>4. peers'[t] = peers[t] /\ peers'[Mirror(t)] = peers[Mirror(t)]
        BY <2>3, <3>1, <3>3
      <3> QED BY <3>2, <3>4 DEF IInv, PairedSlotsInformed
    <2> QED BY <2>1, <2>2, <2>3
  <1> QED BY <1>9, <1>10, <1>11, <1>12, <1>13 DEF IInv

\* What leaves slots and PeerInfo alone keeps the pairing part.
LEMMA SlotsUntouched ==
  ASSUME IInv, UNCHANGED <<peers, told>>
  PROVE  SlotsOwned' /\ PairedSlotsInformed'
  BY DEF IInv, SlotsOwned, PairedSlotsInformed

\* The three steps of handleRelay preserve the invariant: what it stores is
\* the route it loaded, and that was mutual.
LEMMA RelayStep ==
  ASSUME IInv, (\E a \in Addrs : RelayLoad(a)) \/ RelayStore \/ RelayFails
  PROVE  IInv'
  <1>0. UNCHANGED <<peers, told>> BY DEF RelayLoad, RelayStore, RelayFails
  <1>1. CASE \E a \in Addrs : RelayLoad(a)
    <2>1. PICK a \in Addrs : RelayLoad(a) BY <1>1
    <2>2. TypeOK' BY <2>1 DEF RelayLoad, IInv, TypeOK, storeVars, MaybeAddr
    <2>3. MutualRoutes' BY <2>1 DEF RelayLoad, IInv, MutualRoutes, Mutual
    <2>4. relaying'.src = a /\ relaying'.route = pairs[a] /\ pairs[a] # NoRoute
      BY <2>1 DEF RelayLoad
    <2>5. MutualRelaying' BY <2>4 DEF IInv, MutualRoutes, MutualRelaying, Mutual
    <2> QED BY <1>0, <2>2, <2>3, <2>5, SlotsUntouched DEF IInv
  <1>2. CASE RelayStore
    <2> DEFINE r == Route(relaying.route.dst, relaying.route.key)
    <2>1. /\ relaying # Idle /\ relaying' = Idle
          /\ pairs' = [pairs EXCEPT ![relaying.src] = r]
          /\ UNCHANGED <<session, cleaner>>
      BY <1>2 DEF RelayStore
    <2>2. touched' \in [PairKeys -> Ages]
      BY <1>2, AbsentTypes DEF RelayStore, IInv, TypeOK
    <2>3. r \in Routes /\ r.dst = relaying.route.dst
      BY AbsentTypes DEF IInv, TypeOK, Routes, Route
    <2> HIDE DEF r
    <2>4. TypeOK'
      <3>1. pairs' \in [Addrs -> Routes] BY <2>1, <2>3, Zenon DEF IInv, TypeOK
      <3>2. relaying' \in [src : MaybeAddr, route : Routes]
        BY <2>1, AbsentTypes DEF Idle, MaybeAddr
      <3> QED BY <1>0, <2>1, <2>2, <3>1, <3>2 DEF IInv, TypeOK
    <2>5. \A x \in Addrs : pairs'[x] = IF x = relaying.src THEN r ELSE pairs[x]
      BY <2>1 DEF IInv, TypeOK
    <2>6. MutualRoutes'
      BY <2>1, <2>3, <2>5 DEF IInv, MutualRoutes, MutualRelaying, Mutual
    <2>7. MutualRelaying' BY <2>1 DEF MutualRelaying
    <2> QED BY <1>0, <2>4, <2>6, <2>7, SlotsUntouched DEF IInv
  <1>3. CASE RelayFails
    <2>1. TypeOK' BY <1>3, AbsentTypes DEF RelayFails, IInv, TypeOK, storeVars, Idle, MaybeAddr
    <2>2. MutualRoutes' /\ MutualRelaying'
      BY <1>3 DEF RelayFails, IInv, MutualRoutes, MutualRelaying, Mutual
    <2> QED BY <1>0, <2>1, <2>2, SlotsUntouched DEF IInv
  <1> QED BY <1>1, <1>2, <1>3

\* The steps of cleanupLoop preserve the invariant: they only delete.
LEMMA CleanupStep ==
  ASSUME IInv, Cleanup
  PROVE  IInv'
  <1>1. CASE CleanPeers
    <2>1. /\ \A s \in Slots : peers'[s] = NoPeer \/ peers'[s] = peers[s]
          /\ \A a \in Addrs : pairs'[a] = NoRoute \/ pairs'[a] = pairs[a]
          /\ UNCHANGED <<told, relaying>>
      BY <1>1 DEF CleanPeers
    <2>2. TypeOK' BY <1>1, AbsentTypes DEF CleanPeers, IInv, TypeOK, storeVars, MaybeAddr
    <2>3. SlotsOwned' /\ PairedSlotsInformed'
      BY <2>1 DEF IInv, SlotsOwned, PairedSlotsInformed
    <2>4. MutualRoutes' BY <2>1 DEF IInv, MutualRoutes, Mutual
    <2>5. MutualRelaying' BY <2>1 DEF IInv, MutualRelaying, Mutual
    <2> QED BY <2>2, <2>3, <2>4, <2>5 DEF IInv
  <1>2. CASE \E a \in Addrs : RangeRead(a)
    <2>1. PICK a \in Addrs : RangeRead(a) BY <1>2
    <2>2. UNCHANGED <<peers, told, pairs, session, touched, relaying>>
      BY <2>1 DEF RangeRead, storeVars
    <2>3. cleaner' \in [pc : {"waiting", "ranging"}, todo : SUBSET Addrs, doomed : MaybeAddr]
      <3>1. cleaner.todo \in SUBSET Addrs BY DEF IInv, TypeOK
      <3> QED BY <2>1, <3>1 DEF RangeRead, MaybeAddr
    <2>4. TypeOK' BY <2>2, <2>3 DEF IInv, TypeOK
    <2>5. MutualRoutes' /\ MutualRelaying'
      BY <2>2 DEF IInv, MutualRoutes, MutualRelaying, Mutual
    <2> QED BY <2>2, <2>4, <2>5, SlotsUntouched DEF IInv
  <1>3. CASE RangeDelete
    <2>1. /\ \A a \in Addrs : pairs'[a] = NoRoute \/ pairs'[a] = pairs[a]
          /\ UNCHANGED <<peers, told, relaying>>
      BY <1>3 DEF RangeDelete, IInv, TypeOK
    <2>2. TypeOK'
      <3>1. pairs' \in [Addrs -> Routes]
        BY <1>3, AbsentTypes, Zenon DEF RangeDelete, IInv, TypeOK
      <3>2. cleaner.todo \in SUBSET Addrs BY DEF IInv, TypeOK
      <3>3. cleaner' \in [pc : {"waiting", "ranging"}, todo : SUBSET Addrs, doomed : MaybeAddr]
        BY <1>3, <3>2 DEF RangeDelete, MaybeAddr
      <3> QED BY <1>3, <3>1, <3>3 DEF RangeDelete, storeVars, IInv, TypeOK
    <2>3. MutualRoutes' BY <2>1 DEF IInv, MutualRoutes, Mutual
    <2>4. MutualRelaying' BY <2>1 DEF IInv, MutualRelaying, Mutual
    <2> QED BY <2>1, <2>2, <2>3, <2>4, SlotsUntouched DEF IInv
  <1>4. CASE CleanStore
    <2>1. UNCHANGED <<peers, told, pairs, touched, relaying>> BY <1>4 DEF CleanStore
    <2>2. TypeOK' BY <1>4 DEF CleanStore, IInv, TypeOK, Resting, MaybeAddr
    <2>3. MutualRoutes' /\ MutualRelaying'
      BY <2>1 DEF IInv, MutualRoutes, MutualRelaying, Mutual
    <2> QED BY <2>1, <2>2, <2>3, SlotsUntouched DEF IInv
  <1> QED BY <1>1, <1>2, <1>3, <1>4 DEF Cleanup

\* Time changes ages only.
LEMMA TickStep ==
  ASSUME IInv, Tick
  PROVE  IInv'
  <1>1. UNCHANGED <<told, session, relaying, cleaner>> BY DEF Tick
  <1>2. ASSUME NEW s \in Slots
        PROVE  /\ peers'[s] \in [addr : MaybeAddr, seen : Ages]
               /\ peers'[s].addr = peers[s].addr
               /\ peers[s] = NoPeer => peers'[s] = NoPeer
    <2>1. peers[s] \in [addr : MaybeAddr, seen : Ages] BY DEF IInv, TypeOK
    <2>2. peers'[s] = IF peers[s] = NoPeer THEN NoPeer
                      ELSE [peers[s] EXCEPT !.seen = Later(peers[s].seen)]
      BY DEF Tick
    <2> HIDE DEF NoPeer
    <2> QED BY <2>1, <2>2, LaterType
  <1>3. ASSUME NEW a \in Addrs
        PROVE  /\ pairs'[a] \in Routes
               /\ pairs'[a].dst = pairs[a].dst
               /\ pairs[a] = NoRoute => pairs'[a] = NoRoute
    <2>1. pairs[a] \in Routes BY DEF IInv, TypeOK
    <2>2. pairs'[a] = IF pairs[a] = NoRoute THEN NoRoute
                      ELSE [pairs[a] EXCEPT !.used = Later(pairs[a].used)]
      BY DEF Tick
    <2> QED BY <2>1, <2>2, LaterType DEF Routes
  <1>4. touched' \in [PairKeys -> Ages]
    <2>1. touched \in [PairKeys -> Ages] BY DEF IInv, TypeOK
    <2> QED BY <2>1, LaterType DEF Tick
  <1>5. peers' \in [Slots -> [addr : MaybeAddr, seen : Ages]] BY <1>2 DEF Tick
  <1>6. pairs' \in [Addrs -> Routes] BY <1>3 DEF Tick
  <1>7. TypeOK' BY <1>1, <1>4, <1>5, <1>6 DEF IInv, TypeOK
  <1>8. SlotsOwned' /\ PairedSlotsInformed'
    BY <1>1, <1>2 DEF IInv, SlotsOwned, PairedSlotsInformed
  <1>9. MutualRoutes' BY <1>3 DEF IInv, MutualRoutes, Mutual
  <1>10. MutualRelaying' BY <1>1 DEF IInv, MutualRelaying, Mutual
  <1> QED BY <1>7, <1>8, <1>9, <1>10 DEF IInv

\* A report touches a session's time stamp only.
LEMMA ReportStep ==
  ASSUME IInv, HTTP
  PROVE  IInv'
  <1>1. UNCHANGED <<peers, told, pairs, session, relaying, cleaner>>
    BY DEF HTTP, ReportPath
  <1>2. TypeOK'
    <2>1. PICK k \in PairKeys : touched' = [touched EXCEPT ![k] = 0]
      BY Zenon DEF HTTP, ReportPath
    <2>2. touched' \in [PairKeys -> Ages] BY <2>1, AbsentTypes DEF IInv, TypeOK
    <2> QED BY <1>1, <2>2 DEF IInv, TypeOK
  <1>3. MutualRoutes' /\ MutualRelaying'
    BY <1>1 DEF IInv, MutualRoutes, MutualRelaying, Mutual
  <1> QED BY <1>1, <1>2, <1>3, SlotsUntouched DEF IInv

\* The invariant is inductive.
LEMMA NextIInv == IInv /\ [Next]_vars => IInv'
  <1> SUFFICES ASSUME IInv, [Next]_vars PROVE IInv' OBVIOUS
  <1>1. CASE UNCHANGED vars
    <2>1. UNCHANGED <<peers, told, pairs, session, touched, relaying, cleaner>>
      BY <1>1 DEF vars, storeVars
    <2>2. TypeOK' BY <2>1 DEF IInv, TypeOK
    <2>3. MutualRoutes' /\ MutualRelaying'
      BY <2>1 DEF IInv, MutualRoutes, MutualRelaying, Mutual
    <2> QED BY <2>1, <2>2, <2>3, SlotsUntouched DEF IInv
  <1>2. ASSUME NEW s \in Slots, NEW a \in Sockets[s], RegisterAlone(s, a) PROVE IInv'
    BY <1>2, RegisterAloneStep
  <1>3. ASSUME NEW s \in Slots, NEW a \in Sockets[s], RegisterPair(s, a) PROVE IInv'
    BY <1>3, RegisterPairStep
  <1>4. CASE UDP BY <1>2, <1>3, <1>4, RelayStep DEF UDP
  <1> QED BY <1>1, <1>4, CleanupStep, TickStep, ReportStep DEF Next

\* The inductive invariant gives mutual routes, the LAN UDP relay included.
LEMMA IInvMutual == IInv => RoutesAreMutual
  <1> SUFFICES ASSUME IInv PROVE RoutesAreMutual OBVIOUS
  <1>1. ASSUME NEW d \in Devices, NEW a \in LANTargets(d)
        PROVE  \E s \in Slots : s.from = d /\ a \in Sockets[s]
    BY DEF LANTargets, IInv, SlotsOwned
  <1> QED BY <1>1 DEF RoutesAreMutual, IInv, MutualRoutes, MutualRelaying

\* The server's tables keep their types.
THEOREM TypeCorrect == Spec => []TypeOK
  <1>1. IInv => TypeOK BY DEF IInv
  <1> QED BY <1>1, InitIInv, NextIInv, PTL DEF Spec

\* Relayed packets go only between sockets whose owners asked for each other,
\* for any number of devices, peers, socket changes, expiries and store
\* failures, in any interleaving of the UDP and the clean-up goroutine.
THEOREM MutualRoutesOnly == Spec => []RoutesAreMutual
  BY IInvMutual, InitIInv, NextIInv, PTL DEF Spec

\* Two slots registered for each other were last told each other's current
\* socket.
THEOREM PairsInformed == Spec => []PairedSlotsInformed
  <1>1. IInv => PairedSlotsInformed BY DEF IInv
  <1> QED BY <1>1, InitIInv, NextIInv, PTL DEF Spec
=============================================================================

-------------------------- MODULE EventBuilding_proof --------------------------
(***************************************************************************)
(* Proofs about EventBuilding for any sizes of headers, any objects,       *)
(* source ids, bunch crossings and flags, and any modulus of the counter:  *)
(* the type invariant, ownership of the fragments, and that the status and *)
(* the identity of the event are those of the fragments in it.             *)
(***************************************************************************)
EXTENDS EventBuilding, DAQFormats_proof

FragmentObjects == [header : FragmentHeaders, payload : Payloads]

(* The event's fragments are its own: not held by the program, and filed   *)
(* once.                                                                   *)
Unshared ==
  /\ \A s \in Present : fragments[s] \notin held
  /\ \A s, t \in Present : s # t => fragments[s] # fragments[t]

(* fragment_count counts, as long as it has not wrapped. *)
Counted ==
  /\ IsFiniteSet(Present)
  /\ Cardinality(Present) < CountModulus => header.fragment_count = Cardinality(Present)

-------------------------------------------------------------------------------
(* Headers. *)

LEMMA NewFragmentType ==
  ASSUME NEW s \in SourceIds, NEW e \in EventIds, NEW b \in BcIds, NEW p \in Payloads
  PROVE  NewFragment(s, e, b, p) \in FragmentObjects
<1>1. Len(p) \in Nat
  BY BuildingAssumption
<1>2. Len(p) % SizeModulus \in 0..(SizeModulus - 1)
  BY <1>1, SizeModuli
<1> QED
  BY <1>2 DEF NewFragment, FragmentObjects, FragmentHeaders, FragmentMarker,
              FragmentVersionLatest

(* set_status and set_trigger_bits. *)
LEMMA SetterType ==
  ASSUME NEW f \in FragmentObjects, NEW bits \in SUBSET StatusBits
  PROVE  /\ [f EXCEPT !.header.status = bits] \in FragmentObjects
         /\ [f EXCEPT !.header.trigger_bits = bits] \in FragmentObjects
<1>1. [f.header EXCEPT !.status = bits] \in FragmentHeaders
  BY DEF FragmentObjects, FragmentHeaders
<1>2. [f.header EXCEPT !.trigger_bits = bits] \in FragmentHeaders
  BY DEF FragmentObjects, FragmentHeaders
<1> QED
  BY <1>1, <1>2 DEF FragmentObjects

LEMMA NewHeaderType == NewEventHeader(0) \in EventHeaders
BY SizesAssumption, SizeModuli DEF NewEventHeader, EventHeaders, EventMarker, EventVersionLatest,
                       NoBCID, BCIDs

LEMMA FragmentSizeType ==
  ASSUME NEW f \in FragmentObjects
  PROVE  FragmentSize(f) \in Nat
<1>1. PICK p \in Nat : p = f.header.payload_size
  BY SizeModuli DEF FragmentObjects, FragmentHeaders
<1>2. f.header.header_size = FragmentHeaderSize /\ FragmentHeaderSize \in Nat
  BY SizesAssumption DEF FragmentObjects, FragmentHeaders
<1>3. (FragmentHeaderSize + p) % SizeModulus \in Nat
  BY <1>2, SizeModuli
<1> QED
  BY <1>1, <1>2, <1>3 DEF FragmentSize

(* What addFragment leaves in the fields the invariants speak of. *)
LEMMA HeaderFields ==
  ASSUME NEW h \in EventHeaders, NEW f \in FragmentObjects
  PROVE  LET g == HeaderWithFragment(h, f)
         IN  /\ g \in EventHeaders
             /\ g.fragment_count = (h.fragment_count + 1) % CountModulus
             /\ g.event_id = IF IsFirst(h) THEN f.header.event_id ELSE h.event_id
             /\ g.bc_id = IF IsFirst(h) \/ f.header.source_id = TriggerSourceID
                          THEN f.header.bc_id ELSE h.bc_id
             /\ g.status = h.status \cup f.header.status \cup AddStatus(h, f)
             /\ g.trigger_bits = h.trigger_bits \cup f.header.trigger_bits
             /\ g.payload_size = (h.payload_size + FragmentSize(f)) % SizeModulus
<1> DEFINE g == HeaderWithFragment(h, f)
<1>1. FragmentSize(f) \in Nat
  BY FragmentSizeType
<1>2. (h.fragment_count + 1) % CountModulus \in 0..(CountModulus - 1)
  BY SizesAssumption DEF EventHeaders
<1>3. AddStatus(h, f) \subseteq StatusBits
  BY DEF AddStatus, StatusBits, BCIDMismatch
<1>4. /\ f.header.bc_id \in BCIDs
      /\ f.header.event_id \in Nat
      /\ f.header.status \subseteq StatusBits
      /\ f.header.trigger_bits \subseteq StatusBits
  BY BuildingAssumption DEF FragmentObjects, FragmentHeaders
<1>5. g \in EventHeaders
  <2>1. (h.payload_size + FragmentSize(f)) % SizeModulus \in 0..(SizeModulus - 1)
    BY <1>1, SizeModuli DEF EventHeaders
  <2>2. h.trigger_bits \cup f.header.trigger_bits \in SUBSET StatusBits
    BY <1>4 DEF EventHeaders
  <2>3. (IF IsFirst(h) THEN f.header.event_id ELSE h.event_id) \in Nat
    BY <1>4 DEF EventHeaders
  <2>4. (IF IsFirst(h) \/ f.header.source_id = TriggerSourceID
         THEN f.header.bc_id ELSE h.bc_id) \in BCIDs
    BY <1>4 DEF EventHeaders
  <2>5. h.status \cup f.header.status \cup AddStatus(h, f) \in SUBSET StatusBits
    BY <1>3, <1>4 DEF EventHeaders
  <2> QED
    BY <1>2, <2>1, <2>2, <2>3, <2>4, <2>5 DEF HeaderWithFragment, EventHeaders
<1> QED
  BY <1>5 DEF HeaderWithFragment, EventHeaders

-------------------------------------------------------------------------------
(* Type correctness. *)

LEMMA TypeInit == Init => TypeOK
BY NewHeaderType DEF Init, TypeOK, Present, EmptyMap, StatusBits

LEMMA TypeNext == TypeOK /\ Unshared /\ [Next]_vars => TypeOK'
<1> SUFFICES ASSUME TypeOK, Unshared, [Next]_vars
             PROVE  TypeOK'
  OBVIOUS
<1> USE DEF TypeOK, Present, FragmentOf
<1>1. ASSUME NEW o \in Objects, NEW s \in SourceIds, NEW e \in EventIds,
             NEW b \in BcIds, NEW p \in Payloads, Create(o, s, e, b, p)
      PROVE  TypeOK'
  BY <1>1, NewFragmentType DEF Create, FragmentObjects
<1>2. ASSUME NEW o \in Objects, NEW st \in Statuses, SetStatus(o, st)
      PROVE  TypeOK'
  <2>1. st \subseteq StatusBits
    BY BuildingAssumption
  <2>2. [heap[o] EXCEPT !.header.status = st] \in FragmentObjects
    BY <1>2, <2>1, SetterType DEF SetStatus, FragmentObjects
  <2> QED
    BY <1>2, <2>2 DEF SetStatus, FragmentObjects
<1>3. ASSUME NEW o \in Objects, NEW t \in TriggerBits, SetTriggerBits(o, t)
      PROVE  TypeOK'
  <2>1. t \subseteq StatusBits
    BY BuildingAssumption
  <2>2. [heap[o] EXCEPT !.header.trigger_bits = t] \in FragmentObjects
    BY <1>3, <2>1, SetterType DEF SetTriggerBits, FragmentObjects
  <2> QED
    BY <1>3, <2>2 DEF SetTriggerBits, FragmentObjects
<1>4. ASSUME NEW o \in Objects, Delete(o)
      PROVE  TypeOK'
  BY <1>4 DEF Delete, Unshared
<1>5. ASSUME NEW o \in Objects, AddFragment(o)
      PROVE  TypeOK'
  <2>1. heap[o] \in FragmentObjects
    BY <1>5 DEF AddFragment, FragmentObjects
  <2>2. header' \in EventHeaders
    BY <1>5, <2>1, HeaderFields DEF AddFragment, IsDuplicate
  <2>3. heap[o].header.source_id \in SourceIds
    BY <2>1 DEF FragmentObjects, FragmentHeaders
  <2> QED
    BY <1>5, <2>2, <2>3 DEF AddFragment, IsDuplicate
<1>6. ASSUME NEW o \in Objects, AddDuplicate(o)
      PROVE  TypeOK'
  BY <1>6 DEF AddDuplicate
<1>7. ASSUME NEW st \in Statuses, UpdateStatus(st)
      PROVE  TypeOK'
  <2>1. st \subseteq StatusBits
    BY BuildingAssumption
  <2>2. header' \in EventHeaders
    BY <1>7, <2>1 DEF UpdateStatus, EventHeaders
  <2> QED
    BY <1>7, <2>1, <2>2 DEF UpdateStatus
<1>8. ASSUME Renew
      PROVE  TypeOK'
  BY <1>8, NewHeaderType DEF Renew, Deleted, Unshared, EmptyMap
<1>9. ASSUME UNCHANGED vars
      PROVE  TypeOK'
  BY <1>9 DEF vars
<1> QED
  BY <1>1, <1>2, <1>3, <1>4, <1>5, <1>6, <1>7, <1>8, <1>9 DEF Next

-------------------------------------------------------------------------------
(* The three ways a step can touch the event: not its fragments, by adding *)
(* one, by replacing the event.                                            *)

(* Neither the map nor a fragment in it changes; flags may be added. *)
Quiet ==
  /\ fragments' = fragments
  /\ first' = first
  /\ \A s \in Present : heap'[fragments[s]] = heap[fragments[s]]
  /\ \E st \in Statuses \cup {{}} :
       /\ flagged' = flagged \cup st
       /\ header' \in EventHeaders
       /\ header'.status = header.status \cup st
       /\ header'.bc_id = header.bc_id
       /\ header'.event_id = header.event_id
       /\ header'.trigger_bits = header.trigger_bits
       /\ header'.fragment_count = header.fragment_count
       /\ header'.payload_size = header.payload_size

(* A fragment f of a new source s, with the header it leaves. *)
Added(s, f) ==
  /\ s \in SourceIds /\ s \notin Present
  /\ f \in FragmentObjects
  /\ f.header.source_id = s
  /\ Present' = Present \cup {s}
  /\ FragmentOf(s)' = f
  /\ \A t \in Present : FragmentOf(t)' = FragmentOf(t)
  /\ first' = IF Present = {} THEN {s} ELSE first
  /\ flagged' = flagged
  /\ header' = HeaderWithFragment(header, f)

LEMMA Footprints ==
  ASSUME TypeOK, Unshared, [Next]_vars
  PROVE  Quiet \/ (\E s, f : Added(s, f)) \/ Renew
<1> USE DEF TypeOK, Present, FragmentOf
<1>0. ASSUME UNCHANGED <<fragments, first, header, flagged>>,
             \A s \in Present : heap'[fragments[s]] = heap[fragments[s]]
      PROVE  Quiet
  <2>1. {} \in Statuses \cup {{}} /\ flagged' = flagged \cup {}
        /\ header'.status = header.status \cup {}
    BY <1>0
  <2> QED
    BY <1>0, <2>1 DEF Quiet
<1>1. ASSUME NEW o \in Objects, NEW s \in SourceIds, NEW e \in EventIds,
             NEW b \in BcIds, NEW p \in Payloads, Create(o, s, e, b, p)
      PROVE  Quiet
  BY <1>0, <1>1 DEF Create
<1>2. ASSUME NEW o \in Objects, NEW st \in Statuses, SetStatus(o, st)
      PROVE  Quiet
  BY <1>0, <1>2 DEF SetStatus, Unshared
<1>3. ASSUME NEW o \in Objects, NEW t \in TriggerBits, SetTriggerBits(o, t)
      PROVE  Quiet
  BY <1>0, <1>3 DEF SetTriggerBits, Unshared
<1>4. ASSUME NEW o \in Objects, Delete(o)
      PROVE  Quiet
  BY <1>0, <1>4 DEF Delete, Unshared
<1>5. ASSUME NEW o \in Objects, AddFragment(o)
      PROVE  \E s, f : Added(s, f)
  <2>1. heap[o] \in FragmentObjects
    BY <1>5 DEF AddFragment, FragmentObjects
  <2>2. heap[o].header.source_id \in SourceIds
    BY <2>1 DEF FragmentObjects, FragmentHeaders
  <2>3. PICK s, f : s = heap[o].header.source_id /\ f = heap[o]
    OBVIOUS
  <2>4. Added(s, f)
    BY <1>5, <2>1, <2>2, <2>3 DEF AddFragment, IsDuplicate, Added
  <2> QED
    BY <2>4
<1>6. ASSUME NEW o \in Objects, AddDuplicate(o)
      PROVE  Quiet
  BY <1>0, <1>6 DEF AddDuplicate
<1>7. ASSUME NEW st \in Statuses, UpdateStatus(st)
      PROVE  Quiet
  <2>1. st \subseteq StatusBits
    BY BuildingAssumption
  <2>2. header' \in EventHeaders
    BY <1>7, <2>1 DEF UpdateStatus, EventHeaders
  <2>3. /\ header'.status = header.status \cup st
        /\ header'.bc_id = header.bc_id
        /\ header'.event_id = header.event_id
        /\ header'.trigger_bits = header.trigger_bits
        /\ header'.fragment_count = header.fragment_count
        /\ header'.payload_size = header.payload_size
    BY <1>7 DEF UpdateStatus, EventHeaders
  <2> QED
    BY <1>7, <2>1, <2>2, <2>3 DEF UpdateStatus, Quiet
<1>8. ASSUME UNCHANGED vars
      PROVE  Quiet
  BY <1>0, <1>8 DEF vars
<1> QED
  BY <1>1, <1>2, <1>3, <1>4, <1>5, <1>6, <1>7, <1>8 DEF Next

(* Ownership inside the event. *)
LEMMA UnsharedNext == TypeOK /\ Unshared /\ [Next]_vars => Unshared'
<1> SUFFICES ASSUME TypeOK, Unshared, [Next]_vars
             PROVE  Unshared'
  OBVIOUS
<1> USE DEF TypeOK, Unshared, Present
<1>1. ASSUME NEW o \in Objects, NEW s \in SourceIds, NEW e \in EventIds,
             NEW b \in BcIds, NEW p \in Payloads, Create(o, s, e, b, p)
      PROVE  Unshared'
  BY <1>1 DEF Create
<1>2. ASSUME NEW o \in Objects, AddFragment(o)
      PROVE  Unshared'
  BY <1>2 DEF AddFragment, IsDuplicate
<1>3. ASSUME Renew
      PROVE  Unshared'
  BY <1>3 DEF Renew, Deleted, EmptyMap
<1>4. ASSUME fragments' = fragments, held' \subseteq held
      PROVE  Unshared'
  BY <1>4
<1>5. ASSUME NEW o \in Objects, Delete(o) \/ AddDuplicate(o)
      PROVE  Unshared'
  BY <1>4, <1>5 DEF Delete, AddDuplicate
<1>6. ASSUME NEW o \in Objects, NEW st, SetStatus(o, st) \/ SetTriggerBits(o, st)
      PROVE  Unshared'
  BY <1>4, <1>6 DEF SetStatus, SetTriggerBits
<1>7. ASSUME NEW st, UpdateStatus(st)
      PROVE  Unshared'
  BY <1>4, <1>7 DEF UpdateStatus
<1>8. ASSUME UNCHANGED vars
      PROVE  Unshared'
  BY <1>4, <1>8 DEF vars
<1> QED
  BY <1>1, <1>2, <1>3, <1>5, <1>6, <1>7, <1>8 DEF Next

-------------------------------------------------------------------------------
(* The header against the fragments. *)

(* The flags the fragments brought. *)
Brought == UNION {FragmentOf(s).header.status : s \in Present}

(* What IdentityFromFragments and MismatchIffDisagree say once the counter *)
(* is known not to have wrapped.                                           *)
Identity ==
  /\ TriggerSourceID \in Present =>
       header.bc_id = FragmentOf(TriggerSourceID).header.bc_id
  /\ \A s \in first :
       /\ TriggerSourceID \notin Present => header.bc_id = FragmentOf(s).header.bc_id
       /\ header.event_id = FragmentOf(s).header.event_id
  /\ Present = {} <=> first = {}
  /\ Present = {} => header.bc_id = NoBCID

Mismatch ==
  BCIDMismatch \in header.status <=>
    \/ Disagree
    \/ BCIDMismatch \in flagged
    \/ \E s \in Present : BCIDMismatch \in FragmentOf(s).header.status

(* The inductive invariant. *)
IInv ==
  /\ TypeOK
  /\ Unshared
  /\ Counted
  /\ StatusAccounted
  /\ IdentityFromFragments
  /\ MismatchIffDisagree

LEMMA QuietNext ==
  ASSUME IInv, Quiet, TypeOK', Unshared'
  PROVE  IInv'
<1> USE DEF IInv, Quiet, Present
<1>1. /\ Present' = Present
      /\ \A s \in Present : FragmentOf(s)' = FragmentOf(s)
  BY DEF FragmentOf
<1>2. Counted' /\ (CountExact' <=> CountExact)
  BY <1>1 DEF Counted, CountExact
<1>3. StatusAccounted'
  <2>1. Brought' = Brought
    BY <1>1 DEF Brought
  <2> QED
    BY <2>1 DEF StatusAccounted, Brought
<1>4. IdentityFromFragments'
  <2>1. first \subseteq Present
    BY DEF TypeOK
  <2>2. Identity' <=> Identity
    BY <1>1, <2>1 DEF Identity
  <2> QED
    BY <1>2, <2>2 DEF IdentityFromFragments, Identity
<1>5. Disagree' <=> Disagree
  BY <1>1 DEF Disagree
<1>6. MismatchIffDisagree'
  BY <1>1, <1>2, <1>5 DEF MismatchIffDisagree
<1> QED
  BY <1>2, <1>3, <1>4, <1>6

LEMMA AddedNext ==
  ASSUME IInv, NEW s, NEW f, Added(s, f), TypeOK', Unshared'
  PROVE  IInv'
<1> USE DEF IInv
<1>1. /\ s \notin Present
      /\ Present' = Present \cup {s}
      /\ FragmentOf(s)' = f
      /\ \A t \in Present : FragmentOf(t)' = FragmentOf(t)
      /\ first' = IF Present = {} THEN {s} ELSE first
      /\ flagged' = flagged
      /\ f.header.source_id = s
  BY DEF Added
<1>2. /\ header'.fragment_count = (header.fragment_count + 1) % CountModulus
      /\ header'.event_id = IF IsFirst(header) THEN f.header.event_id ELSE header.event_id
      /\ header'.bc_id = IF IsFirst(header) \/ s = TriggerSourceID
                         THEN f.header.bc_id ELSE header.bc_id
      /\ header'.status = header.status \cup f.header.status \cup AddStatus(header, f)
  <2>1. header \in EventHeaders /\ f \in FragmentObjects
    BY DEF Added, TypeOK
  <2> QED
    BY <1>1, <2>1, HeaderFields DEF Added
<1>3. /\ IsFiniteSet(Present) /\ IsFiniteSet(Present')
      /\ Cardinality(Present) \in Nat
      /\ Cardinality(Present') = Cardinality(Present) + 1
      /\ Cardinality(Present) = 0 <=> Present = {}
  BY <1>1, FS_AddElement, FS_CardinalityType, FS_EmptySet DEF Counted
<1>4. Counted'
  <2>1. SUFFICES ASSUME Cardinality(Present') < CountModulus
                 PROVE  header'.fragment_count = Cardinality(Present')
    BY <1>3 DEF Counted
  <2>2. header.fragment_count = Cardinality(Present)
    BY <1>3, <2>1, SizesAssumption DEF Counted
  <2> QED
    BY <1>2, <1>3, <2>1, <2>2, SizesAssumption
<1>5. ASSUME CountExact'
      PROVE  CountExact /\ (IsFirst(header) <=> Present = {})
  <2>1. Cardinality(Present) < CountModulus
    BY <1>3, <1>5, SizesAssumption DEF CountExact
  <2> QED
    BY <1>3, <2>1, SizesAssumption DEF CountExact, Counted, IsFirst
<1>6. StatusAccounted'
  <2>1. Brought' = Brought \cup f.header.status
    BY <1>1 DEF Brought
  <2>2. AddStatus(header, f) \subseteq {BCIDMismatch}
    BY DEF AddStatus
  <2> QED
    BY <1>1, <1>2, <2>1, <2>2 DEF StatusAccounted, Brought
<1>7. first \subseteq Present
  BY DEF TypeOK
<1>8. ASSUME CountExact'
      PROVE  Identity'
  <2>1. Identity
    BY <1>5, <1>8 DEF IdentityFromFragments, Identity
  <2>2. CASE Present = {}
    BY <1>1, <1>2, <1>5, <1>8, <2>2 DEF Identity
  <2>3. CASE Present # {}
    BY <1>1, <1>2, <1>5, <1>7, <1>8, <2>1, <2>3 DEF Identity
  <2> QED
    BY <2>2, <2>3
<1>9. ASSUME CountExact'
      PROVE  Mismatch'
  <2>1. Identity /\ Mismatch
    BY <1>5, <1>9 DEF IdentityFromFragments, Identity, MismatchIffDisagree, Mismatch
  <2>2. CASE Present = {}
    <3>1. ~Disagree' /\ ~Disagree
      BY <1>1, <2>2 DEF Disagree
    <3>2. AddStatus(header, f) = {}
      BY <1>5, <1>9, <2>2 DEF AddStatus
    <3> QED
      BY <1>1, <1>2, <2>1, <2>2, <3>1, <3>2 DEF Mismatch
  <2>3. CASE Present # {}
    <3>1. PICK u \in Present : header.bc_id = FragmentOf(u).header.bc_id
      BY <1>7, <2>1, <2>3 DEF Identity
    <3>2. Disagree' <=> Disagree \/ header.bc_id # f.header.bc_id
      BY <1>1, <3>1 DEF Disagree
    <3>3. BCIDMismatch \in AddStatus(header, f) <=> header.bc_id # f.header.bc_id
      BY <1>5, <1>9, <2>3 DEF AddStatus
    <3> QED
      BY <1>1, <1>2, <2>1, <3>2, <3>3 DEF Mismatch
  <2> QED
    BY <2>2, <2>3
<1> QED
  BY <1>4, <1>6, <1>8, <1>9
     DEF IdentityFromFragments, Identity, MismatchIffDisagree, Mismatch

IsEmpty ==
  Present = {} /\ first = {} /\ flagged = {} /\ header = NewEventHeader(0)

LEMMA EmptyEvent ==
  IsEmpty => Counted /\ StatusAccounted /\ IdentityFromFragments /\ MismatchIffDisagree
<1> SUFFICES ASSUME IsEmpty
             PROVE  Counted /\ StatusAccounted /\ IdentityFromFragments /\ MismatchIffDisagree
  OBVIOUS
<1> USE DEF IsEmpty
<1>1. header.bc_id = NoBCID /\ header.status = {} /\ header.fragment_count = 0
  BY DEF NewEventHeader
<1>2. Counted
  BY <1>1, FS_EmptySet DEF Counted
<1>3. Brought = {}
  BY DEF Brought
<1>4. StatusAccounted
  BY <1>1, <1>3 DEF StatusAccounted, Brought
<1>5. IdentityFromFragments
  BY <1>1 DEF IdentityFromFragments
<1>6. MismatchIffDisagree
  BY <1>1 DEF MismatchIffDisagree, Disagree
<1> QED
  BY <1>2, <1>4, <1>5, <1>6

LEMMA InvInit == Init => IInv
<1> SUFFICES ASSUME Init
             PROVE  IInv
  OBVIOUS
<1>1. IsEmpty
  BY DEF Init, IsEmpty, Present, EmptyMap
<1>2. Unshared
  BY <1>1 DEF IsEmpty, Unshared
<1> QED
  BY <1>1, <1>2, TypeInit, EmptyEvent DEF IInv

LEMMA InvNext == IInv /\ [Next]_vars => IInv'
<1> SUFFICES ASSUME IInv, [Next]_vars
             PROVE  IInv'
  OBVIOUS
<1>1. TypeOK' /\ Unshared'
  BY TypeNext, UnsharedNext DEF IInv
<1>2. CASE Quiet
  BY <1>1, <1>2, QuietNext
<1>3. CASE \E s, f : Added(s, f)
  BY <1>1, <1>3, AddedNext
<1>4. CASE Renew
  <2>1. IsEmpty'
    BY <1>4 DEF Renew, Deleted, IsEmpty, Present, EmptyMap
  <2>2. Counted' /\ StatusAccounted' /\ IdentityFromFragments' /\ MismatchIffDisagree'
    BY <2>1, EmptyEvent, PTL
  <2> QED
    BY <1>1, <2>2 DEF IInv
<1> QED
  BY <1>2, <1>3, <1>4, Footprints DEF IInv

(* The invariant holds in every behaviour of EventBuilding, for every      *)
(* value of its constants.                                                 *)
LEMMA Invariant == Spec => []IInv
BY InvInit, InvNext, PTL DEF Spec

(* Fragments and event keep their types, the event's fragments are filed   *)
(* under their own source ids and point to allocated objects.              *)
THEOREM TypeCorrect == Spec => []TypeOK
<1>1. IInv => TypeOK
  BY DEF IInv
<1> QED
  BY <1>1, Invariant, PTL

(* addFragment: whatever order the fragments arrive in, BCIDMismatch is    *)
(* flagged exactly when two of them disagree or somebody brought the flag. *)
THEOREM MismatchDetected == Spec => []MismatchIffDisagree
<1>1. IInv => MismatchIffDisagree
  BY DEF IInv
<1> QED
  BY <1>1, Invariant, PTL

(* addFragment: the bunch crossing of the event is the trigger fragment's, *)
(* or else, like the event id, the first fragment's.                       *)
THEOREM IdentityKept == Spec => []IdentityFromFragments
<1>1. IInv => IdentityFromFragments
  BY DEF IInv
<1> QED
  BY <1>1, Invariant, PTL

(* addFragment and updateStatus: no flag is lost and none invented.        *)
THEOREM StatusKept == Spec => []StatusAccounted
<1>1. IInv => StatusAccounted
  BY DEF IInv
<1> QED
  BY <1>1, Invariant, PTL

(* addFragment, updateStatus and the destructor: while an event lives, no  *)
(* step drops, replaces or changes a fragment in it, or clears a flag.     *)
THEOREM Grows == Spec => OnlyGrows
<1>1. ASSUME IInv, [Next]_vars
      PROVE  \/ fragments' = EmptyMap
             \/ /\ \A s \in Present : s \in Present' /\ FragmentOf(s)' = FragmentOf(s)
                /\ header.status \subseteq header'.status
                /\ header.trigger_bits \subseteq header'.trigger_bits
  <2>1. CASE Quiet
    BY <2>1 DEF Quiet, Present, FragmentOf
  <2>2. ASSUME NEW s, NEW f, Added(s, f)
        PROVE  /\ \A t \in Present : t \in Present' /\ FragmentOf(t)' = FragmentOf(t)
               /\ header.status \subseteq header'.status
               /\ header.trigger_bits \subseteq header'.trigger_bits
    <3>1. header \in EventHeaders /\ f \in FragmentObjects
      BY <1>1, <2>2 DEF IInv, TypeOK, Added
    <3>2. /\ header.status \subseteq header'.status
          /\ header.trigger_bits \subseteq header'.trigger_bits
      BY <2>2, <3>1, HeaderFields DEF Added
    <3> QED
      BY <2>2, <3>2 DEF Added
  <2>3. CASE Renew
    BY <2>3 DEF Renew, Deleted
  <2> QED
    BY <1>1, <2>1, <2>2, <2>3, Footprints DEF IInv
<1> QED
  BY <1>1, Invariant, PTL DEF Spec, OnlyGrows

-------------------------------------------------------------------------------
(* Ownership of the fragments. *)

Owned == held \cup {fragments[s] : s \in Present}

LEMMA OwnedNext ==
  ASSUME KeepsRejected, TypeOK, Unshared, DOMAIN heap = Owned, [Next]_vars
  PROVE  DOMAIN heap' = Owned'
<1> USE DEF Present, Owned
<1>1. ASSUME NEW o \in Objects, NEW s \in SourceIds, NEW e \in EventIds,
             NEW b \in BcIds, NEW p \in Payloads, Create(o, s, e, b, p)
      PROVE  DOMAIN heap' = Owned'
  BY <1>1 DEF Create
<1>2. ASSUME NEW o \in Objects, NEW bits, SetStatus(o, bits) \/ SetTriggerBits(o, bits)
      PROVE  DOMAIN heap' = Owned'
  BY <1>2 DEF SetStatus, SetTriggerBits
<1>3. ASSUME NEW o \in Objects, Delete(o)
      PROVE  DOMAIN heap' = Owned'
  BY <1>3 DEF Delete, Unshared
<1>4. ASSUME NEW o \in Objects, AddFragment(o)
      PROVE  DOMAIN heap' = Owned'
  BY <1>4, ZenonT(30) DEF AddFragment, IsDuplicate
<1>5. ASSUME NEW o \in Objects, AddDuplicate(o)
      PROVE  DOMAIN heap' = Owned'
  BY <1>5 DEF AddDuplicate
<1>6. ASSUME NEW st, UpdateStatus(st)
      PROVE  DOMAIN heap' = Owned'
  BY <1>6 DEF UpdateStatus
<1>7. ASSUME Renew
      PROVE  DOMAIN heap' = Owned'
  BY <1>7 DEF Renew, Deleted, EmptyMap, Unshared
<1>8. ASSUME UNCHANGED vars
      PROVE  DOMAIN heap' = Owned'
  BY <1>8 DEF vars
<1> QED
  BY <1>1, <1>2, <1>3, <1>4, <1>5, <1>6, <1>7, <1>8 DEF Next

(* If the program keeps what addFragment refuses, every fragment has one   *)
(* owner at any time: nothing leaks, nothing is deleted twice.             *)
THEOREM Ownership == ASSUME KeepsRejected PROVE Spec => []OneOwner
<1> DEFINE Inv == DOMAIN heap = Owned
<1>1. Init => Inv
  BY DEF Init, Owned, Present, EmptyMap
<1>2. IInv /\ Inv /\ [Next]_vars => Inv'
  BY OwnedNext DEF IInv
<1>3. IInv /\ Inv => OneOwner
  BY DEF IInv, Unshared, OneOwner, Owned
<1> QED
  BY <1>1, <1>2, <1>3, Invariant, PTL DEF Spec

-------------------------------------------------------------------------------
(* The event implements EventContents. *)

(* The header of a fragment says how long its payload is. *)
Whole == \A o \in DOMAIN heap : heap[o].header.payload_size = Len(heap[o].payload) % SizeModulus

LEMMA WholeNext == TypeOK /\ Whole /\ [Next]_vars => Whole'
<1> SUFFICES ASSUME TypeOK, Whole, [Next]_vars
             PROVE  Whole'
  OBVIOUS
<1> USE DEF Whole
<1>1. ASSUME NEW o \in Objects, NEW s \in SourceIds, NEW e \in EventIds,
             NEW b \in BcIds, NEW p \in Payloads, Create(o, s, e, b, p)
      PROVE  Whole'
  BY <1>1 DEF Create, NewFragment
<1>2. ASSUME NEW o \in Objects, NEW bits, SetStatus(o, bits) \/ SetTriggerBits(o, bits)
      PROVE  Whole'
  <2>1. heap[o] \in FragmentObjects
    BY <1>2 DEF SetStatus, SetTriggerBits, TypeOK, FragmentObjects
  <2>2. heap'[o].payload = heap[o].payload /\ o \in DOMAIN heap
    BY <1>2, <2>1 DEF SetStatus, SetTriggerBits, TypeOK, FragmentObjects
  <2>3. heap'[o].header.payload_size = heap[o].header.payload_size
    <3>1. ASSUME NEW f \in FragmentObjects
          PROVE  /\ [f EXCEPT !.header.status = bits].header.payload_size
                      = f.header.payload_size
                 /\ [f EXCEPT !.header.trigger_bits = bits].header.payload_size
                      = f.header.payload_size
      BY DEF FragmentObjects, FragmentHeaders
    <3>2. \/ heap'[o] = [heap[o] EXCEPT !.header.status = bits]
          \/ heap'[o] = [heap[o] EXCEPT !.header.trigger_bits = bits]
      BY <1>2, <2>2 DEF SetStatus, SetTriggerBits
    <3> QED
      BY <2>1, <3>1, <3>2
  <2>4. DOMAIN heap' = DOMAIN heap /\ \A p \in DOMAIN heap \ {o} : heap'[p] = heap[p]
    BY <1>2 DEF SetStatus, SetTriggerBits
  <2> QED
    BY <2>2, <2>3, <2>4
<1>3. ASSUME NEW o \in Objects, Delete(o)
      PROVE  Whole'
  BY <1>3 DEF Delete
<1>4. ASSUME NEW o \in Objects, AddFragment(o) \/ AddDuplicate(o)
      PROVE  Whole'
  BY <1>4 DEF AddFragment, AddDuplicate
<1>5. ASSUME NEW st, UpdateStatus(st)
      PROVE  Whole'
  BY <1>5 DEF UpdateStatus
<1>6. ASSUME Renew
      PROVE  Whole'
  BY <1>6 DEF Renew
<1>7. ASSUME UNCHANGED vars
      PROVE  Whole'
  BY <1>7 DEF vars
<1> QED
  BY <1>1, <1>2, <1>3, <1>4, <1>5, <1>6, <1>7 DEF Next

LEMMA ModSums ==
  ASSUME NEW a \in Nat, NEW b \in Nat
  PROVE  ((a % SizeModulus) + (b % SizeModulus)) % SizeModulus = (a + b) % SizeModulus
<1>1. PICK r \in Nat : r = a % SizeModulus
  BY SizeModuli
<1>2. (r + (b % SizeModulus)) % SizeModulus = (r + b) % SizeModulus
  BY SizeModuli, ModPlus
<1>3. ((a % SizeModulus) + b) % SizeModulus = (a + b) % SizeModulus
  BY SizeModuli, ModPlus
<1> QED
  BY <1>1, <1>2, <1>3

(* The sizes that addFragment sums are those in raw(), in 32 bits. *)
LEMMA SizeOfWhole ==
  ASSUME TypeOK, Whole, NEW o \in DOMAIN heap
  PROVE  /\ RawSize(heap[o]) \in Nat
         /\ FragmentSize(heap[o]) = RawSize(heap[o]) % SizeModulus
<1>1. PICK f : f = heap[o]
  OBVIOUS
<1>2. f \in FragmentObjects /\ f.header.payload_size = Len(f.payload) % SizeModulus
  BY <1>1 DEF TypeOK, FragmentObjects, Whole
<1>3. f.header.header_size = FragmentHeaderSize /\ f.payload \in Payloads
  BY <1>2 DEF FragmentObjects, FragmentHeaders
<1>4. PICK l \in Nat : l = Len(f.payload)
  BY <1>3, BuildingAssumption
<1>5. FragmentHeaderSize \in Nat
  BY SizesAssumption
<1>6. (FragmentHeaderSize + (l % SizeModulus)) % SizeModulus = (FragmentHeaderSize + l) % SizeModulus
  BY <1>5, SizeModuli, ModPlus
<1>7. RawSize(f) = FragmentHeaderSize + l
  BY <1>4 DEF RawSize
<1>8. FragmentSize(f) = (FragmentHeaderSize + (l % SizeModulus)) % SizeModulus
  BY <1>2, <1>3, <1>4 DEF FragmentSize
<1> QED
  BY <1>1, <1>5, <1>6, <1>7, <1>8

Sizes == [s \in Present |-> RawSize(FragmentOf(s))]

BitsAccounted == header.trigger_bits = UNION {FragmentOf(s).header.trigger_bits : s \in Present}

SizeAccounted == header.payload_size = Total(Sizes) % SizeModulus

(* The header in full, and what the program can make of a fragment. *)
ContentsInv ==
  /\ IInv
  /\ Whole
  /\ \A o \in DOMAIN heap : View(heap[o]) \in Views
  /\ BitsAccounted
  /\ SizeAccounted
  /\ Present = {} => header.event_id = 0

(* Setters keep a fragment inside Views. *)
LEMMA ViewsNext ==
  ASSUME TypeOK, \A o \in DOMAIN heap : View(heap[o]) \in Views, [Next]_vars
  PROVE  \A o \in DOMAIN heap' : View(heap'[o]) \in Views
<1> DEFINE Goal == \A o \in DOMAIN heap' : View(heap'[o]) \in Views
<1>0. ASSUME NEW f \in FragmentObjects, View(f) \in Views
      PROVE  /\ \A st \in Statuses : View([f EXCEPT !.header.status = st]) \in Views
             /\ \A t \in TriggerBits : View([f EXCEPT !.header.trigger_bits = t]) \in Views
  BY <1>0 DEF View, Views, FragmentObjects, FragmentHeaders
<1>1. ASSUME NEW o \in Objects, NEW s \in SourceIds, NEW e \in EventIds,
             NEW b \in BcIds, NEW p \in Payloads, Create(o, s, e, b, p)
      PROVE  Goal
  <2>1. View(NewFragment(s, e, b, p)) \in Views
    BY DEF View, Views, NewFragment
  <2> QED
    BY <1>1, <2>1 DEF Create
<1>2. ASSUME NEW o \in Objects, NEW st \in Statuses, SetStatus(o, st)
      PROVE  Goal
  <2>1. heap[o] \in FragmentObjects
    BY <1>2 DEF SetStatus, TypeOK, FragmentObjects
  <2>2. View([heap[o] EXCEPT !.header.status = st]) \in Views
    BY <1>0, <1>2, <2>1 DEF SetStatus, TypeOK
  <2> QED
    BY <1>2, <2>2 DEF SetStatus
<1>3. ASSUME NEW o \in Objects, NEW t \in TriggerBits, SetTriggerBits(o, t)
      PROVE  Goal
  <2>1. heap[o] \in FragmentObjects
    BY <1>3 DEF SetTriggerBits, TypeOK, FragmentObjects
  <2>2. View([heap[o] EXCEPT !.header.trigger_bits = t]) \in Views
    BY <1>0, <1>3, <2>1 DEF SetTriggerBits, TypeOK
  <2> QED
    BY <1>3, <2>2 DEF SetTriggerBits
<1>4. ASSUME NEW o \in Objects, Delete(o)
      PROVE  Goal
  BY <1>4 DEF Delete
<1>5. ASSUME NEW o \in Objects, AddFragment(o) \/ AddDuplicate(o)
      PROVE  Goal
  BY <1>5 DEF AddFragment, AddDuplicate
<1>6. ASSUME NEW st, UpdateStatus(st)
      PROVE  Goal
  BY <1>6 DEF UpdateStatus
<1>7. ASSUME Renew
      PROVE  Goal
  BY <1>7 DEF Renew
<1>8. ASSUME UNCHANGED vars
      PROVE  Goal
  BY <1>8 DEF vars
<1> QED
  BY <1>1, <1>2, <1>3, <1>4, <1>5, <1>6, <1>7, <1>8 DEF Next

LEMMA SizesType ==
  ASSUME TypeOK, Whole
  PROVE  Sizes \in [Present -> Nat]
<1>1. ASSUME NEW s \in Present
      PROVE  RawSize(FragmentOf(s)) \in Nat
  <2>1. fragments[s] \in DOMAIN heap
    BY DEF TypeOK
  <2> QED
    BY <2>1, SizeOfWhole DEF FragmentOf
<1> QED
  BY <1>1 DEF Sizes

(* What SizeOfWhole says of all objects, also after a step. *)
SizesAreRaw ==
  \A o \in DOMAIN heap : /\ RawSize(heap[o]) \in Nat
                         /\ FragmentSize(heap[o]) = RawSize(heap[o]) % SizeModulus

LEMMA SizesNow == TypeOK /\ Whole => SizesAreRaw
BY SizeOfWhole DEF SizesAreRaw

LEMMA SizesNext == (TypeOK /\ Whole => SizesAreRaw)'
BY SizesNow, PTL

LEMMA NoSizes == 0 % SizeModulus = 0
BY SizeModuli, ModSmall

LEMMA ContentsInit == Init => ContentsInv
<1> SUFFICES ASSUME Init
             PROVE  ContentsInv
  OBVIOUS
<1>1. IInv /\ Whole
  BY InvInit DEF Init, Whole, EmptyMap
<1>2. Present = {} /\ heap = EmptyMap /\ header = NewEventHeader(0)
  BY DEF Init, Present, EmptyMap
<1>3. Total(Sizes) = 0
  <2>1. Sizes \in [{} -> Nat]
    BY <1>2 DEF Sizes
  <2> QED
    BY <2>1, TotalEmpty
<1> QED
  BY <1>1, <1>2, <1>3, NoSizes
     DEF ContentsInv, BitsAccounted, SizeAccounted, NewEventHeader, EmptyMap

LEMMA ContentsNext == ContentsInv /\ [Next]_vars => ContentsInv'
<1> SUFFICES ASSUME ContentsInv, [Next]_vars
             PROVE  ContentsInv'
  OBVIOUS
<1>1. IInv /\ IInv' /\ Whole /\ Whole'
  BY InvNext, WholeNext DEF ContentsInv, IInv
<1>2. \A o \in DOMAIN heap' : View(heap'[o]) \in Views
  BY <1>1, ViewsNext DEF ContentsInv, IInv
<1>3. CASE Quiet
  <2>1. Present' = Present /\ \A s \in Present : FragmentOf(s)' = FragmentOf(s)
    BY <1>3 DEF Quiet, Present, FragmentOf
  <2>2. Sizes' = Sizes
    BY <2>1 DEF Sizes
  <2>3. SizeAccounted'
    BY <1>3, <2>2 DEF Quiet, ContentsInv, SizeAccounted
  <2>4. BitsAccounted'
    BY <1>3, <2>1 DEF Quiet, ContentsInv, BitsAccounted
  <2>5. Present' = {} => header'.event_id = 0
    BY <1>3, <2>1 DEF Quiet, ContentsInv
  <2> QED
    BY <1>1, <1>2, <2>3, <2>4, <2>5 DEF ContentsInv
<1>4. ASSUME NEW s, NEW f, Added(s, f)
      PROVE  ContentsInv'
  <2>1. header \in EventHeaders /\ f \in FragmentObjects /\ TypeOK
    BY <1>1, <1>4 DEF IInv, TypeOK, Added
  <2>2. /\ header'.trigger_bits = header.trigger_bits \cup f.header.trigger_bits
        /\ header'.payload_size = (header.payload_size + FragmentSize(f)) % SizeModulus
    BY <1>4, <2>1, HeaderFields DEF Added
  <2>3. BitsAccounted'
    BY <1>4, <2>2 DEF Added, ContentsInv, BitsAccounted
  <2>4. SizeAccounted'
    <3>1. RawSize(f) \in Nat /\ FragmentSize(f) = RawSize(f) % SizeModulus
      <4>1. fragments'[s] \in DOMAIN heap' /\ heap'[fragments'[s]] = f
        BY <1>1, <1>4 DEF Added, IInv, TypeOK, Present, FragmentOf
      <4>2. /\ RawSize(heap'[fragments'[s]]) \in Nat
            /\ FragmentSize(heap'[fragments'[s]]) = RawSize(heap'[fragments'[s]]) % SizeModulus
        BY <1>1, <4>1, SizesNext DEF IInv, SizesAreRaw
      <4> QED
        BY <4>1, <4>2
    <3>2. Sizes' = [t \in Present \cup {s} |-> IF t = s THEN RawSize(f) ELSE Sizes[t]]
      BY <1>4 DEF Added, Sizes
    <3>3. IsFiniteSet(Present) /\ s \notin Present
      BY <1>1, <1>4 DEF IInv, Counted, Added
    <3>4. Sizes \in [Present -> Nat]
      BY <1>1, <2>1, SizesType
    <3>5. /\ Total(Sizes) \in Nat
          /\ Total(Sizes') = Total(Sizes) + RawSize(f)
      <4>1. PICK S, g, e, n : S = Present /\ g = Sizes /\ e = Sizes' /\ n = RawSize(f)
        OBVIOUS
      <4>2. /\ IsFiniteSet(S) /\ g \in [S -> Nat] /\ s \notin S /\ n \in Nat
            /\ e = [t \in S \cup {s} |-> IF t = s THEN n ELSE g[t]]
        BY <3>1, <3>2, <3>3, <3>4, <4>1
      <4>3. Total(g) \in Nat
        BY <4>2, TotalNat
      <4>4. Total(e) = Total(g) + n
        BY <4>2, TotalWith
      <4> QED
        BY <4>1, <4>3, <4>4
    <3>6. PICK T \in Nat, R \in Nat : T = Total(Sizes) /\ R = RawSize(f)
      BY <3>1, <3>5
    <3>7. ((T % SizeModulus) + (R % SizeModulus)) % SizeModulus = (T + R) % SizeModulus
      BY SizeModuli, ModSums
    <3>8. header.payload_size = T % SizeModulus
      BY <3>6 DEF ContentsInv, SizeAccounted
    <3> QED
      BY <2>2, <3>1, <3>5, <3>6, <3>7, <3>8 DEF SizeAccounted
  <2>5. Present' # {}
    BY <1>4 DEF Added
  <2> QED
    BY <1>1, <1>2, <2>3, <2>4, <2>5 DEF ContentsInv
<1>5. CASE Renew
  <2>1. Present' = {} /\ header' = NewEventHeader(0)
    BY <1>5 DEF Renew, Present, EmptyMap
  <2>2. Total(Sizes') = 0
    <3>1. Sizes' \in [{} -> Nat]
      BY <2>1 DEF Sizes
    <3> QED
      BY <3>1, TotalEmpty
  <2> QED
    BY <1>1, <1>2, <2>1, <2>2, NoSizes
       DEF ContentsInv, BitsAccounted, SizeAccounted, NewEventHeader
<1> QED
  BY <1>1, <1>3, <1>4, <1>5, Footprints DEF IInv

LEMMA FoldedSizes ==
  ASSUME NEW c, IsFiniteSet(DOMAIN c), \A s \in DOMAIN c : c[s].size \in Nat
  PROVE  Contents!MapThenSumSet(LAMBDA s : c[s].size, DOMAIN c)
           = Total([s \in DOMAIN c |-> c[s].size])
<1> DEFINE S == DOMAIN c
           f == [s \in S |-> c[s].size]
           iter[T \in SUBSET S] ==
             IF T = {} THEN 0 ELSE LET x == CHOOSE x \in T : TRUE IN c[x].size + iter[T \ {x}]
           P(g) == g = [T \in SUBSET S |->
                          IF T = {} THEN 0
                          ELSE LET x == CHOOSE x \in T : TRUE IN c[x].size + g[T \ {x}]]
<1>1. Contents!MapThenSumSet(LAMBDA s : c[s].size, S) = iter[S]
  BY Zenon DEF Contents!MapThenSumSet, Contents!MapThenFoldSet
<1>2. iter = CHOOSE g : P(g)
  BY Zenon DEF iter
<1>3. f \in [S -> Nat] /\ \A s \in S : f[s] = c[s].size
  OBVIOUS
<1>4. /\ Sums(f)[{}] = 0 /\ Sums(f) \in [SUBSET S -> Nat]
      /\ \A T \in SUBSET S : T # {} =>
           LET x == CHOOSE x \in T : TRUE
           IN  x \in T /\ Sums(f)[T] = f[x] + Sums(f)[T \ {x}]
  <2> HIDE DEF f
  <2> QED
    BY <1>3, SumsEquation
<1>5. P(Sums(f))
  <2> HIDE DEF f
  <2>1. ASSUME NEW T \in SUBSET S
        PROVE  Sums(f)[T] = IF T = {} THEN 0
                 ELSE LET x == CHOOSE x \in T : TRUE IN c[x].size + Sums(f)[T \ {x}]
    BY <1>3, <1>4
  <2> QED
    BY <1>4, <2>1
<1>6. P(iter)
  <2> HIDE DEF iter, P
  <2> QED
    BY <1>2, <1>5, Zenon
<1>7. iter[S] = Total(f)
  <2> HIDE DEF iter, f
  <2>1. iter[{}] = 0
    BY <1>6
  <2>2. ASSUME NEW T \in SUBSET S, T # {}
        PROVE  LET x == CHOOSE x \in T : TRUE IN iter[T] = f[x] + iter[T \ {x}]
    BY <1>3, <1>6, <2>2
  <2> HIDE DEF P, S
  <2> QED
    BY <1>3, <2>1, <2>2, TotalIs, ZenonT(120) DEF S
<1> QED
  BY <1>1, <1>7, Zenon

(* The summary of an event with the total in the place of the fold. *)
SummaryOf(c, fst, flags, total) ==
  LET chosen == IF TriggerSourceID \in DOMAIN c THEN {TriggerSourceID} ELSE fst
  IN  [event_id       |-> IF fst = {} THEN 0 ELSE c[CHOOSE s \in fst : TRUE].event_id,
       bc_id          |-> IF chosen = {} THEN NoBCID
                          ELSE c[CHOOSE s \in chosen : TRUE].bc_id,
       status         |-> flags \cup (IF Contents!Agree(c) THEN {} ELSE {BCIDMismatch})
                            \cup UNION {c[s].status : s \in DOMAIN c},
       trigger_bits   |-> UNION {c[s].trigger_bits : s \in DOMAIN c},
       fragment_count |-> Cardinality(DOMAIN c),
       payload_size   |-> total % SizeModulus]

LEMMA SummaryTotal ==
  ASSUME NEW c, NEW fst, NEW flags,
         IsFiniteSet(DOMAIN c), \A s \in DOMAIN c : c[s].size \in Nat
  PROVE  Contents!Summary(c, fst, flags)
           = SummaryOf(c, fst, flags, Total([s \in DOMAIN c |-> c[s].size]))
<1> DEFINE total == Contents!MapThenSumSet(LAMBDA s : c[s].size, DOMAIN c)
<1>1. Contents!Cardinality(DOMAIN c) = Cardinality(DOMAIN c)
  BY DEF Contents!Cardinality, Cardinality
<1>2. Contents!Summary(c, fst, flags) = SummaryOf(c, fst, flags, total)
  BY <1>1, Zenon DEF Contents!Summary, SummaryOf
<1>3. total = Total([s \in DOMAIN c |-> c[s].size])
  BY FoldedSizes, Zenon
<1> HIDE DEF total
<1> QED
  BY <1>2, <1>3, Zenon

(* What the refinement maps the contents and the summary to. *)
MappedContents == [s \in Present |-> View(FragmentOf(s))]

MappedSummary ==
  [event_id       |-> header.event_id,
   bc_id          |-> header.bc_id,
   status         |-> header.status,
   trigger_bits   |-> header.trigger_bits,
   fragment_count |-> header.fragment_count,
   payload_size   |-> header.payload_size]

(* fragment_count can count the fragments of all sources. *)
FewSources == IsFiniteSet(SourceIds) /\ Cardinality(SourceIds) < CountModulus

LEMMA HeaderIsSummary ==
  ASSUME FewSources, ContentsInv
  PROVE  MappedSummary = Contents!Summary(MappedContents, first, flagged)
<1> DEFINE c == MappedContents
<1>1. /\ DOMAIN c = Present
      /\ \A s \in Present : c[s] = View(FragmentOf(s))
  BY DEF MappedContents
<1> HIDE DEF c
<1>2. TypeOK /\ Whole /\ IsFiniteSet(Present) /\ Present \subseteq SourceIds
  BY DEF ContentsInv, IInv, TypeOK, Counted
<1>3. /\ Cardinality(Present) < CountModulus
      /\ CountExact
      /\ header.fragment_count = Cardinality(Present)
  <2>1. Cardinality(Present) <= Cardinality(SourceIds)
    BY <1>2, FS_Subset DEF FewSources
  <2>2. Cardinality(Present) \in Nat /\ Cardinality(SourceIds) \in Nat
    BY <1>2, FS_CardinalityType DEF FewSources
  <2> QED
    BY <2>1, <2>2, SizesAssumption DEF FewSources, ContentsInv, IInv, Counted, CountExact
<1>4. Identity /\ Mismatch
  BY <1>3 DEF ContentsInv, IInv, IdentityFromFragments, Identity, MismatchIffDisagree, Mismatch
<1>5. \A s \in Present : /\ c[s].event_id = FragmentOf(s).header.event_id
                         /\ c[s].bc_id = FragmentOf(s).header.bc_id
                         /\ c[s].status = FragmentOf(s).header.status
                         /\ c[s].trigger_bits = FragmentOf(s).header.trigger_bits
                         /\ c[s].size = RawSize(FragmentOf(s))
  BY <1>1 DEF View, RawSize
<1>6. [s \in DOMAIN c |-> c[s].size] = Sizes
  BY <1>1, <1>5 DEF Sizes
<1>7. Contents!Summary(c, first, flagged) = SummaryOf(c, first, flagged, Total(Sizes))
  <2>1. \A s \in DOMAIN c : c[s].size \in Nat
    BY <1>1, <1>2, <1>5, SizesType DEF Sizes
  <2> QED
    BY <1>1, <1>2, <1>6, <2>1, SummaryTotal
<1>8. header.trigger_bits = UNION {c[s].trigger_bits : s \in DOMAIN c}
  BY <1>1, <1>5 DEF ContentsInv, BitsAccounted
<1>9. header.status = flagged \cup (IF Contents!Agree(c) THEN {} ELSE {BCIDMismatch})
                        \cup UNION {c[s].status : s \in DOMAIN c}
  <2>1. Brought = UNION {c[s].status : s \in DOMAIN c}
    BY <1>1, <1>5 DEF Brought
  <2>2. Contents!Agree(c) <=> ~Disagree
    BY <1>1, <1>5 DEF Contents!Agree, Disagree
  <2>3. /\ flagged \cup Brought \subseteq header.status
        /\ header.status \subseteq flagged \cup Brought \cup {BCIDMismatch}
    BY DEF ContentsInv, IInv, StatusAccounted, Brought
  <2>4. BCIDMismatch \in header.status <=>
          Disagree \/ BCIDMismatch \in flagged \/ BCIDMismatch \in Brought
    BY <1>4 DEF Mismatch, Brought
  <2> QED
    BY <2>1, <2>2, <2>3, <2>4
<1>10. \A s \in first : s \in Present
  BY <1>2 DEF TypeOK
<1>11. header.event_id = IF first = {} THEN 0 ELSE c[CHOOSE s \in first : TRUE].event_id
  BY <1>4, <1>5, <1>10 DEF Identity, ContentsInv
<1>12. LET chosen == IF TriggerSourceID \in DOMAIN c THEN {TriggerSourceID} ELSE first
       IN  header.bc_id = IF chosen = {} THEN NoBCID ELSE c[CHOOSE s \in chosen : TRUE].bc_id
  BY <1>1, <1>4, <1>5, <1>10 DEF Identity
<1>13. MappedSummary = SummaryOf(c, first, flagged, Total(Sizes))
  <2>1. header.payload_size = Total(Sizes) % SizeModulus
    BY DEF ContentsInv, SizeAccounted
  <2> QED
    BY <1>1, <1>3, <1>8, <1>9, <1>11, <1>12, <2>1 DEF MappedSummary, SummaryOf
<1> QED
  BY <1>7, <1>13 DEF c

(* A step of the event is a step of EventContents, or none. *)
LEMMA ContentsStep ==
  ASSUME ContentsInv, ContentsInv', [Next]_vars,
         MappedSummary = Contents!Summary(MappedContents, first, flagged),
         MappedSummary' = Contents!Summary(MappedContents', first', flagged')
  PROVE  [Contents!Next]_<<MappedContents, first, flagged, MappedSummary>>
<1>1. TypeOK /\ Unshared
  BY DEF ContentsInv, IInv
<1>2. CASE Quiet
  <2>1. MappedContents' = MappedContents /\ first' = first
    BY <1>2 DEF Quiet, MappedContents, Present, FragmentOf
  <2>2. PICK st \in Statuses \cup {{}} : flagged' = flagged \cup st
    BY <1>2 DEF Quiet
  <2>3. CASE st \in Statuses
    <3>1. Contents!Flag(st)
      BY <2>1, <2>2 DEF Contents!Flag, MappedContents, MappedSummary
    <3> QED
      BY <2>3, <3>1 DEF Contents!Next
  <2>4. CASE st = {}
    <3>1. flagged' = flagged
      BY <2>2, <2>4
    <3> QED
      BY <2>1, <3>1
  <2> QED
    BY <2>2, <2>3, <2>4
<1>3. ASSUME NEW s, NEW f, Added(s, f)
      PROVE  Contents!Next
  <2>1. s \in SourceIds /\ s \notin Present
    BY <1>3 DEF Added
  <2>2. View(f) \in Views
    <3>1. fragments'[s] \in DOMAIN heap' /\ heap'[fragments'[s]] = f
      BY <1>3 DEF Added, ContentsInv, IInv, TypeOK, Present, FragmentOf
    <3> QED
      BY <3>1 DEF ContentsInv
  <2>3. Contents!Add(s, View(f))
    <3>1. /\ DOMAIN MappedContents = Present
          /\ \A t \in Present : MappedContents[t] = View(FragmentOf(t))
          /\ MappedContents = Contents!EmptyMap <=> Present = {}
      BY DEF MappedContents, Contents!EmptyMap
    <3>2. MappedContents' = [t \in Present \cup {s} |-> IF t = s THEN View(f) ELSE MappedContents[t]]
      BY <1>3 DEF Added, MappedContents
    <3>3. /\ first' = IF MappedContents = Contents!EmptyMap THEN {s} ELSE first
          /\ flagged' = flagged
      BY <1>3, <3>1 DEF Added
    <3>4. MappedSummary' = Contents!Summary(MappedContents', first', flagged)
      BY <3>3
    <3> QED
      BY <2>1, <3>1, <3>2, <3>3, <3>4 DEF Contents!Add, MappedContents, MappedSummary
  <2> QED
    BY <2>1, <2>2, <2>3 DEF Contents!Next
<1>4. CASE Renew
  <2>1. MappedContents' = Contents!EmptyMap /\ first' = {} /\ flagged' = {}
    BY <1>4 DEF Renew, MappedContents, Present, EmptyMap, Contents!EmptyMap
  <2>2. Contents!Reset
    BY <2>1 DEF Contents!Reset, MappedContents, MappedSummary
  <2> QED
    BY <2>2 DEF Contents!Next
<1> QED
  BY <1>1, <1>2, <1>3, <1>4, Footprints

(* Whatever is added in whatever order, the header says of the fragments   *)
(* in the event what EventContents computes from them from scratch, as     *)
(* long as there are no more sources than fragment_count can count.        *)
THEOREM ContentsImplemented == ASSUME FewSources PROVE Spec => ImplementsContents
<1>1. ContentsInv => MappedSummary = Contents!Summary(MappedContents, first, flagged)
  BY HeaderIsSummary
<1>2. Init => Contents!Init
  <2> SUFFICES ASSUME Init
               PROVE  Contents!Init
    OBVIOUS
  <2>1. MappedSummary = Contents!Summary(MappedContents, first, flagged)
    BY <1>1, ContentsInit
  <2>2. MappedContents = Contents!EmptyMap
    BY DEF Init, MappedContents, Present, EmptyMap, Contents!EmptyMap
  <2> QED
    BY <2>1, <2>2 DEF Init, Contents!Init, MappedContents, MappedSummary
<1>3. (ContentsInv => MappedSummary = Contents!Summary(MappedContents, first, flagged))'
  BY <1>1, PTL
<1>4. ContentsInv /\ ContentsInv' /\ [Next]_vars => [Contents!Next]_(Contents!vars)
  BY <1>1, <1>3, ContentsStep DEF Contents!vars, MappedContents, MappedSummary
<1> QED
  BY <1>2, <1>4, ContentsInit, ContentsNext, PTL DEF Spec, ImplementsContents, Contents!Spec

-------------------------------------------------------------------------------
(* What raw() returns. *)

LEMMA ContentsAlways == Spec => []ContentsInv
BY ContentsInit, ContentsNext, PTL DEF Spec

AllHeaders == FragmentHeaders \cup EventHeaders

LEMMA TotalSizes ==
  ASSUME ContentsInv
  PROVE  Total(Sizes) \in Nat
<1>1. IsFiniteSet(Present) /\ Sizes \in [Present -> Nat]
  BY SizesType DEF ContentsInv, IInv, Counted
<1> QED
  BY <1>1, TotalNat

(* A built event starts with its header. *)
LEMMA HeadOfRaw ==
  ASSUME NEW H, NEW e, WrittenEvent(e, H)
  PROVE  Head(RawEvent(e)).header = e.header
<1>1. PICK flat, N : RawIs(e, flat, N, H)
  BY RawOfWrittenEvent
<1>2. EventHeaderSize \in Nat \ {0} /\ e.header \in H
  BY SizesAssumption DEF WrittenEvent
<1>3. PICK D, s, t : D = Cells(H) /\ s = HeaderBytes(e.header, EventHeaderSize) /\ t = flat[N]
  OBVIOUS
<1>4. s \in Seq(D) /\ Len(s) = EventHeaderSize /\ s[1] = [kind |-> "header", header |-> e.header]
  BY <1>2, <1>3, HeaderCells
<1>5. t \in Seq(D) /\ RawEvent(e) = s \o t
  BY <1>1, <1>3 DEF RawIs, IsFlattening
<1>6. (s \o t) \in Seq(D) /\ Len(s \o t) # 0 /\ (s \o t)[1] = s[1]
  BY <1>2, <1>4, <1>5, Concatenated
<1>7. Head(s \o t) = (s \o t)[1]
  BY <1>6
<1> QED
  BY <1>4, <1>5, <1>6, <1>7

LEMMA EventIsWritten ==
  ASSUME ContentsInv
  PROVE  /\ WrittenEvent(Event, AllHeaders)
         /\ FragmentSizes(Event) = Sizes
         /\ DOMAIN Event.fragments = Present /\ Event.header = header
<1>1. TypeOK /\ IsFiniteSet(Present)
  BY DEF ContentsInv, IInv, Counted
<1>2. /\ DOMAIN Event.fragments = Present /\ Event.header = header
      /\ Event = [header |-> Event.header, fragments |-> Event.fragments]
      /\ \A s \in Present : Event.fragments[s] = FragmentOf(s)
      /\ Event.fragments = [s \in Present |-> Event.fragments[s]]
  BY DEF Event
<1>3. ASSUME NEW s \in Present
      PROVE  Written(FragmentOf(s), AllHeaders) /\ FragmentOf(s).header.source_id = s
  <2>1. FragmentOf(s) \in FragmentObjects /\ fragments[s] \in DOMAIN heap
    BY <1>1 DEF TypeOK, FragmentOf, FragmentObjects
  <2>2. PICK f : f = FragmentOf(s)
    OBVIOUS
  <2>3. f \in FragmentObjects /\ f.header.payload_size = Len(f.payload) % SizeModulus
    BY <2>1, <2>2 DEF ContentsInv, Whole, FragmentOf
  <2>4. f.payload \in Seq(Cells(AllHeaders))
    <3>1. f.payload \in Seq(DataBytes)
      BY <2>3, BuildingAssumption DEF FragmentObjects
    <3>2. DataBytes \subseteq Cells(AllHeaders)
      BY DEF Cells
    <3> QED
      BY <3>1, <3>2, SeqMonotonic
  <2>5. f.header \in FragmentHeaders /\ f = [header |-> f.header, payload |-> f.payload]
    BY <2>3 DEF FragmentObjects
  <2>6. f.header \in AllHeaders
    BY <2>5 DEF AllHeaders
  <2>7. f \in [header : AllHeaders, payload : Seq(Cells(AllHeaders))]
    BY <2>4, <2>5, <2>6
  <2>8. /\ f.header.marker = FragmentMarker
        /\ f.header.version_number = FragmentVersionLatest
        /\ f.header.header_size = FragmentHeaderSize
    BY <2>5 DEF FragmentHeaders
  <2>9. Written(f, AllHeaders)
    BY <2>3, <2>7, <2>8 DEF Written
  <2> QED
    BY <1>1, <2>2, <2>9 DEF TypeOK
<1>4. /\ header \in AllHeaders /\ header.marker = EventMarker
      /\ header.version_number = EventVersionLatest /\ header.header_size = EventHeaderSize
  BY <1>1 DEF TypeOK, EventHeaders, AllHeaders
<1>5. Present \subseteq Int
  BY <1>1, BuildingAssumption DEF TypeOK
<1>6. WrittenEvent(Event, AllHeaders)
  BY <1>1, <1>2, <1>3, <1>4, <1>5 DEF WrittenEvent
<1>7. FragmentSizes(Event) = Sizes
  BY <1>2 DEF FragmentSizes, Sizes
<1> QED
  BY <1>2, <1>6, <1>7

(* Whatever was added, refused or set, size() is the length of what raw()  *)
(* returns in 32 bits, for any sizes of headers and payloads, even after   *)
(* fragment_count or the sum of the sizes has wrapped.                     *)
THEOREM SizeCorrect == Spec => []SizeIsRawLength
<1>1. ASSUME ContentsInv
      PROVE  SizeIsRawLength
  <2>1. WrittenEvent(Event, AllHeaders) /\ FragmentSizes(Event) = Sizes /\ Event.header = header
    BY <1>1, EventIsWritten
  <2>2. PICK T \in Nat : T = Total(Sizes)
    BY <1>1, TotalSizes
  <2>3. Len(RawEvent(Event)) = EventHeaderSize + T
    BY <2>1, <2>2, LengthOfRaw
  <2>4. header.payload_size = T % SizeModulus /\ header.header_size = EventHeaderSize
    BY <1>1, <2>2 DEF ContentsInv, SizeAccounted, IInv, TypeOK, EventHeaders
  <2>5. EventHeaderSize \in Nat
    BY SizesAssumption
  <2>6. (EventHeaderSize + (T % SizeModulus)) % SizeModulus = (EventHeaderSize + T) % SizeModulus
    BY <2>5, SizeModuli, ModPlus
  <2> QED
    BY <2>1, <2>3, <2>4, <2>6 DEF SizeIsRawLength, EventSize
<1>2. ContentsInv => SizeIsRawLength
  BY <1>1
<1> QED
  BY <1>2, ContentsAlways, PTL

(* Both constructors read back what raw() returns of any event that was    *)
(* built, unless fragment_count wrapped or its bytes are more than 32 bits *)
(* count; the file's refuses an event whose payload is over its limit.     *)
THEOREM RoundTripCorrect == Spec => []RoundTrip
<1>1. ASSUME ContentsInv
      PROVE  RoundTrip
  <2> SUFFICES ASSUME Cardinality(Present) < CountModulus, Len(RawEvent(Event)) < SizeModulus
               PROVE  /\ EventsOfBytes(RawEvent(Event)) = {Event}
                      /\ IF header.payload_size <= MaxFilePayload
                         THEN /\ EventsOfStream(RawEvent(Event)) = {Event}
                              /\ StreamRest(RawEvent(Event)) = <<>>
                         ELSE EventsOfStream(RawEvent(Event)) = {}
    BY DEF RoundTrip
  <2>1. /\ WrittenEvent(Event, AllHeaders) /\ FragmentSizes(Event) = Sizes
        /\ DOMAIN Event.fragments = Present /\ Event.header = header
    BY <1>1, EventIsWritten
  <2>2. HeaderFits(Event)
    <3>1. header.fragment_count = Cardinality(Present)
      BY <1>1 DEF ContentsInv, IInv, Counted
    <3>2. PICK T \in Nat : T = Total(Sizes)
      BY <1>1, TotalSizes
    <3>3. Len(RawEvent(Event)) = EventHeaderSize + T
      BY <2>1, <3>2, LengthOfRaw
    <3>4. T < SizeModulus
      <4>1. EventHeaderSize \in Nat /\ SizeModulus \in Nat
        BY SizesAssumption
      <4> QED
        BY <3>3, <4>1
    <3>5. T % SizeModulus = T
      BY <3>4, SizeModuli, ModSmall
    <3>6. header.payload_size = T
      BY <1>1, <3>2, <3>5 DEF ContentsInv, SizeAccounted
    <3> QED
      BY <2>1, <3>1, <3>2, <3>4, <3>6 DEF HeaderFits
  <2>3. RawEvent(Event) \in Seq(Cells(AllHeaders))
    BY <2>1, LengthOfRaw
  <2>4. RawEvent(Event) \o <<>> = RawEvent(Event) /\ <<>> \in Seq(Cells(AllHeaders))
    BY <2>3, ConcatEmptySeq
  <2>5. PICK rest : rest = <<>>
    OBVIOUS
  <2>6. /\ EventsOfBytes(RawEvent(Event)) = {Event}
        /\ Event.header.payload_size <= MaxFilePayload =>
             /\ EventsOfStream(RawEvent(Event) \o rest) = {Event}
             /\ StreamRest(RawEvent(Event) \o rest) = rest
    <3>1. PICK H, e : H = AllHeaders /\ e = Event
      OBVIOUS
    <3>2. WrittenEvent(e, H) /\ HeaderFits(e) /\ rest \in Seq(Cells(H))
      BY <2>1, <2>2, <2>4, <2>5, <3>1
    <3>3. ReadsBack(e, rest)
      BY <3>2, ReadBack
    <3> QED
      BY <3>1, <3>3 DEF ReadsBack
  <2>7. ASSUME ~(header.payload_size <= MaxFilePayload)
        PROVE  EventsOfStream(RawEvent(Event)) = {}
    <3>1. Head(RawEvent(Event)).header = header
      BY <2>1, HeadOfRaw
    <3> QED
      BY <2>7, <3>1 DEF EventsOfStream, PayloadRead
  <2> QED
    BY <2>1, <2>4, <2>5, <2>6, <2>7
<1>2. ContentsInv => RoundTrip
  BY <1>1
<1> QED
  BY <1>2, ContentsAlways, PTL

===============================================================================

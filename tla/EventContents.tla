----------------------------- MODULE EventContents -----------------------------
(***************************************************************************)
(* What an event under construction promises its readers: its header is a  *)
(* function of the set of fragments in it, of which one came first, and of *)
(* the flags added by hand; the order of the other additions plays no      *)
(* part.  EventBuilding computes the same header one addition at a time.   *)
(***************************************************************************)
EXTENDS Integers, FiniteSets, FiniteSetsExt

CONSTANTS
  SourceIds,        \* source ids of fragments
  Fragments,        \* what a fragment says: event_id, bc_id, status, trigger_bits, size
  Flags,            \* sets of flags the builder may add
  Trigger,          \* the source whose bc_id is authoritative
  Mismatch,         \* the flag that says that fragments disagree
  NoBCID,           \* the bc_id of an empty event
  SizeModulus       \* sizes are summed modulo this

VARIABLES
  contents,   \* function from source id to the fragment of that source
  first,      \* {the source added first}, {} if none
  flagged,    \* flags added by hand
  summary     \* what the header of the event says

vars == <<contents, first, flagged, summary>>

EmptyMap == [x \in {} |-> x]

Agree(c) == \A s, t \in DOMAIN c : c[s].bc_id = c[t].bc_id

(* The summary of an event, from scratch. *)
Summary(c, fst, flags) ==
  LET chosen == IF Trigger \in DOMAIN c THEN {Trigger} ELSE fst
  IN  [event_id       |-> IF fst = {} THEN 0 ELSE c[CHOOSE s \in fst : TRUE].event_id,
       bc_id          |-> IF chosen = {} THEN NoBCID
                          ELSE c[CHOOSE s \in chosen : TRUE].bc_id,
       status         |-> flags \cup (IF Agree(c) THEN {} ELSE {Mismatch})
                            \cup UNION {c[s].status : s \in DOMAIN c},
       trigger_bits   |-> UNION {c[s].trigger_bits : s \in DOMAIN c},
       fragment_count |-> Cardinality(DOMAIN c),
       payload_size   |-> MapThenSumSet(LAMBDA s : c[s].size, DOMAIN c) % SizeModulus]

Init ==
  /\ contents = EmptyMap
  /\ first = {}
  /\ flagged = {}
  /\ summary = Summary(contents, first, flagged)

Add(s, f) ==
  /\ s \notin DOMAIN contents
  /\ contents' = [t \in DOMAIN contents \cup {s} |-> IF t = s THEN f ELSE contents[t]]
  /\ first' = IF contents = EmptyMap THEN {s} ELSE first
  /\ summary' = Summary(contents', first', flagged)
  /\ UNCHANGED flagged

Flag(flags) ==
  /\ flagged' = flagged \cup flags
  /\ summary' = Summary(contents, first, flagged')
  /\ UNCHANGED <<contents, first>>

Reset ==
  /\ contents' = EmptyMap
  /\ first' = {}
  /\ flagged' = {}
  /\ summary' = Summary(contents', first', flagged')

Next ==
  \/ \E s \in SourceIds, f \in Fragments : Add(s, f)
  \/ \E flags \in Flags : Flag(flags)
  \/ Reset

Spec == Init /\ [][Next]_vars

===============================================================================

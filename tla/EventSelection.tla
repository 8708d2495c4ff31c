---------------------------- MODULE EventSelection ----------------------------
(***************************************************************************)
(* What eventFilter promises, in terms of events and not of bytes: it goes *)
(* once through the events of the input, in order, and adds those wanted   *)
(* to the output, until the limit or the end of the input; an input that   *)
(* ends in something that is no event makes it fail after the last event.  *)
(***************************************************************************)
EXTENDS Integers, Sequences

CONSTANTS
  Wanted(_, _),   \* Wanted(options, event): the options ask for the event
  Limit(_),       \* most events to write, 0 for no limit
  Keeps(_)        \* the options ask to append to the output

VARIABLES
  options,        \* what the command line asks for
  todo,           \* events of the input not dealt with
  damaged,        \* whether something that is no event follows them
  written,        \* events in the output
  count,          \* how many of them this run wrote
  result          \* "idle", "running", "done" or "failed"

vars == <<options, todo, damaged, written, count, result>>

Init ==
  /\ count = 0
  /\ result = "idle"

Start ==
  /\ result = "idle"
  /\ \/ result' = "running" /\ written' = IF Keeps(options) THEN written ELSE <<>>
     \/ result' = "failed" /\ UNCHANGED written
  /\ UNCHANGED <<options, todo, damaged, count>>

Take ==
  /\ result = "running" /\ todo # <<>>
  /\ Wanted(options, Head(todo))
  /\ todo' = Tail(todo)
  /\ written' = Append(written, Head(todo))
  /\ count' = count + 1
  /\ result' = IF count' = Limit(options) THEN "done" ELSE "running"
  /\ UNCHANGED <<options, damaged>>

Pass ==
  /\ result = "running" /\ todo # <<>>
  /\ ~Wanted(options, Head(todo))
  /\ todo' = Tail(todo)
  /\ UNCHANGED <<options, damaged, written, count, result>>

Finish ==
  /\ result = "running" /\ todo = <<>>
  /\ result' = IF damaged THEN "failed" ELSE "done"
  /\ UNCHANGED <<options, todo, damaged, written, count>>

Next == Start \/ Take \/ Pass \/ Finish

Spec == Init /\ [][Next]_vars

===============================================================================

-------------------------------- MODULE Import --------------------------------
(***************************************************************************)
(* What a context promises its caller about importing objects, whatever    *)
(* the order of the uuids and whatever the document: objects become done   *)
(* only after everything they refer to, nothing that is done is ever       *)
(* undone or forgotten except by clearing the context, and an import       *)
(* succeeds only when everything the context holds is done.                *)
(***************************************************************************)
CONSTANTS
  Ids,    \* names of objects
  Nil,    \* no object
  Deps    \* [Ids -> SUBSET Ids]: what must be done before an object is

VARIABLES
  known,   \* objects the context holds
  done,    \* those that are ready for use
  root,    \* what the last import was asked for
  phase,   \* idle | running | dead
  result   \* of the last import: none | ok | error

vars == <<known, done, root, phase, result>>

Closed(S) == \A i \in S : Deps[i] \subseteq S

Init ==
  /\ known = {} /\ done = {} /\ root = Nil
  /\ phase = "idle" /\ result = "none"

(* The caller imports a document; one that is no document at all is        *)
(* rejected at once.                                                       *)
Call ==
  /\ phase = "idle"
  /\ root' \in Ids \cup {Nil}
  /\ \/ phase' = "running" /\ result' = "none"
     \/ phase' = "idle" /\ result' = "error"
  /\ UNCHANGED <<known, done>>

Grow ==
  /\ phase = "running"
  /\ known \subseteq known' /\ known' \subseteq Ids
  /\ done \subseteq done' /\ done' \subseteq known'
  /\ Closed(done')
  /\ UNCHANGED root

Work == Grow /\ UNCHANGED <<phase, result>>
Fail == Grow /\ phase' = "idle" /\ result' = "error"
Die  == Grow /\ phase' = "dead" /\ UNCHANGED result

Succeed ==
  /\ phase = "running"
  /\ done = known /\ root \in done
  /\ phase' = "idle" /\ result' = "ok"
  /\ UNCHANGED <<known, done, root>>

Forget ==
  /\ phase = "idle"
  /\ known' = {} /\ done' = {} /\ result' = "none"
  /\ UNCHANGED <<root, phase>>

(* Forgetting what a failed import left may end the program.               *)
Crash ==
  /\ phase = "idle" /\ known # {}
  /\ phase' = "dead"
  /\ UNCHANGED <<known, done, root, result>>

Next == Call \/ Work \/ Fail \/ Die \/ Succeed \/ Forget \/ Crash

Spec == Init /\ [][Next]_vars
=============================================================================

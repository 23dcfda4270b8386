------------------------------ MODULE TagPool -------------------------------
(***************************************************************************)
(* process_all_tags and main of gen_insn_text_funcs.py: a pool of          *)
(* processes generates the functions, which are collected in the order in  *)
(* which they are finished and written in the order of the instructions.   *)
(***************************************************************************)
EXTENDS Integers, Sequences, FiniteSets

CONSTANTS TagLists,    \* the lists of instructions
          Body(_),     \* gen_insn_text_func, the text of an instruction's function
          Workers,     \* max_workers
          NoFile

ASSUME TagListsAssumption ==
    \A list \in TagLists : /\ Len(list) \in Nat /\ DOMAIN list = 1 .. Len(list)
                            /\ \A j, k \in DOMAIN list : list[j] = list[k] => j = k
ASSUME WorkersAssumption  == Workers \in Nat \ {0}

NoBody == ""           \* ''

VARIABLES tags, empty, bad,  \* the instructions, those without a behaviour string, and those
                             \* whose function cannot be generated: it does not parse, or an
                             \* assertion fails
          i,                 \* the instruction to submit next
          pending, running,  \* futures: submitted, picked by a process,
          finished, failed,  \* finished and not yet collected; those that hold an exception
          broken,            \* whether a process has died
          tag_to_fbody,
          pc, file

futures == <<pending, running, finished, failed, broken>>
vars == <<tags, empty, bad, i, futures, tag_to_fbody, pc, file>>

All == {tags[j] : j \in DOMAIN tags}

Init ==
    /\ tags \in TagLists
    /\ empty \in SUBSET All
    /\ bad \in SUBSET All
    /\ i = 1
    /\ pending = {} /\ running = {} /\ finished = {} /\ failed = {}
    /\ broken = FALSE
    /\ tag_to_fbody = [t \in All |-> NoBody]
    /\ pc = "submit"
    /\ file = NoFile

\* executor.submit, for each instruction that has a behaviour string.
Submit ==
    /\ pc = "submit" /\ i <= Len(tags) /\ (~broken \/ tags[i] \in empty)
    /\ i' = i + 1
    /\ pending' = IF tags[i] \in empty THEN pending ELSE pending \cup {tags[i]}
    /\ UNCHANGED <<tags, empty, bad, running, finished, failed, broken, tag_to_fbody, pc, file>>

\* The pool refuses more work once a process has died.
SubmitBroken ==
    /\ pc = "submit" /\ i <= Len(tags) /\ broken /\ tags[i] \notin empty
    /\ pc' = "raising"
    /\ UNCHANGED <<tags, empty, bad, i, futures, tag_to_fbody, file>>

Collect ==
    /\ pc = "submit" /\ i > Len(tags)
    /\ pc' = "collect"
    /\ UNCHANGED <<tags, empty, bad, i, futures, tag_to_fbody, file>>

\* Deliberately wrong variant: a process for every future.
StartUnbounded(t) ==
    /\ t \in pending
    /\ pending' = pending \ {t}
    /\ running' = running \cup {t}
    /\ UNCHANGED <<tags, empty, bad, i, finished, failed, broken, tag_to_fbody, pc, file>>

\* The pool.
Start(t) ==
    /\ t \in pending /\ Cardinality(running) < Workers
    /\ pending' = pending \ {t}
    /\ running' = running \cup {t}
    /\ UNCHANGED <<tags, empty, bad, i, finished, failed, broken, tag_to_fbody, pc, file>>

Finish(t) ==
    /\ t \in running
    /\ running' = running \ {t}
    /\ finished' = finished \cup {t}
    /\ failed' = IF t \in bad THEN failed \cup {t} ELSE failed
    /\ UNCHANGED <<tags, empty, bad, i, pending, broken, tag_to_fbody, pc, file>>

\* A process dies: nothing that is not finished will be.
Crash ==
    /\ ~broken /\ pc \in {"submit", "collect", "raising"}
    /\ broken' = TRUE
    /\ pending' = {} /\ running' = {}
    /\ finished' = finished \cup pending \cup running
    /\ failed' = failed \cup pending \cup running
    /\ UNCHANGED <<tags, empty, bad, i, tag_to_fbody, pc, file>>

\* as_completed: futures come in any order.  future.result() raises what the process did.
Take(t) ==
    /\ pc = "collect" /\ t \in finished \ failed
    /\ finished' = finished \ {t}
    /\ tag_to_fbody' = [tag_to_fbody EXCEPT ![t] = Body(t)]
    /\ UNCHANGED <<tags, empty, bad, i, pending, running, failed, broken, pc, file>>

\* Deliberately wrong variant: the script catches the exception and waits for a result.
TakeFailedAgain(t) ==
    /\ pc = "collect" /\ t \in finished \cap failed
    /\ pending' = pending \cup {t}
    /\ finished' = finished \ {t}
    /\ failed' = failed \ {t}
    /\ UNCHANGED <<tags, empty, bad, i, running, broken, tag_to_fbody, pc, file>>

TakeFailed(t) ==
    /\ pc = "collect" /\ t \in finished \cap failed
    /\ finished' = finished \ {t}
    /\ pc' = "raising"
    /\ UNCHANGED <<tags, empty, bad, i, pending, running, failed, broken, tag_to_fbody, file>>

\* The end of the with statement waits for the pool, even when an exception is on its way.
Raise ==
    /\ pc = "raising" /\ pending = {} /\ running = {}
    /\ pc' = "raised"
    /\ UNCHANGED <<tags, empty, bad, i, futures, tag_to_fbody, file>>

Functions == [j \in DOMAIN tags |-> [tag |-> tags[j], body |-> tag_to_fbody[tags[j]]]]

\* Deliberately wrong variant: the file is written when the pool is idle, collected or not.
WriteEarly ==
    /\ pc = "collect" /\ pending = {} /\ running = {}
    /\ pc' = "done"
    /\ file' = IF empty = {} THEN Functions ELSE file
    /\ UNCHANGED <<tags, empty, bad, i, futures, tag_to_fbody>>

\* main: the functions, then the table.  It returns at an instruction without a behaviour
\* string before the file is opened.
Write ==
    /\ pc = "collect" /\ pending = {} /\ running = {} /\ finished = {}
    /\ pc' = "done"
    /\ file' = IF empty = {} THEN Functions ELSE file
    /\ UNCHANGED <<tags, empty, bad, i, futures, tag_to_fbody>>

Pool == \E t \in All : Start(t) \/ Finish(t)
Main == Submit \/ SubmitBroken \/ Collect \/ (\E t \in All : Take(t) \/ TakeFailed(t)) \/ Raise \/ Write
Next == Pool \/ Main \/ Crash

Spec     == Init /\ [][Next]_vars
\* The processes work, and the script goes on as long as it is not waiting for them.
FairSpec == Spec /\ WF_vars(Pool) /\ WF_vars(Main)

-----------------------------------------------------------------------------
(* Properties.                                                             *)

\* A future is in one place, only submitted ones are, and no more run than there are
\* processes; a file is written once, at the end.
Submitted == {tags[j] : j \in {k \in DOMAIN tags : k < i}} \ empty
TypeOK ==
    /\ i \in 1 .. Len(tags) + 1
    /\ Cardinality(running) <= Workers
    /\ pending \cap running = {} /\ pending \cap finished = {} /\ running \cap finished = {}
    /\ pending \cup running \cup finished \cup failed \subseteq Submitted
    /\ broken \in BOOLEAN
    /\ pc \in {"submit", "collect", "raising", "raised", "done"}
    /\ file # NoFile => pc = "done"

\* The pool does not show: in whatever order functions are finished, the file is the one
\* that generating them one after another would write, and it is written unless an
\* exception stops the script or an instruction has no behaviour string
\* (process_all_tags, gen_insn_text_funcs.py:605-621; main, 624-674).
Generated == INSTANCE Generation WITH status <- IF pc \in {"raised", "done"} THEN pc ELSE "busy"
Implements == Generated!Spec

\* The script ends, whatever raises and even if a process dies (the with statement of
\* process_all_tags, gen_insn_text_funcs.py:605-621).
Ends == <>(pc \in {"raised", "done"})
=============================================================================

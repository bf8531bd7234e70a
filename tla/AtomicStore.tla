----------------------------- MODULE AtomicStore -----------------------------
(***************************************************************************)
(* What the store promises its callers, without connections, autocommit,   *)
(* probes or drivers: a call that writes ends in one of two ways.  Either   *)
(* all its statements enter the database in one step, and it returns; or   *)
(* it raises, and none of them is ever there.  The calls of a thread take   *)
(* effect in the order in which it makes them, and what is committed stays. *)
(* The other modules take a transaction, a merge and a statement of its own *)
(* for one step: this is what they rely on.                                 *)
(*                                                                         *)
(* Excused are calls that were not left to themselves; a call cannot become *)
(* one once it is over.                                                     *)
(***************************************************************************)
EXTENDS Naturals

CONSTANTS Threads,   \* who calls
          MaxCalls,  \* calls of each thread
          Bodies     \* how many statements the body of a call may have

VARIABLES db,        \* the writes that are committed
          returned,  \* the writes of the calls that returned
          raised,    \* the writes of the calls that raised
          excused    \* the calls of which nothing is promised

vars == <<db, returned, raised, excused>>

Calls == Threads \X (1..MaxCalls)

\* The first k writes of a call, in the order of its statements.
First(c, k) == {<<c[1], c[2], i>> : i \in 1..k}

Longest == 3

Init == db = {} /\ returned = {} /\ raised = {} /\ excused = {}

\* The writes of a call among others, and those that a step adds.
Own(c, S) == {w \in S : w[1] = c[1] /\ w[2] = c[2]}
Gains(c, before, after, new) == Own(c, after) = Own(c, before) \cup new
Keeps(c, before, after)      == Gains(c, before, after, {})

Stay(c) == Keeps(c, db, db') /\ Keeps(c, returned, returned') /\ Keeps(c, raised, raised')

\* Nothing of this call, nor of a later one of its thread, has taken effect.
Fresh(c) == \A w \in db \cup raised : w[1] = c[1] => w[2] < c[2]

\* A statement of its own is committed with its answer.
Execute(c) ==
  /\ Fresh(c)
  /\ Gains(c, db, db', First(c, 1)) /\ Gains(c, returned, returned', First(c, 1))
  /\ Keeps(c, raised, raised')

Commit(c) ==
  /\ Fresh(c)
  /\ \E k \in Bodies : Gains(c, db, db', First(c, k))
  /\ Keeps(c, returned, returned') /\ Keeps(c, raised, raised')

\* What a call returns for is all that is committed of it.
Return(c) ==
  /\ Own(c, db) # {} /\ Own(c, returned) = {}
  /\ Gains(c, returned, returned', Own(c, db))
  /\ Keeps(c, db, db') /\ Keeps(c, raised, raised')

Raise(c) ==
  /\ Fresh(c)
  /\ \E k \in 1..Longest : Gains(c, raised, raised', First(c, k))
  /\ Keeps(c, db, db') /\ Keeps(c, returned, returned')

Excuse == /\ excused \subseteq excused'
          /\ \A c \in excused' \ excused : Own(c, returned \cup raised) = {}

\* One call at a time takes effect, and excused ones with it.
Next == /\ Excuse /\ db \subseteq db'
        /\ \E c \in Calls :
             /\ c \in excused' \/ Execute(c) \/ Commit(c) \/ Return(c) \/ Raise(c) \/ Stay(c)
             /\ \A d \in Calls \ (excused' \cup {c}) : Stay(d)

Spec == Init /\ [][Next]_vars
=============================================================================

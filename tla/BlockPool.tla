----------------------------- MODULE BlockPool -----------------------------
(***************************************************************************)
(* What whoever is given KV-cache blocks relies on: the pool gives a block *)
(* out as it pleases, but takes it back only when no launched step and no  *)
(* out-of-band load will touch it any more.  How the scheduler knows when  *)
(* that is (sequence numbers, stamps, fences) does not appear here.        *)
(*                                                                         *)
(* BlockFence implements this specification.                               *)
(***************************************************************************)
EXTENDS Sequences, Naturals

CONSTANT Blocks

VARIABLES
  pool,   \* blocks nobody has
  steps,  \* FIFO of launched steps: the blocks each writes, and copies from
  loading \* blocks that loads are filling

touched == UNION {steps[i].writes \cup steps[i].copies : i \in DOMAIN steps}

Init == pool = Blocks /\ steps = <<>> /\ loading = {}

\* Blocks come back, none of which anybody will touch.
GivenBack == /\ pool \subseteq pool'
             /\ (pool' \ pool) \cap (touched' \cup loading') = {}

Take == /\ pool' \subseteq pool
        /\ UNCHANGED <<steps, loading>>

\* Loads start, into blocks taken from the pool.
Load == /\ pool' \subseteq pool
        /\ loading \subseteq loading'
        /\ loading' \ loading \subseteq pool \ pool'
        /\ UNCHANGED steps

\* A step may write and copy from anything that is given out, but not write
\* what is being loaded.
Launch == /\ Len(steps') = Len(steps) + 1
          /\ LET step == steps'[Len(steps) + 1]
             IN  /\ steps' = Append(steps, step)
                 /\ step.writes \cap (pool \cup loading) = {}
                 /\ step.copies \cap pool = {}
          /\ UNCHANGED <<pool, loading>>

Return == GivenBack /\ UNCHANGED <<steps, loading>>

Retire == /\ steps # <<>> /\ steps' = Tail(steps)
          /\ GivenBack
          /\ UNCHANGED loading

\* Loads end.
Loaded == /\ loading' \subseteq loading
          /\ GivenBack
          /\ UNCHANGED steps

Next == Take \/ Load \/ Launch \/ Return \/ Retire \/ Loaded

Spec == Init /\ [][Next]_<<pool, steps, loading>>

\* Nobody touches a block of the pool, and loads and steps write apart.
Exclusive == /\ pool \cap (touched \cup loading) = {}
             /\ \A i \in DOMAIN steps : steps[i].writes \cap loading = {}
=============================================================================

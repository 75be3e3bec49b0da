------------------------------ MODULE ForkJoin ------------------------------
(***************************************************************************)
(* What cart/include/cart/worker_pool.h promises of the render pool, with  *)
(* no threads, gates or barriers in it: while a dispatch is running, rows  *)
(* of the canvas may take its generation, in any order and any grouping;   *)
(* a dispatch returns only when every row has it; and outside a dispatch   *)
(* nobody touches the canvas.                                              *)
(***************************************************************************)
EXTENDS Naturals

CONSTANTS
    RowIds,         \* the rows a canvas may have
    Generations,    \* generation arguments of dispatch (frame numbers)
    NoDispatch      \* the value of want when no dispatch is running

VARIABLES
    open,           \* the pool accepts dispatches
    height,         \* number of rows it was opened with
    want,           \* generation of the running dispatch, or NoDispatch
    image           \* for each row, the generation last rendered into it

fjvars == <<open, height, want, image>>

LiveRows == {r \in RowIds : r < height}

FJInit ==
    /\ open = FALSE
    /\ height = 0
    /\ want = NoDispatch
    /\ image \in [RowIds -> Generations]

\* A pool that is not open (never opened, failed to open, or closed) changes
\* its height freely: no call may use it.
Reconfigure ==
    /\ ~open
    /\ want = NoDispatch
    /\ open' \in BOOLEAN
    /\ height' \in Nat
    /\ UNCHANGED <<want, image>>

Fork(g) ==
    /\ open
    /\ want = NoDispatch
    /\ want' = g
    /\ UNCHANGED <<open, height, image>>

Render ==
    /\ want # NoDispatch
    /\ \E S \in SUBSET LiveRows :
          image' = [r \in RowIds |-> IF r \in S THEN want ELSE image[r]]
    /\ UNCHANGED <<open, height, want>>

Join ==
    /\ want # NoDispatch
    /\ \A r \in LiveRows : image[r] = want
    /\ want' = NoDispatch
    /\ UNCHANGED <<open, height, image>>

Close ==
    /\ open
    /\ want = NoDispatch
    /\ open' = FALSE
    /\ UNCHANGED <<height, want, image>>

FJNext ==
    \/ Reconfigure
    \/ \E g \in Generations : Fork(g)
    \/ Render
    \/ Join
    \/ Close

FJSpec == FJInit /\ [][FJNext]_fjvars

=============================================================================

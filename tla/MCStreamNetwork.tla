-------------------------- MODULE MCStreamNetwork --------------------------
(***************************************************************************)
(* Designs for module StreamNetwork: every choice of windows around a      *)
(* pixel for chains and diamonds, an inlined function, resampling, and the *)
(* pipeline of apps/hls_examples/fanout_hls with its FIFO depths.          *)
(***************************************************************************)
EXTENDS StreamNetwork

Window(lo, hi) == [num |-> 1, den |-> 1, lo |-> lo, hi |-> hi]
Windows == {Window(lo, hi) : lo \in {-1, 0}, hi \in {0, 1}}
Half == [num |-> 2, den |-> 1, lo |-> 0, hi |-> 1]
Double == [num |-> 1, den |-> 2, lo |-> 0, hi |-> 0]

Triangle(inlined, uses, depth, step, iters) ==
    [order |-> <<"in", "mid", "out">>, names |-> <<"in", "mid", "out">>,
     inputs |-> {"in"}, inlined |-> inlined, uses |-> uses,
     depth |-> [e \in {"in", "mid"} \X {"mid", "out"} |-> depth],
     step |-> step, iters |-> iters]

Chains == {Triangle({}, <<"in", "mid">> :> u @@ <<"mid", "out">> :> v, 0, step, 3) :
              u \in Windows \cup {Half, Double}, v \in Windows, step \in 1..2}

Diamonds == {Triangle({}, <<"in", "mid">> :> u @@ <<"mid", "out">> :> v
                             @@ <<"in", "out">> :> w, 3, step, 3) :
                u \in Windows, v \in Windows, w \in Windows, step \in 1..2}

Inlined == {Triangle({"mid"}, <<"in", "mid">> :> u @@ <<"mid", "out">> :> v
                                @@ <<"in", "out">> :> w, 0, 1, 3) :
               u \in Windows, v \in Windows, w \in Windows}

Fanout ==
    [order |-> <<"A", "B", "C", "hw_output">>,
     names |-> <<"A", "B", "C", "hw_output">>,
     inputs |-> {"A"}, inlined |-> {},
     uses |-> <<"A", "B">> :> Window(-1, 0) @@ <<"A", "C">> :> Window(1, 1)
                 @@ <<"A", "hw_output">> :> Window(0, 1)
                 @@ <<"B", "hw_output">> :> Window(0, 1)
                 @@ <<"C", "hw_output">> :> Window(0, 0),
     depth |-> [e \in {"A", "B", "C"} \X {"B", "C", "hw_output"} |->
                   IF e = <<"A", "hw_output">> THEN 4
                   ELSE IF e = <<"A", "C">> THEN 2 ELSE 0],
     step |-> 1, iters |-> 4]

MCDesigns == Chains \cup Diamonds \cup Inlined \cup {Fanout}
=============================================================================

---------------------------- MODULE MCLinebuffer ----------------------------
(* Instances of Linebuffer for TLC.                                          *)
EXTENDS Linebuffer

CONSTANTS MaxExtent, MaxSize, MaxFrames       \* bounds of the shapes

\* Every shape within the bounds that can be instantiated.
AllShapes ==
    {s \in [w : 1..MaxExtent, h : 1..MaxExtent, d : 1..MaxExtent, frames : 1..MaxFrames,
            ow : 1..MaxExtent, oh : 1..MaxExtent, od : 1..MaxExtent] :
        Instantiable(s) /\ s.w * s.h * s.d <= MaxSize}
=============================================================================

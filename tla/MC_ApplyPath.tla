---------------------------- MODULE MC_ApplyPath ----------------------------
(* Small instances of ApplyPath.                                           *)
EXTENDS ApplyPath, TLC

CONSTANTS scalar, junk      \* a content that is no object, one that does not parse

It(t, v, c) == [target |-> t, ver |-> v, content |-> c]

\* Contents with one and with two fields.
A  == [f |-> "a"]
B  == [g |-> "b"]
AG == [f |-> "a", g |-> "a"]
Bad == [f |-> "bad"]

\* Single applies of one object, for the races of writers with each other: the
\* second drops the field of the first.
SingleRequests == {<<It(1, 1, A)>>, <<It(1, 2, B)>>}

\* What operators store: a field added, changed, dropped or left alone.
AddedFields == {AG, [g |-> "a"]}

\* Batches over two objects: out of order; in order with one version raised and a
\* second content that is no object; a duplicate target; an empty batch; one the
\* schema rejects; one that does not parse.
BatchRequests ==
    {<<It(2, 1, A), It(1, 1, A)>>, <<It(1, 2, A), It(2, 1, scalar)>>,
     <<It(1, 1, A), It(1, 2, A)>>, << >>, <<It(2, 1, Bad)>>, <<It(1, 2, junk)>>}

\* The registered schemas reject content Bad.
MCSchemaRejects == {<<1, Bad>>, <<2, Bad>>}

HandlerSymmetry == Permutations(Handlers)
=============================================================================

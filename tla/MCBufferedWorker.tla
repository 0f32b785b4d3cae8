-------------------------- MODULE MCBufferedWorker --------------------------
(***************************************************************************)
(* Instances of the buffered path for TLC: the accumulator that forms      *)
(* batches, and how one batch is merged and split.  An item of the first   *)
(* is a count and a key, and the second starts from them, so a behaviour   *)
(* runs one of the two while the other rests.                              *)
(*                                                                         *)
(* Callers and keys are interchangeable, so a run stamps the callers in    *)
(* one order and gives the first of them the first key.  An item counts 1  *)
(* or MaxCount.                                                            *)
(***************************************************************************)
EXTENDS BufferedWorker, Batch

VARIABLE merges    \* whether this behaviour merges and splits a batch

mcvars == <<vars, batchVars, merges>>

list(s) == [kind |-> "list", items |-> s]
str(s) == [kind |-> "s", items |-> s]

dynamic(c) == [mode |-> "dynamic", capacity |-> c]
continuous == [mode |-> "continuous", capacity |-> NoCapacity]

\* Two parameters that may be batched, one that is not.
MCNames == <<"a", "x", "y">>
MCSig(x, y) == [n \in {"a", "x", "y"} |-> CASE n = "x" -> x [] n = "y" -> y [] OTHER -> NoBatch]

MCSignatures ==
    {MCSig(dynamic(4), dynamic(3)), MCSig(dynamic(NoCapacity), dynamic(3)),
     MCSig(dynamic(NoCapacity), dynamic(NoCapacity)), MCSig(continuous, dynamic(2)),
     MCSig(NoBatch, NoBatch)}

\* Lists of up to two distinct items, and values that are broadcast.
MCLists == {list(<<"p">>), list(<<"q">>), list(<<"p", "q">>), list(<<"q", "p">>)}
MCBroadcasts == {str(<<"u">>), str(<<"v">>), [kind |-> "opaque", items |-> <<"t">>],
                 [kind |-> "opaque", items |-> <<"w">>]}
MCTrailing == {<<>>, <<2>>, <<2, 2>>}

CallerOrder == SetToSeq(Callers)
FirstKey == CHOOSE k \in Keys : TRUE

InOrder == IsPrefix(stamps', CallerOrder)

MCInit ==
    /\ Init /\ item[CallerOrder[1]].key = FirstKey
    /\ \A c \in Callers : item[c].count \in {1, MaxCount}
    /\ merges \in BOOLEAN
    /\ merges => \A c, d \in Callers : item[c] = item[d] /\ item[c].count = 1
    /\ BatchInit
    /\ ~merges => sig = CHOOSE s \in Signatures : TRUE
    /\ ~merges => trailing = CHOOSE s \in Trailing : TRUE

MCNext ==
    \/ ~merges /\ Next /\ InOrder /\ UNCHANGED <<batchVars, merges>>
    \/ merges /\ BatchNext /\ UNCHANGED <<vars, merges>>

MCSpec ==
    /\ MCInit
    /\ [][MCNext]_mcvars
    /\ Fairness
=============================================================================

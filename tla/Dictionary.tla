----------------------------- MODULE Dictionary -----------------------------
(***************************************************************************)
(* The words of the puts and gets of a node: Utils::dictionary,            *)
(* RandomDictionary (behind ntimesrandom, interval, poissonrandom and      *)
(* weibullrandom) and the profile fulldictionary. A word is its index.     *)
(***************************************************************************)
EXTENDS Naturals

CONSTANTS
    DictionarySize,     \* Utils::dictionarySize
    SetSizes            \* sizes a workload file may ask for

ASSUME DictionaryAssumption ==
    DictionarySize \in Nat \ {0} /\ SetSizes \subseteq Nat

VARIABLES
    setSize,    \* the parameter in the workload file
    profile,    \* which profile gives the words
    process,    \* "making" the profile, "running", or "exit"
    queued,     \* words that fulldictionary has queued
    word        \* the word put or got last

dictionaryVars == <<setSize, profile, process, queued, word>>

ProfileTypes == {"random", "fulldictionary"}

DictionaryTypeOK ==
    /\ setSize \in SetSizes /\ profile \in ProfileTypes
    /\ process \in {"making", "running", "exit"}
    /\ queued \subseteq 0 .. setSize /\ word \in 0 .. setSize

DictionaryInit ==
    /\ setSize \in SetSizes
    /\ profile \in ProfileTypes
    /\ process = "making"
    /\ queued = {}
    /\ word = 0

\* The checks of the two constructors; the mutant takes one for the other.
RandomFitsFull(size) == size <= DictionarySize
RandomFits(size) == size < DictionarySize
FullFits(size) == size <= DictionarySize

\* What generator_() may return: uniform_int has both its ends. And the words
\* of fulldictionary.
Draws(size) == 0 .. size
AllWords(size) == {j \in 0 .. size : j < size}

MakeProfile ==
    /\ process = "making"
    /\ \/ /\ profile = "random"
          /\ process' = IF RandomFits(setSize) THEN "running" ELSE "exit"
          /\ UNCHANGED queued
       \/ /\ profile = "fulldictionary"
          /\ process' = IF FullFits(setSize) THEN "running" ELSE "exit"
          /\ queued' = IF FullFits(setSize) THEN AllWords(setSize) ELSE {}
    /\ UNCHANGED <<setSize, profile, word>>

\* A put or a get event of a random profile.
RandomWord ==
    /\ process = "running" /\ profile = "random"
    /\ word' \in Draws(setSize)
    /\ UNCHANGED <<setSize, profile, process, queued>>

\* One of fulldictionary: the queue orders by time only, so any word comes.
QueuedWord ==
    /\ process = "running"
    /\ word' \in queued
    /\ queued' = queued \ {word'}
    /\ UNCHANGED <<setSize, profile, process>>

-----------------------------------------------------------------------------
(***************************************************************************)
(* No size that the constructors accept makes a node read past the end of  *)
(* the dictionary, although the two kinds of profile check different       *)
(* bounds and draw from different ranges (a random one from one word more  *)
(* than the size it was given).                                            *)
(***************************************************************************)
ReadsInsideDictionary == word < DictionarySize
=============================================================================

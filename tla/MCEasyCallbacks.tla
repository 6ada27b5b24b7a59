-------------------------- MODULE MCEasyCallbacks --------------------------
\* EasyOptions (which functions Easies have) and EasyCallbacks (what one Easy keeps
\* between their calls) for TLC. They share no state: a behaviour is one of either.
EXTENDS EasyOptions, TLC

CONSTANTS MaxLength, MaxAnswers, MaxOffset

ASSUME BoundsAreNatural == {MaxLength, MaxAnswers, MaxOffset} \subseteq Nat

VARIABLES part, hasCallback, hstsReadCache, wasHstsReadCacheSet, progressAborted, hasFile,
  readDataOffset, phase, result, answers, asked, arrays, given, lastReset, leftover,
  wantsAbort, sought, fileGiven

Kept == INSTANCE EasyCallbacks

keptVars == <<hasCallback, hstsReadCache, wasHstsReadCacheSet, progressAborted, hasFile,
  readDataOffset, phase, result, answers, asked, arrays, given, lastReset, leftover,
  wantsAbort, sought, fileGiven>>

MCInit == part \in {"options", "kept"} /\ Init /\ Kept!Init

OptionsStep == part = "options" /\ Next /\ UNCHANGED <<part, keptVars>>
KeptStep == part = "kept" /\ Kept!Next /\ UNCHANGED <<part, vars>>

MCNext == OptionsStep \/ KeptStep

MCSpec == MCInit /\ [][MCNext]_<<part, vars, keptVars>>

\* The properties of EasyCallbacks, stated there.
EntriesInOrder == Kept!EntriesInOrder
DoneMeansAll == Kept!DoneMeansAll
ResetForgets == Kept!ResetForgets

Symmetry == Permutations(Easies)
=============================================================================

---------------------------- MODULE MCFlashTool ----------------------------
EXTENDS FlashTool, TLC

CONSTANTS f1, f2, c1, c2, index, remote, folder, boardA, boardB

\* An index entry and a remote manifest that name the same version of the same
\* board share a directory of the cache.
Directory == index :> 1 @@ remote :> 1 @@ folder :> 2
BoardOf == index :> boardA @@ remote :> boardA @@ folder :> NoBoard

\* Flashers differ in nothing but their state.
Interchangeable == Permutations(Flasher)
=============================================================================

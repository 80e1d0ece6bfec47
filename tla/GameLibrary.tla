----------------------------- MODULE GameLibrary -----------------------------
(* GameLibrary (src/src/core/GameLibrary.cpp): the map in memory, library.json  *)
(* and the library of the old launcher beside the program.  Every operation     *)
(* writes the whole map; QSaveFile replaces the file at once or not at all, and *)
(* nobody looks at the result.  Of an entry the version, the favourite flag and *)
(* the play time matter here.                                                   *)
EXTENDS Naturals

CONSTANTS
    Games,      \* game ids
    Versions,   \* versions of a game
    Env,        \* what the surroundings may do, see Events
    MaxPlay,    \* bound: units of play time
    None        \* no value

Events == {"save_error", "load_error", "quit"}

ASSUME LibraryAssumption == Env \subseteq Events /\ MaxPlay \in Nat

VARIABLES
    games,      \* m_games
    file,       \* library.json: a map, None when there is none
    legacy,     \* library.json of the old launcher (external)
    failed      \* history: the last save or load failed

Entry == [version : Versions, favorite : BOOLEAN, played : 0 .. MaxPlay]
Library == [Games -> Entry \cup {None}]
Empty == [g \in Games |-> None]

ASSUME NoneAssumption == None \notin Entry \cup Versions \cup Games /\ None \notin Library

LibraryTypeOK ==
    /\ games \in Library
    /\ file \in Library \cup {None}
    /\ legacy \in Library
    /\ failed \in BOOLEAN

\* Mutant: the play time has no initial value.
NewEntryUnset(v) == [version |-> v, favorite |-> FALSE, played |-> None]

\* The entry of a game that was never played.
NewEntry(v) == [version |-> v, favorite |-> FALSE, played |-> 0]

MayFail(call) == call \in Env

Save(map) ==
    \/ file' = map /\ failed' = FALSE
    \/ MayFail("save_error") /\ UNCHANGED file /\ failed' = TRUE

\* importLegacy(): what the old launcher knew is saved as the first library.
ImportLegacy ==
    \/ legacy = Empty /\ games' = Empty /\ UNCHANGED file /\ failed' = FALSE
    \/ legacy # Empty /\ games' = legacy /\ Save(legacy)

\* load(): the file, or the import when there is none.
Load ==
    \/ file \in Library /\ games' = file /\ UNCHANGED file /\ failed' = FALSE
    \/ file = None /\ ImportLegacy

\* load() of a file that cannot be read: the map stays empty, and the next
\* operation writes it.
LoadFails == MayFail("load_error") /\ games' = Empty /\ UNCHANGED file /\ failed' = TRUE

Update(g, entry) ==
    /\ games' = [games EXCEPT ![g] = entry]
    /\ Save([games EXCEPT ![g] = entry])

\* Mutant: an update makes a new entry.
UpsertNew(g, v) == Update(g, NewEntry(v))

\* upsert() as onDownloadCompleted() calls it: an update keeps what the old entry
\* knew of the player.
Upsert(g, v) ==
    Update(g, IF games[g] = None THEN NewEntry(v) ELSE [games[g] EXCEPT !.version = v])

\* Mutant: the file is written with the next change.
ForgetUnsaved(g) ==
    games[g] # None /\ games' = [games EXCEPT ![g] = None] /\ UNCHANGED <<file, failed>>

Forget(g) == games[g] # None /\ Update(g, None)

SetFavorite(g) == games[g] # None /\ Update(g, [games[g] EXCEPT !.favorite = ~@])

\* updatePlaytime() of a game that may have been forgotten meanwhile.
UpdatePlaytime(g, elapsed) ==
    IF games[g] = None
    THEN UNCHANGED <<games, file, failed>>
    ELSE Update(g, [games[g] EXCEPT !.played = IF @ + elapsed > MaxPlay THEN MaxPlay ELSE @ + elapsed])
=============================================================================

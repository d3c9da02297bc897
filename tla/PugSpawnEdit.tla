---------------------------- MODULE PugSpawnEdit ----------------------------
(***************************************************************************)
(* The editor of the deathmatch spawns, which admins use at the same time  *)
(* (CPugSpawnEdit), and the spawns that the deathmatch plays with, which   *)
(* are read from the file that the editor saves (CPugDM).  An admin picks  *)
(* items from the menu he was shown, whatever the others have done since.  *)
(* A spawn is a number, given when it is added.  Where spawns and admins   *)
(* stand is left open, so the nearest spawn is any, but for one thing: a   *)
(* spawn less than a unit from the origin of the map is saved as 0 0 0,    *)
(* and the deathmatch takes no such line.                                  *)
(***************************************************************************)
EXTENDS Integers, Sequences, FiniteSets, SequencesExt

CONSTANTS Admin,    \* the client slots of the admins
          MaxSpawn, \* bound on the spawns that are ever added
          NearOrigin, \* bound on the spawns that are ever set at the origin of the map
          MaxList,  \* bound on the spawns of the deathmatch, which loading twice doubles
          MaxExec   \* bound on the loads that wait

ASSUME SpawnEditAssumption ==
    MaxSpawn \in Nat /\ MaxList \in Nat /\ MaxExec \in Nat \ {0}

VARIABLES m_Spawns,   \* CPugSpawnEdit: the spawn of each index
          atOrigin,   \* the indexes whose coordinates are cut to 0 0 0
          m_Entities, \* the indexes that have a visible entity
          m_Marked,   \* the index that each admin has marked, -1 for none
          menu,       \* the menu that an admin was shown, and the items he may pick
          m_Spawn,    \* CPugDM: the spawns that it plays with
          file,       \* the lines of the file of the map: a spawn each, 0 for 0 0 0
          exec,       \* the loads that the engine has queued
          added,      \* how many spawns were added, ever
          picked,     \* history: the spawn that each admin marked, 0 for none
          saved       \* history: the spawns saved last, but those of atOrigin

editorVars == <<m_Spawns, atOrigin, m_Entities, m_Marked, picked>>
dmVars == <<m_Spawn, file, exec, saved>>
editVars == <<editorVars, menu, dmVars, added>>

Spawn == 1..MaxSpawn
Index == 0..(MaxList + MaxSpawn)

NoMenu == {}
AddMenu == {"add", "cancel"}
DiscardMenu == {"continue", "discard"}

NoSpawns == [i \in {} |-> 0]
Put(spawns, i, s) == [j \in DOMAIN spawns \cup {i} |-> IF j = i THEN s ELSE spawns[j]]
Without(spawns, i) == [j \in DOMAIN spawns \ {i} |-> spawns[j]]

\* What an admin is shown: what he may do with his marked spawn depends on its
\* entity, and on whether it is near.
MainMenu(p) ==
    LET always == {"add menu", "select", "stuck", "discard menu", "save"}
    IN  IF m_Marked'[p] \in m_Entities'
        THEN {always \cup {"edit"}, always \cup {"edit", "delete"}}
        ELSE {always}

ShowsMenu(p) == \E items \in MainMenu(p) : menu' = [menu EXCEPT ![p] = items]
Shows(p, items) == menu' = [menu EXCEPT ![p] = items]

\* The engine may have no entities left.
MakeEntity(is) == \E made \in {is, {}} : m_Entities' = m_Entities \cup made

\* The spawn s, of index i, is set where the admin stands.
SetsPosition(i, s) ==
    \E here \in {{i}, {}} : /\ here # {} => s \in NearOrigin
                           /\ atOrigin' = (atOrigin \ {i}) \cup here

\* The index that has so many of the others before it.
Before(spawns, i) == {j \in DOMAIN spawns : j < i}
IndexAfter(spawns, n) == CHOOSE i \in DOMAIN spawns : Cardinality(Before(spawns, i)) = n

InOrder(spawns) ==
    [n \in 1..Cardinality(DOMAIN spawns) |-> spawns[IndexAfter(spawns, n - 1)]]

\* Whoever has nothing but items of another menu, or none, does not get here.
Chooses(p, item) == item \in menu[p]
-----------------------------------------------------------------------------
(***************************************************************************)
(* The deathmatch.                                                         *)
(***************************************************************************)
\* Faulty Loaded: the spawns of before stay.
LoadedToo == m_Spawn

\* CPugDM::Load forgets the spawns until the engine has run the file.
Loaded == <<>>

Load ==
    /\ exec < MaxExec
    /\ m_Spawn' = Loaded /\ exec' = exec + 1

\* CPugDM::SetSpawn for each line, which drops 0 0 0.
SetSpawn(lines) ==
    InOrder([n \in {k \in DOMAIN lines : lines[k] # 0} |-> lines[n]])

\* The engine runs the file of the map.
ExecRuns ==
    /\ exec > 0 /\ exec' = exec - 1
    /\ m_Spawn' = m_Spawn \o SetSpawn(file)
    /\ Len(m_Spawn') <= MaxList
    /\ UNCHANGED <<editorVars, menu, file, saved, added>>

GetSpawns == [i \in 0..Len(m_Spawn) - 1 |-> m_Spawn[i + 1]]
-----------------------------------------------------------------------------
(***************************************************************************)
(* The editor.                                                             *)
(***************************************************************************)
\* CPugSpawnEdit::EditSpawns: the first one takes the spawns of the deathmatch.
EditSpawns(p) ==
    /\ m_Spawns' = IF m_Spawns = NoSpawns THEN GetSpawns ELSE m_Spawns
    /\ MakeEntity(DOMAIN m_Spawns')
    /\ UNCHANGED <<atOrigin, m_Marked, picked, dmVars, added>>
    /\ ShowsMenu(p)

AddSpawnMenu(p) ==
    /\ Chooses(p, "add menu") /\ Shows(p, AddMenu)
    /\ UNCHANGED <<editorVars, dmVars, added>>

AddSpawnCancelled(p) ==
    /\ Chooses(p, "cancel")
    /\ UNCHANGED <<editorVars, dmVars, added>>
    /\ ShowsMenu(p)

\* CPugSpawnEdit::Refresh marks the nearest spawn, if one is near enough.
Refresh(p) ==
    \/ \E i \in DOMAIN m_Spawns' : /\ m_Marked' = [m_Marked EXCEPT ![p] = i]
                                   /\ picked' = [picked EXCEPT ![p] = m_Spawns'[i]]
    \/ /\ m_Marked' = [m_Marked EXCEPT ![p] = -1]
       /\ picked' = [picked EXCEPT ![p] = 0]

\* One more than the last index.
NewIndex == CHOOSE i \in Index : /\ \A j \in DOMAIN m_Spawns : j < i
                                 /\ i = 0 \/ i - 1 \in DOMAIN m_Spawns

\* CPugSpawnEdit::AddSpawn, after which the menu is shown again.
AddSpawn(p) ==
    /\ Chooses(p, "add")
    /\ added < MaxSpawn /\ added' = added + 1
    /\ m_Spawns' = Put(m_Spawns, NewIndex, added')
    /\ SetsPosition(NewIndex, added') /\ MakeEntity({NewIndex})
    /\ IF NewIndex \in m_Entities' THEN Refresh(p) ELSE UNCHANGED <<m_Marked, picked>>
    /\ UNCHANGED <<menu, dmVars>>

\* CPugSpawnEdit::EditSpawn moves the marked spawn, whose entity is made anew.
EditSpawn(p) ==
    /\ Chooses(p, "edit")
    /\ IF m_Marked[p] \in DOMAIN m_Spawns
       THEN /\ SetsPosition(m_Marked[p], m_Spawns[m_Marked[p]])
            /\ MakeEntity({m_Marked[p]})
       ELSE UNCHANGED <<atOrigin, m_Entities>>
    /\ UNCHANGED <<m_Spawns, m_Marked, picked, dmVars, added>>
    /\ ShowsMenu(p)

\* Faulty Unmark: only who deletes the spawn loses his mark.
UnmarkOwn(p, i) == [m_Marked EXCEPT ![p] = -1]

\* Nobody has the index marked any more.
Unmark(p, i) == [q \in Admin |-> IF m_Marked[q] = i THEN -1 ELSE m_Marked[q]]

\* CPugSpawnEdit::RemoveEntity.
RemoveEntity(p, i) ==
    /\ m_Spawns' = Without(m_Spawns, i)
    /\ m_Entities' = m_Entities \ {i} /\ atOrigin' = atOrigin \ {i}
    /\ m_Marked' = Unmark(p, i)
    /\ picked' = [q \in Admin |-> IF m_Marked'[q] < 0 THEN 0 ELSE picked[q]]

\* CPugSpawnEdit::DeleteSpawn.
DeleteSpawn(p) ==
    /\ Chooses(p, "delete")
    /\ IF m_Marked[p] >= 0 THEN RemoveEntity(p, m_Marked[p])
                           ELSE UNCHANGED editorVars
    /\ UNCHANGED <<dmVars, added>>
    /\ ShowsMenu(p)

SelectNearest(p) ==
    /\ Chooses(p, "select")
    /\ UNCHANGED <<m_Spawns, atOrigin, m_Entities, dmVars, added>>
    /\ Refresh(p)
    /\ ShowsMenu(p)

\* CPugSpawnEdit::ShowStuckedSpawns, and the other items that only show something.
ShowStuckedSpawns(p) ==
    /\ Chooses(p, "stuck")
    /\ UNCHANGED <<editorVars, dmVars, added>>
    /\ ShowsMenu(p)

DiscardChanges(p) ==
    /\ Chooses(p, "discard menu") /\ Shows(p, DiscardMenu)
    /\ UNCHANGED <<editorVars, dmVars, added>>

DiscardCancelled(p) ==
    /\ Chooses(p, "continue")
    /\ UNCHANGED <<editorVars, dmVars, added>>
    /\ ShowsMenu(p)

\* Faulty Discarded: the entities are left.
DiscardedButEntities ==
    /\ m_Spawns' = NoSpawns /\ atOrigin' = {} /\ UNCHANGED m_Entities
    /\ m_Marked' = [p \in Admin |-> -1] /\ picked' = [p \in Admin |-> 0]

\* CPugSpawnEdit::RemoveEntity(-1): for all the admins.
Discarded ==
    /\ m_Spawns' = NoSpawns /\ atOrigin' = {} /\ m_Entities' = {}
    /\ m_Marked' = [p \in Admin |-> -1] /\ picked' = [p \in Admin |-> 0]

DiscardChangesHandle(p) ==
    /\ Chooses(p, "discard") /\ Shows(p, NoMenu)
    /\ Discarded
    /\ UNCHANGED <<dmVars, added>>

\* The line of each spawn, its coordinates cut to whole numbers.
Lines == [i \in DOMAIN m_Spawns |-> IF i \in atOrigin THEN 0 ELSE m_Spawns[i]]

\* CPugSpawnEdit::Save, which has the deathmatch read the file that it wrote.  There may
\* be nothing to save, or no file that could be opened.
Save(p) ==
    /\ Chooses(p, "save")
    /\ \/ UNCHANGED dmVars
       \/ /\ m_Spawns # NoSpawns
          /\ file' = InOrder(Lines)
          /\ saved' = {m_Spawns[i] : i \in DOMAIN m_Spawns \ atOrigin}
          /\ Load
    /\ UNCHANGED <<editorVars, added>>
    /\ ShowsMenu(p)

\* Another client takes the slot over: the menu goes, the mark stays.
PutInServer(p) ==
    /\ menu[p] # NoMenu /\ Shows(p, NoMenu)
    /\ UNCHANGED <<editorVars, dmVars, added>>

\* The server changes to the same map again: ServerDeactivate and ServerActivate of
\* both, and the clients join anew.
LevelChanges ==
    /\ Discarded /\ Load
    /\ menu' = [p \in Admin |-> NoMenu]
    /\ UNCHANGED <<file, saved, added>>
-----------------------------------------------------------------------------
Init ==
    /\ m_Spawns = NoSpawns /\ atOrigin = {} /\ m_Entities = {}
    /\ m_Marked = [p \in Admin |-> -1]
    /\ menu = [p \in Admin |-> NoMenu]
    /\ m_Spawn = <<>> /\ exec = 1
    /\ added \in 0..MaxSpawn
    /\ saved \in {1..added \ zero : zero \in SUBSET NearOrigin}
    /\ file = [n \in 1..added |-> IF n \in saved THEN n ELSE 0]
    /\ picked = [p \in Admin |-> 0]

Next ==
    \/ \E p \in Admin :
          \/ EditSpawns(p) \/ AddSpawnMenu(p) \/ AddSpawnCancelled(p) \/ AddSpawn(p)
          \/ EditSpawn(p) \/ DeleteSpawn(p) \/ SelectNearest(p) \/ ShowStuckedSpawns(p)
          \/ DiscardChanges(p) \/ DiscardCancelled(p) \/ DiscardChangesHandle(p)
          \/ Save(p) \/ PutInServer(p)
    \/ ExecRuns \/ LevelChanges

Spec == Init /\ [][Next]_editVars
-----------------------------------------------------------------------------
\* Among the types: every entity is that of a spawn of the editor, so discarding, which
\* removes the entities of the spawns, leaves none behind, and placing an entity never
\* makes a spawn.
EditTypeOK ==
    /\ DOMAIN m_Spawns \subseteq Index /\ m_Spawns \in [DOMAIN m_Spawns -> Spawn]
    /\ m_Entities \subseteq DOMAIN m_Spawns /\ atOrigin \subseteq DOMAIN m_Spawns
    /\ m_Marked \in [Admin -> Index \cup {-1}]
    /\ m_Spawn \in Seq(Spawn) /\ file \in Seq(Spawn \cup {0}) /\ saved \subseteq Spawn
    /\ exec \in 0..MaxExec /\ added \in 0..MaxSpawn
    /\ picked \in [Admin -> Spawn \cup {0}]

\* A mark stays on the spawn that the admin has selected: what another one deletes
\* and adds meanwhile, reusing its index, is never moved or deleted in its place.
MarkIsTheSame ==
    \A p \in Admin : m_Marked[p] >= 0 => /\ m_Marked[p] \in DOMAIN m_Spawns
                                         /\ m_Spawns[m_Marked[p]] = picked[p]

\* Once the engine has run the loads, the deathmatch plays with the spawns that were
\* saved last, whoever saved while another load was waiting: with all of them but those
\* less than a unit from the origin of the map.
SavedSpawnsArePlayed == exec = 0 => ToSet(m_Spawn) = saved
=============================================================================

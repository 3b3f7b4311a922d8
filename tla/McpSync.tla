-------------------------------- MODULE McpSync --------------------------------
(***************************************************************************)
(* MCP servers of several agents (mcp/*, bar/overlay/mcps): the inventory  *)
(* of gateway and local servers, the matrix of what is enabled for whom,   *)
(* the panels that edit it and the sync that writes the agents' own        *)
(* configuration files.                                                    *)
(*                                                                         *)
(* No file has a lock.  Agents, users and panels of other sidebars write   *)
(* the same files; a file is replaced as a whole by a rename.  An agent    *)
(* stands for the format of its file: "codex" is TOML ("grok" is alike),   *)
(* "claude" JSON in which presence means enabled, "opencode" JSON.         *)
(***************************************************************************)
EXTENDS Naturals, Sequences, FiniteSets, SequencesExt

CONSTANTS
    Key,        \* names of MCP servers
    Agents,     \* the agents found on this machine
    Panels,     \* open MCP panels
    MaxUrl,     \* bound: connect URLs the gateway gives a server (1..MaxUrl)
    MaxChanges, \* bound: changes by agents, users and the gateway
    MaxKeys     \* bound: toggles, refreshes and syncs of a panel

None == 0

\* AgentMcpEntry; the value of `command` tells two definitions apart.  An
\* entry of a TOML file may be written as an inline table.
Entry   == [url : 0..MaxUrl, cmd : 0..2, enabled : BOOLEAN, inline : BOOLEAN]
NoEntry == [url |-> None, cmd |-> None, enabled |-> FALSE, inline |-> FALSE]
Remote(u)     == [NoEntry EXCEPT !.url = u, !.enabled = TRUE]
Local(c, on)  == [NoEntry EXCEPT !.cmd = c, !.enabled = on]

VARIABLES
    files,  \* the configuration of each agent; not `whole` while it is being written,
            \* `odd` if what holds its servers is no table or object
    quoted, \* names that TOML must quote (fixed)
    obot,   \* the gateway: up, and the connect URL of each server it has
    stored, \* mcp-enablement.toml
    panel,  \* McpsState of each panel, and the sync it runs
    quiet,  \* history: nothing else has changed since the panel's last refresh
    count   \* bounded: changes so far
vars == <<files, quoted, obot, stored, panel, quiet, count>>

Adapters == <<"grok", "codex", "claude", "opencode">>
AllAdapters == SelectSeq(Adapters, LAMBDA a : a \in Agents)

Matrix == [Key -> [Agents -> {"unset", "on", "off"}]]
Unset  == [k \in Key |-> [a \in Agents |-> "unset"]]
Broken == <<>>   \* a file that does not parse

\* save: to_toml writes the name of a server as it is.  A section whose name
\* TOML must quote does not parse, or not as a map of booleans.
Saved(m) == IF \E k \in quoted, a \in Agents : m[k][a] # "unset" THEN Broken ELSE m
Toml     == {"grok", "codex"}

IsHttp(e)  == e.url # None
IsStdio(e) == e.cmd # None
Present(e) == e # NoEntry

-----------------------------------------------------------------------------
(* Inventory and enablement. *)

\* What adapter.read gives; a file that does not parse is an error.  The
\* parser of TOML reads inline tables too.
Read(F, a) == IF F[a].whole THEN F[a].map ELSE [k \in Key |-> NoEntry]

\* discover_local_only_with: stdio entries, the first agent that has one wins.
LocalCommand(F, k) ==
    LET has == SelectSeq(AllAdapters,
                 LAMBDA a : IsStdio(Read(F, a)[k]) /\ ~IsHttp(Read(F, a)[k]))
    IN  IF has = <<>> THEN None ELSE Read(F, Head(has))[k].cmd

\* list_inventory_with: the gateway wins a key.
Inventory(F, o) ==
    [k \in Key |->
        IF o.up /\ o.urls[k] # None
        THEN Remote(o.urls[k])
        ELSE IF LocalCommand(F, k) # None THEN Local(LocalCommand(F, k), TRUE)
        ELSE NoEntry]

\* enabled_or: a server that is in an agent's configuration is on by default.
EnabledOr(m, k, a, default) ==
    IF m[k][a] = "unset" THEN default ELSE m[k][a] = "on"

Enabled(m, F, a, k) == EnabledOr(m, k, a, Present(Read(F, a)[k]))

PlanRemovesNothing(server, on, e) == IF on /\ ~Present(e) THEN "upsert" ELSE "skip"

\* plan_action
PlanAction(server, on, e) ==
    CASE ~on /\ ~Present(e) -> "skip"
      [] ~on /\ Present(e) -> "remove"
      [] on /\ ~Present(e) -> "upsert"
      [] OTHER ->
           LET right == IF IsHttp(server) THEN e.url = server.url ELSE IsStdio(e)
           IN  IF right /\ e.enabled THEN "skip" ELSE "upsert"

\* detect_drift_with
Drifts(F, o, m) ==
    {d \in Agents \X Key :
        LET server == Inventory(F, o)[d[2]]
            e      == Read(F, d[1])[d[2]]
        IN  /\ Present(server)
            /\ IF Enabled(m, F, d[1], d[2])
               THEN ~Present(e) \/ (IsHttp(server) /\ e.url # server.url)
               ELSE Present(e)}

-----------------------------------------------------------------------------
(* Writing an agent's file. *)

UpsertReplaces(a, server, e) == server
UpsertKeepsUrl(a, server, e) == IF Present(e) THEN [e EXCEPT !.enabled = TRUE] ELSE server

\* What an upsert leaves of an entry in each format.  TOML keeps what the user
\* has tuned and drops the command for a URL, and replaces an inline table by
\* an empty one first; OpenCode leaves an entry that exists as it is.
Upsert(a, server, e) ==
    IF IsHttp(server) \/ e.inline THEN server
    ELSE CASE a = "opencode" -> IF Present(e) THEN [e EXCEPT !.enabled = TRUE] ELSE server
           [] OTHER -> [e EXCEPT !.cmd = IF @ = None THEN server.cmd ELSE @, !.enabled = TRUE]

MergeDisables(a, plan, map) ==
    [k \in Key |->
        CASE plan[k].action = "skip" -> map[k]
          [] plan[k].action = "remove" -> [map[k] EXCEPT !.enabled = FALSE]
          [] plan[k].action = "upsert" -> Upsert(a, plan[k].server, map[k])]

\* write_merge: keys without a plan keep their entry.
Merge(a, plan, map) ==
    [k \in Key |->
        CASE plan[k].action = "skip" -> map[k]
          [] plan[k].action = "remove" -> NoEntry
          [] plan[k].action = "upsert" -> Upsert(a, plan[k].server, map[k])]

-----------------------------------------------------------------------------
(* Panels. *)

\* refresh: the rows shown, one per server, with what is on for each agent.
Shown(m, F, o) ==
    [k \in Key |-> IF Present(Inventory(F, o)[k])
                   THEN {a \in Agents : Enabled(m, F, a, k)} ELSE {}]

Idle == [at |-> "idle", dry |-> FALSE, inventory |-> [k \in Key |-> NoEntry], matrix |-> Unset,
         left |-> <<>>, plan |-> <<>>, base |-> <<>>, copy |-> <<>>, errors |-> FALSE]

Refreshed(p) ==
    LET m == IF stored = Broken THEN Unset ELSE stored
    IN  [p EXCEPT !.matrix = m,
                  !.rows = {k \in Key : Present(Inventory(files, obot)[k])},
                  !.shown = Shown(m, files, obot), !.up = obot.up]

Init ==
    /\ \E es \in [Agents -> {NoEntry, Local(1, TRUE), Remote(1)}],
          odd \in SUBSET Agents, inline \in SUBSET (Agents \cap Toml), names \in SUBSET Key :
          /\ Cardinality(odd) + Cardinality(inline) + Cardinality(names) <= 1   \* one at a time
          /\ quoted = names
          /\ \A a \in odd \ Toml : es[a] = NoEntry
          /\ \A a \in inline : Present(es[a])
          /\ files = [a \in Agents |->
                [whole |-> TRUE, odd |-> a \in odd,
                 map |-> [k \in Key |-> [es[a] EXCEPT !.inline = a \in inline]]]]
    /\ \E up \in BOOLEAN, k \in (Key \ quoted) \cup {None} :
          obot = [up |-> up, urls |-> [j \in Key |-> IF j = k THEN MaxUrl ELSE None]]
    /\ stored = Unset
    /\ panel = [p \in Panels |->
          [matrix |-> stored,
           rows |-> {k \in Key : Present(Inventory(files, obot)[k])},
           shown |-> Shown(stored, files, obot), up |-> obot.up, sync |-> Idle, keys |-> 0]]
    /\ quiet = [p \in Panels |-> TRUE]
    /\ count = 0

Step(p, q) == panel' = [panel EXCEPT ![p] = q]
Free(p)    == panel[p].sync.at = "idle" /\ panel[p].keys < MaxKeys
\* Another panel sees that something has changed.
Disturbs(p) == quiet' = [q \in Panels |-> q = p /\ quiet[q]]

\* toggle_cell: the row is one of those shown, the matrix only in memory.
Toggle(p) ==
    /\ Free(p)
    /\ \E k \in panel[p].rows, a \in Agents :
          LET on == a \notin panel[p].shown[k]
          IN  Step(p, [panel[p] EXCEPT
                  !.shown[k] = IF on THEN @ \cup {a} ELSE @ \ {a},
                  !.matrix[k][a] = IF on THEN "on" ELSE "off",
                  !.keys = @ + 1])
    /\ UNCHANGED <<files, quoted, obot, stored, quiet, count>>

Refresh(p) ==
    /\ Free(p)
    /\ Step(p, [Refreshed(panel[p]) EXCEPT !.keys = @ + 1])
    /\ quiet' = [quiet EXCEPT ![p] = TRUE]
    /\ UNCHANGED <<files, quoted, obot, stored, count>>

\* activate_search_selection: a server of the catalogue is created and turned
\* on for every agent; the matrix saved is the one in memory.
AddFromCatalog(p) ==
    /\ Free(p) /\ panel[p].up /\ obot.up
    /\ \E k \in Key :
          /\ obot.urls[k] = None /\ k \notin quoted   \* a slug
          /\ LET o == [obot EXCEPT !.urls[k] = 1]
                 m == [panel[p].matrix EXCEPT ![k] = [a \in Agents |-> "on"]]
             IN  /\ obot' = o
                 /\ stored' = Saved(m)
                 /\ Step(p, [panel[p] EXCEPT
                        !.matrix = m,
                        !.rows = {j \in Key : Present(Inventory(files, o)[j])},
                        !.shown = Shown(m, files, o), !.keys = @ + 1])
    /\ quiet' = [q \in Panels |-> q = p]
    /\ UNCHANGED <<files, quoted, count>>

\* run_sync saves the matrix of this panel, for a dry run too.
RunSync(p) ==
    /\ Free(p)
    /\ stored' = Saved(panel[p].matrix)
    /\ \E dry \in BOOLEAN :
          Step(p, [panel[p] EXCEPT !.sync = [Idle EXCEPT !.at = "list", !.dry = dry],
                                   !.keys = @ + 1])
    /\ Disturbs(p)
    /\ UNCHANGED <<files, quoted, obot, count>>

\* apply_sync: the inventory, then the matrix as it is in the file.
SyncLists(p) ==
    /\ panel[p].sync.at = "list"
    /\ Step(p, IF stored = Broken
               THEN [panel[p] EXCEPT !.sync = Idle]
               ELSE [panel[p] EXCEPT !.sync.at = "read", !.sync.matrix = stored,
                        !.sync.inventory = Inventory(files, obot), !.sync.left = AllAdapters])
    /\ UNCHANGED <<files, quoted, obot, stored, quiet, count>>

\* apply_sync_with, one adapter: read and plan; an unreadable file is skipped.
SyncReads(p) ==
    LET s == panel[p].sync
    IN  /\ s.at = "read" /\ s.left # <<>>
        /\ LET a    == Head(s.left)
               map  == files[a].map
               plan == [k \in Key |->
                  [server |-> s.inventory[k],
                   action |-> IF ~Present(s.inventory[k]) THEN "skip"
                              ELSE PlanAction(s.inventory[k],
                                     EnabledOr(s.matrix, k, a, Present(map[k])), map[k])]]
               writes == ~s.dry /\ \E k \in Key : plan[k].action # "skip"
           IN  Step(p, IF ~files[a].whole
                       THEN [panel[p] EXCEPT !.sync.left = Tail(@), !.sync.errors = TRUE]
                       ELSE IF writes THEN [panel[p] EXCEPT !.sync.at = "merge", !.sync.plan = plan]
                       ELSE [panel[p] EXCEPT !.sync.left = Tail(@)])
        /\ UNCHANGED <<files, quoted, obot, stored, quiet, count>>

\* write_merge reads again.  TOML that does not parse is an error, and so are
\* servers that are not in a table or object; JSON that does not parse is
\* taken for an empty object.
SyncMerges(p) ==
    LET s == panel[p].sync
        a == Head(s.left)
    IN  /\ s.at = "merge"
        /\ Step(p, IF (IF files[a].whole THEN files[a].odd ELSE a \in Toml)
                   THEN [panel[p] EXCEPT !.sync.at = "read", !.sync.left = Tail(@),
                                         !.sync.errors = TRUE]
                   ELSE [panel[p] EXCEPT !.sync.at = "rename",
                                         !.sync.base = Read(files, a),
                                         !.sync.copy = Merge(a, s.plan, Read(files, a))])
        /\ UNCHANGED <<files, quoted, obot, stored, quiet, count>>

\* atomic_write
SyncRenames(p) ==
    LET s == panel[p].sync
    IN  /\ s.at = "rename"
        /\ files' = [files EXCEPT ![Head(s.left)] = [whole |-> TRUE, odd |-> FALSE, map |-> s.copy]]
        /\ Step(p, [panel[p] EXCEPT !.sync.at = "read", !.sync.left = Tail(@),
                                    !.sync.plan = <<>>, !.sync.base = <<>>, !.sync.copy = <<>>])
        /\ Disturbs(p)
        /\ UNCHANGED <<quoted, obot, stored, count>>

\* run_sync ends; the panel is refreshed after a real sync.
SyncEnds(p) ==
    LET s == panel[p].sync
    IN  /\ s.at = "read" /\ s.left = <<>>
        /\ Step(p, [(IF s.dry THEN panel[p] ELSE Refreshed(panel[p])) EXCEPT !.sync = Idle])
        /\ quiet' = [quiet EXCEPT ![p] = @ \/ ~s.dry]
        /\ UNCHANGED <<files, quoted, obot, stored, count>>

-----------------------------------------------------------------------------
(* The world. *)

Changes == count < MaxChanges /\ count' = count + 1 /\ quiet' = [p \in Panels |-> FALSE]

\* An agent or a user changes one entry of a configuration.
AgentEdits ==
    /\ Changes
    /\ \E a \in Agents, k \in Key :
          \E e \in {NoEntry, Local(2, TRUE), Remote(1), Local(1, a = "claude")} :
             /\ files[a].whole /\ ~files[a].odd /\ files[a].map[k] # e
             /\ files' = [files EXCEPT ![a].map[k] = e]
    /\ UNCHANGED <<quoted, obot, stored, panel>>

\* An agent that rewrites its file in place is half way through.
AgentTruncates ==
    /\ Changes
    /\ \E a \in Agents : files[a].whole /\ files' = [files EXCEPT ![a].whole = FALSE]
    /\ UNCHANGED <<quoted, obot, stored, panel>>

AgentWritten ==
    /\ \E a \in Agents : ~files[a].whole /\ files' = [files EXCEPT ![a].whole = TRUE]
    /\ quiet' = [p \in Panels |-> FALSE]
    /\ UNCHANGED <<quoted, obot, stored, panel, count>>

\* The gateway stops or starts, or moves a server to another URL.
GatewayChanges ==
    /\ Changes
    /\ \/ obot' = [obot EXCEPT !.up = ~@]
       \/ \E k \in Key, u \in 1..MaxUrl :
             obot.urls[k] \notin {None, u} /\ obot' = [obot EXCEPT !.urls[k] = u]
    /\ UNCHANGED <<files, quoted, stored, panel>>

\* A user breaks the matrix file in an editor.
MatrixBroken ==
    /\ Changes
    /\ stored # Broken /\ stored' = Broken
    /\ UNCHANGED <<files, quoted, obot, panel>>

Next ==
    \/ \E p \in Panels :
          \/ Toggle(p) \/ Refresh(p) \/ AddFromCatalog(p) \/ RunSync(p)
          \/ SyncLists(p) \/ SyncReads(p) \/ SyncMerges(p) \/ SyncRenames(p) \/ SyncEnds(p)
    \/ AgentEdits \/ AgentTruncates \/ AgentWritten \/ GatewayChanges \/ MatrixBroken

Spec == Init /\ [][Next]_vars

-----------------------------------------------------------------------------
(* Properties. *)

TypeOK ==
    /\ files \in [Agents -> [whole : BOOLEAN, odd : BOOLEAN, map : [Key -> Entry]]]
    /\ quoted \subseteq Key
    /\ obot \in [up : BOOLEAN, urls : [Key -> 0..MaxUrl]]
    /\ stored \in Matrix \cup {Broken}
    /\ \A p \in Panels :
          /\ panel[p].matrix \in Matrix /\ panel[p].rows \subseteq Key
          /\ panel[p].shown \in [Key -> SUBSET Agents]
          /\ panel[p].sync.inventory \in [Key -> Entry]
          /\ panel[p].sync.left \in Seq(Agents)
    /\ \A a \in Agents, k \in Key :
          /\ a = "claude" => files[a].map[k].enabled = Present(files[a].map[k])
          /\ files[a].map[k].inline => a \in Toml

\* A real sync of p ends, every file could be read, and nobody else has changed
\* a file or the gateway since the panel read them.
GoodSync(p) ==
    /\ panel[p].sync.at = "read" /\ panel'[p].sync.at = "idle"
    /\ ~panel[p].sync.dry /\ ~panel[p].sync.errors /\ quiet[p]

\* apply_sync: what the panel showed when the sync began is what the agents
\* have when it ends, whatever was toggled, refreshed and edited before; and
\* detect_drift finds nothing, although the inventory it compares with is made
\* from the files the sync has just written.
SyncConverges ==
    [][\A p \in Panels : GoodSync(p) =>
        /\ \A k \in panel[p].rows, a \in Agents :
              a \in panel[p].shown[k] <=> Present(files[a].map[k])
        /\ Drifts(files, obot, stored) = {}]_vars

\* write_merge: of a file nobody writes meanwhile a sync takes only what the
\* matrix turns off, and replaces a command only by a gateway URL, also when
\* the entry has come or changed since the plan was made.  An entry that is
\* an inline table is excepted (InlineKept).
OnlyAsked ==
    [][\A p \in Panels :
        LET s == panel[p].sync
            a == Head(s.left)
        IN  s.at = "rename" /\ panel'[p].sync.at = "read" /\ files[a].whole /\ files[a].map = s.base
            => \A k \in Key :
                 LET old == files[a].map[k]
                     new == files'[a].map[k]
                 IN  \/ new = old \/ old.inline
                     \/ ~Present(new) /\ s.matrix[k][a] = "off"
                     \/ IsHttp(s.inventory[k])
                     \/ Present(new) /\ IsStdio(old) /\ new.cmd = old.cmd
                     \/ Present(new) /\ ~IsStdio(old) /\ new.url = old.url]_vars

\* run_sync, write_merge: a sync does what the panel showed, and only that.
SyncAsShown == SyncConverges /\ OnlyAsked

-----------------------------------------------------------------------------
(* What does not hold; each has a configuration that shows it. *)

\* A local server that some agent has stays known: turned off everywhere and
\* synced, its only definition is gone.
Known(F, k) == \E a \in Agents : IsStdio(F[a].map[k])
SyncRename(p) == panel[p].sync.at = "rename" /\ panel'[p].sync.at = "read"
DefinitionKept ==
    [][\A p \in Panels, k \in Key :
        SyncRename(p) /\ ~IsHttp(panel[p].sync.inventory[k]) /\ Known(files, k) => Known(files', k)]_vars

\* An entry keeps its command and its URL when a local server is written: not
\* one that is an inline table.
InlineKept ==
    [][\A p \in Panels, k \in Key :
        LET s   == panel[p].sync
            old == files[Head(s.left)].map[k]
            new == files'[Head(s.left)].map[k]
        IN  /\ SyncRename(p) /\ files[Head(s.left)].map = s.base
            /\ ~IsHttp(s.inventory[k]) /\ Present(new) /\ IsHttp(old)
            => IsHttp(new)]_vars

\* A matrix that is saved can be read back: not one that says something of a
\* server whose name TOML must quote; no sync works until the file is mended.
SavedIsRead ==
    [][\A p \in Panels :
        panel[p].sync.at = "idle" /\ panel'[p].sync.at = "list" => stored' # Broken]_vars

\* A sync leaves nothing to do for the next: an upsert of a local server does
\* not change a remote entry of OpenCode, so it is planned for ever.
SyncIdle ==
    [][\A p \in Panels : GoodSync(p) =>
        \A a \in Agents, k \in Key :
            LET server == Inventory(files, obot)[k]
                e == files[a].map[k]
            IN  Present(server) => PlanAction(server, Enabled(stored, files, a, k), e) = "skip"]_vars

\* What another panel has stored is not undone by one that has not touched it.
StoredKept ==
    [][\A p \in Panels, k \in Key, a \in Agents :
        /\ panel[p].sync.at = "idle" /\ panel'[p].sync.at = "list"
        /\ stored # Broken /\ stored[k][a] # "unset"
        => stored'[k][a] # "unset"]_vars

\* A broken matrix file is not replaced by an empty one.
BrokenKept ==
    [][\A p \in Panels :
        panel[p].sync.at = "idle" /\ panel'[p].sync.at = "list" => stored # Broken]_vars

\* An agent's file keeps the entries that no sync knows of: a change between
\* the read and the rename is lost, and JSON that is being written is replaced
\* by what the sync wants.
ConfigKept ==
    [][\A p \in Panels, k \in Key :
        LET s == panel[p].sync
        IN  SyncRename(p) /\ ~Present(s.inventory[k]) /\ Present(files[Head(s.left)].map[k])
            => Present(files'[Head(s.left)].map[k])]_vars

\* A server that is stored as off is gone after a sync without errors: not one
\* that has left the inventory, because the gateway is down or no agent has its
\* command any more.
OffIsGone ==
    [][\A p \in Panels : GoodSync(p) =>
        \A k \in Key, a \in Agents :
            stored # Broken /\ stored[k][a] = "off" => ~Present(files[a].map[k])]_vars

\* toggle_cell: "not written until Sync" (a dry run stores the toggles too).
DryRunStoresNothing ==
    [][\A p \in Panels :
        panel[p].sync.at = "idle" /\ panel'[p].sync.at = "list" /\ panel'[p].sync.dry
        => stored' = stored]_vars
=============================================================================

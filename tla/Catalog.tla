------------------------------ MODULE Catalog -------------------------------
(***************************************************************************)
(* The catalog of what can be installed: tables os_templates, scripts and  *)
(* files. The REST API upserts and deletes OS templates, a sync pushes     *)
(* many, MCP tools create scripts and files and update single columns, and *)
(* both import the rows that are bundled in seeds/*.yaml.                  *)
(*                                                                         *)
(* A statement is atomic, but an update and an import read a row in one    *)
(* and write it in another: whatever is written in between is lost.        *)
(***************************************************************************)
EXTENDS Integers

CONSTANTS
    Templates,          \* bids of OS templates
    Scripts, Extras,    \* bids of scripts, and of files installed afterwards
    Values, Empty,      \* what a column can hold; "" among them
    Refs,               \* Refs[v]: the scripts and files a list of bids names
    Seeds,              \* Seeds[k]: the bundled row of k, NoRow when there is none
    Handlers,           \* handler goroutines of updates and imports
    MaxCalls,           \* bound: requests
    MayFail,            \* whether statements and reads of seeds/*.yaml can fail
    NoRow, Idle

Keys == Templates \cup Scripts \cup Extras

(* "resources" stands for the columns no update changes (distro path, ISO, *)
(* template file, boot type), "lists" for script_bids and file_bids, "text" *)
(* for label, kernel_args and mirror_url. A script or a file is one value.  *)
Columns == {"resources", "lists", "text"}
Editable == {"lists", "text"}
OSTemplate == [Columns -> Values]
Row == OSTemplate \cup Values
RowsOf(k) == IF k \in Templates THEN OSTemplate ELSE Values \ {Empty}
Change == UNION {[D -> Values] : D \in SUBSET Editable}

Seeded == {k \in Keys : Seeds[k] # NoRow}

ASSUME CatalogAssumption ==
    /\ Empty \in Values /\ MaxCalls \in Nat /\ MayFail \in BOOLEAN
    /\ NoRow \notin Row \cup Keys
    /\ Refs \in [Values -> SUBSET (Scripts \cup Extras)]
    /\ \A k \in Keys : Seeds[k] \in RowsOf(k) \cup {NoRow}
    /\ Templates \cap (Scripts \cup Extras) = {}

(* What a bundled template names is bundled.                               *)
ASSUME SeedsAssumption ==
    \A k \in Seeded \cap Templates : Refs[Seeds[k]["lists"]] \subseteq Seeded

VARIABLES
    rows,               \* the tables: rows[k] of key k
    call,               \* what each update or import is at
    calls,              \* requests so far
    imported,           \* history variable: whether an MCP import ended
    meant,              \* history variable: the rows, had each request been atomic
    raced,              \* history variable: keys written under a request that read
                        \* them, or whose read failed
    dropped             \* history variable: bundled keys that an import passed over
                        \* with an error, and nothing has written since

vars == <<rows, call, calls, imported, meant, raced, dropped>>

(* key: the row that was read and will be written; read: what it was.      *)
Call == [op : {"update", "import"}, key : Keys \cup {NoRow}, read : Row \cup {NoRow},
         change : Change, todo : SUBSET Keys, all : BOOLEAN, overwrite : BOOLEAN]

ASSUME CallAssumption == Idle \notin Call

Init ==
    /\ rows = [k \in Keys |-> NoRow]
    /\ call = [h \in Handlers |-> Idle]
    /\ calls = 0
    /\ imported = FALSE
    /\ meant = [k \in Keys |-> NoRow]
    /\ raced = {} /\ dropped = {}

There(k) == rows[k] # NoRow
Apply(change, row) == [c \in Columns |-> IF c \in DOMAIN change THEN change[c] ELSE row[c]]
Holds(h, k) == call[h] # Idle /\ call[h].key = k
Counted == calls < MaxCalls /\ calls' = calls + 1
-----------------------------------------------------------------------------
(* Requests that write whole rows                                          *)

(* The rows of f are written, whatever was there.                          *)
PutRows(f) ==
    /\ Counted
    /\ rows' = [k \in Keys |-> IF k \in DOMAIN f THEN f[k] ELSE rows[k]]
    /\ meant' = [k \in Keys |-> IF k \in DOMAIN f THEN f[k] ELSE meant[k]]
    /\ raced' = (raced \ DOMAIN f) \cup {k \in DOMAIN f : \E h \in Handlers : Holds(h, k)}
    /\ dropped' = dropped \ DOMAIN f
    /\ UNCHANGED <<call, imported>>

(* osTemplateUpsertHandler: INSERT OR REPLACE of every column.             *)
UpsertOSTemplate(b, r) == PutRows([k \in {b} |-> r])

(* Mutant: a script without content is taken.                              *)
CreateAnyScript(k, v) == PutRows([j \in {k} |-> v])

(* create_script, create_file: content and file name are required.         *)
CreateScript(k, v) == v # Empty /\ PutRows([j \in {k} |-> v])
CreateFile(k, v) == v # Empty /\ PutRows([j \in {k} |-> v])

(* SaveOSTemplates: the rows of a sync, in one transaction. A row of the   *)
(* old format (tpl_bid) has no lists, and empties the ones that are there. *)
FromOldFormat(r) == [r EXCEPT !["lists"] = Empty]
SaveOSTemplates(S, r, old) ==
    PutRows([b \in S |-> IF old THEN FromOldFormat(r) ELSE r])

(* osTemplateDeleteHandler. Scripts and files have no caller that deletes. *)
DeleteOSTemplate(b) == There(b) /\ PutRows([k \in {b} |-> NoRow])
-----------------------------------------------------------------------------
(* update_os_template                                                      *)

Begin(h, c) ==
    /\ call[h] = Idle
    /\ Counted
    /\ call' = [call EXCEPT ![h] = c]
    /\ UNCHANGED <<rows, imported, meant, raced, dropped>>

(* The row is read, and the columns the caller named are changed in memory. *)
FindOSTemplate(h, b, change) ==
    /\ There(b)
    /\ Begin(h, [op |-> "update", key |-> b, read |-> rows[b], change |-> change,
                 todo |-> {}, all |-> FALSE, overwrite |-> FALSE])

(* A row is written back; it was read by this request several steps ago.   *)
WriteBack(h, new, intended, then) ==
    LET k == call[h].key
    IN  /\ rows' = [rows EXCEPT ![k] = new]
        /\ meant' = [meant EXCEPT ![k] = intended]
        /\ raced' = raced \cup {j \in {k} : \E g \in Handlers \ {h} : Holds(g, k)}
        /\ dropped' = dropped \ {k}
        /\ call' = [call EXCEPT ![h] = then]
        /\ UNCHANGED <<calls, imported>>

Updating(h) == call[h] # Idle /\ call[h].op = "update"

(* Mutant: columns that the caller left out are written as empty.          *)
SaveOnlyChange(h) ==
    /\ Updating(h)
    /\ LET c == call[h]
           k == c.key
           Blank == [col \in Columns |-> IF col \in Editable THEN Empty ELSE c.read[col]]
       IN  WriteBack(h, Apply(c.change, Blank),
                     IF meant[k] = NoRow THEN NoRow ELSE Apply(c.change, meant[k]), Idle)

SaveUpdate(h) ==
    /\ Updating(h)
    /\ LET c == call[h]
           k == c.key
       IN  WriteBack(h, Apply(c.change, c.read),
                     IF meant[k] = NoRow THEN NoRow ELSE Apply(c.change, meant[k]), Idle)

(* The statement fails, and the caller is told.                            *)
SaveUpdateFails(h) ==
    /\ MayFail
    /\ Updating(h)
    /\ call' = [call EXCEPT ![h] = Idle]
    /\ UNCHANGED <<rows, calls, imported, meant, raced, dropped>>
-----------------------------------------------------------------------------
(* Seed import                                                             *)

Importing(h) == call[h] # Idle /\ call[h].op = "import"
Looking(h) == Importing(h) /\ call[h].key = NoRow

(* POST /api/seed/import reads the OS templates only; the MCP tool         *)
(* seed_import goes on with the scripts and the files. Without a readable  *)
(* os_templates.yaml either ends at once, which changes nothing.           *)
SeedImport(h, all, overwrite) ==
    Begin(h, [op |-> "import", key |-> NoRow, read |-> NoRow, change |-> << >>,
              todo |-> IF all THEN Seeded ELSE Seeded \cap Templates,
              all |-> all, overwrite |-> overwrite])

(* Templates come first, then scripts, then files.                         *)
Turn(todo) ==
    IF todo \cap Templates # {} THEN todo \cap Templates
    ELSE IF todo \cap Scripts # {} THEN todo \cap Scripts ELSE todo

(* Mutant: the file of rows is skipped when its first row is there.        *)
SkipWhenImported(h, k) ==
    /\ Looking(h) /\ k \in Turn(call[h].todo)
    /\ LET c == call[h]
       IN  call' = [call EXCEPT ![h] =
                       IF There(k) /\ ~ c.overwrite THEN [c EXCEPT !.todo = {}]
                       ELSE [c EXCEPT !.key = k, !.read = rows[k], !.todo = @ \ {k}]]
    /\ UNCHANGED <<rows, calls, imported, meant, raced, dropped>>

(* GetOSTemplate, GetScript, GetFile: a row that is there is left alone.   *)
LookUpSeed(h, k) ==
    /\ Looking(h) /\ k \in Turn(call[h].todo)
    /\ LET c == call[h]
       IN  call' = [call EXCEPT ![h] =
                       IF There(k) /\ ~ c.overwrite THEN [c EXCEPT !.todo = @ \ {k}]
                       ELSE [c EXCEPT !.key = k, !.read = rows[k], !.todo = @ \ {k}]]
    /\ UNCHANGED <<rows, calls, imported, meant, raced, dropped>>

(* The error of the lookup is dropped: a row that is there counts as       *)
(* absent, and will be written over.                                       *)
LookUpFails(h, k) ==
    /\ MayFail
    /\ Looking(h) /\ k \in Turn(call[h].todo)
    /\ LET c == call[h]
       IN  call' = [call EXCEPT ![h] = [c EXCEPT !.key = k, !.todo = @ \ {k}]]
    /\ raced' = raced \cup {j \in {k} : There(j)}
    /\ UNCHANGED <<rows, calls, imported, meant, dropped>>

PutSeed(h) ==
    /\ Importing(h) /\ call[h].key # NoRow
    /\ LET c == call[h]
           k == c.key
       IN  WriteBack(h, Seeds[k],
                     IF meant[k] # NoRow /\ ~ c.overwrite THEN meant[k] ELSE Seeds[k],
                     [c EXCEPT !.key = NoRow, !.read = NoRow])

(* The error of an OS template is reported with the result, the one of a   *)
(* script or a file is dropped: in both cases the import goes on.          *)
PutSeedFails(h) ==
    /\ MayFail
    /\ Importing(h) /\ call[h].key # NoRow
    /\ dropped' = dropped \cup {call[h].key}
    /\ call' = [call EXCEPT ![h] = [@ EXCEPT !.key = NoRow, !.read = NoRow]]
    /\ UNCHANGED <<rows, calls, imported, meant, raced>>

(* scripts.yaml or files.yaml is missing or does not parse: the import     *)
(* goes on without its rows, and ends as any other.                        *)
SkipSeeds(h) ==
    /\ MayFail
    /\ Looking(h)
    /\ LET c == call[h]
           S == Turn(c.todo)
       IN  /\ S \in {Seeded \cap Scripts, Seeded \cap Extras} \ {{}}
           /\ call' = [call EXCEPT ![h] = [c EXCEPT !.todo = @ \ S]]
           /\ dropped' = dropped \cup {k \in S : ~ There(k)}
    /\ UNCHANGED <<rows, calls, imported, meant, raced>>

EndImport(h) ==
    /\ Looking(h) /\ call[h].todo = {}
    /\ imported' = (imported \/ call[h].all)
    /\ call' = [call EXCEPT ![h] = Idle]
    /\ UNCHANGED <<rows, calls, meant, raced, dropped>>

(* The engine dies between two statements.                                 *)
Crash ==
    /\ \E h \in Handlers : call[h] # Idle
    /\ call' = [h \in Handlers |-> Idle]
    /\ UNCHANGED <<rows, calls, imported, meant, raced, dropped>>
-----------------------------------------------------------------------------
Write ==
    \/ \E b \in Templates :
          \/ \E r \in OSTemplate : UpsertOSTemplate(b, r)
          \/ DeleteOSTemplate(b)
    \/ \E S \in SUBSET Templates \ {{}}, r \in OSTemplate, old \in BOOLEAN :
          SaveOSTemplates(S, r, old)
    \/ \E k \in Scripts, v \in Values : CreateScript(k, v)
    \/ \E k \in Extras, v \in Values : CreateFile(k, v)

Request(h) ==
    \/ \E b \in Templates, change \in Change : FindOSTemplate(h, b, change)
    \/ \E all, overwrite \in BOOLEAN : SeedImport(h, all, overwrite)

Continue(h) ==
    \/ SaveUpdate(h) \/ SaveUpdateFails(h)
    \/ \E k \in Keys : LookUpSeed(h, k) \/ LookUpFails(h, k)
    \/ PutSeed(h) \/ PutSeedFails(h) \/ SkipSeeds(h) \/ EndImport(h)

Ask == Write \/ \E h \in Handlers : Request(h)

Work == \E h \in Handlers : Continue(h)

Next == Ask \/ Work \/ Crash

Spec == Init /\ [][Next]_vars
-----------------------------------------------------------------------------
(* Properties                                                              *)

(* Types of the tables and of the calls.                                   *)
TypeOK ==
    /\ rows \in [Keys -> Row \cup {NoRow}]
    /\ meant \in [Keys -> Row \cup {NoRow}]
    /\ \A k \in Keys : {rows[k], meant[k]} \subseteq RowsOf(k) \cup {NoRow}
    /\ call \in [Handlers -> Call \cup {Idle}]
    /\ calls \in Nat
    /\ imported \in BOOLEAN
    /\ raced \subseteq Keys
    /\ dropped \subseteq Seeded

(* Updates and imports are as good as atomic: columns the caller did not   *)
(* name stay, a deleted template stays deleted, and without overwrite an   *)
(* import leaves existing rows alone (seed_import.go:68), in any order and *)
(* number of requests, except for a row that is written by someone else    *)
(* between the two statements of a request, or whose lookup failed; it is  *)
(* then lost until the row is next written whole.                          *)
RowsAsMeant == \A k \in Keys \ raced : rows[k] = meant[k]

(* Once an MCP import has run to its end, whatever earlier one was cut off *)
(* half way and whatever rows it found, the scripts and files that a       *)
(* bundled OS template names are in the catalog, and stay there, but for   *)
(* those that an import passed over with an error of their own.            *)
SeedsResolve ==
    imported => \A b \in Seeded \cap Templates :
                    \A k \in Refs[Seeds[b]["lists"]] : There(k) \/ k \in dropped
=============================================================================

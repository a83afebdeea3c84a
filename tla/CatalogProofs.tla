---------------------------- MODULE CatalogProofs ----------------------------
(***************************************************************************)
(* Catalog for any tables, columns, seeds, handlers and bounds: types,     *)
(* RowsAsMeant and SeedsResolve.                                           *)
(***************************************************************************)
EXTENDS Catalog, TLAPS

USE CatalogAssumption, CallAssumption

(* What a call in flight knows. An update holds the row of a template. An  *)
(* import holds a bundled key; without overwrite, one that had no row.     *)
KnowsKey(c) ==
    /\ c.op = "update" => c.key \in Templates /\ c.read \in OSTemplate
    /\ c.op = "import" => c.todo \subseteq Seeded
    /\ c.op = "import" /\ c.key # NoRow =>
          c.key \in Seeded /\ (~ c.overwrite => c.read = NoRow)
    /\ c.op = "import" /\ c.key = NoRow => c.read = NoRow

(* What it read is what is still there, unless the key was written since.  *)
ReadIsCurrent(c) == c.key # NoRow /\ c.key \notin raced => rows[c.key] = c.read

(* An import of everything has each script and file in the catalog, before *)
(* it or in hand, or an import passed it over.                             *)
InCatalog(k) == There(k) \/ k \in dropped

Covers(c) ==
    c.op = "import" /\ c.all =>
        \A k \in Seeded \ Templates : InCatalog(k) \/ k \in c.todo \/ k = c.key

CallInv == \A h \in Handlers : call[h] # Idle => KnowsKey(call[h])
CurrentInv == \A h \in Handlers : call[h] # Idle => ReadIsCurrent(call[h])
CoverInv ==
    /\ \A h \in Handlers : call[h] # Idle => Covers(call[h])
    /\ imported => \A k \in Seeded \ Templates : InCatalog(k)

Inv == TypeOK /\ CallInv /\ CurrentInv /\ CoverInv /\ RowsAsMeant
-----------------------------------------------------------------------------
(* The changed row of a template is a row of a template.                   *)
LEMMA ApplyType ==
    ASSUME NEW change \in Change, NEW row \in OSTemplate
    PROVE  Apply(change, row) \in OSTemplate
<1>1. PICK D \in SUBSET Editable : change \in [D -> Values]
  BY DEF Change
<1> QED  BY <1>1 DEF Apply, OSTemplate, Columns, Editable

LEMMA KeyIsNoRow == NoRow \notin Keys /\ NoRow \notin Row
OBVIOUS

LEMMA RowsOfType == ASSUME NEW k \in Keys PROVE RowsOf(k) \subseteq Row
BY DEF RowsOf, Row

LEMMA SeedType == ASSUME NEW k \in Seeded PROVE k \in Keys /\ Seeds[k] \in RowsOf(k)
BY DEF Seeded

(* Initially there are no rows and no calls.                               *)
LEMMA InitInv == Init => Inv
<1> SUFFICES ASSUME Init PROVE Inv
  OBVIOUS
<1>1. TypeOK  BY DEF Init, TypeOK
<1> QED  BY <1>1 DEF Init, Inv, CallInv, CurrentInv, CoverInv, RowsAsMeant

(* Rows that are written whole race with every call that holds them.       *)
LEMMA PutRowsInv ==
    ASSUME Inv, NEW S \in SUBSET Keys, NEW f,
           DOMAIN f = S,
           \A k \in S : f[k] \in RowsOf(k) \/ (f[k] = NoRow /\ k \in Templates),
           PutRows(f)
    PROVE  Inv'
<1> USE DEF Inv
<1>1. /\ \A k \in Keys : rows'[k] = IF k \in S THEN f[k] ELSE rows[k]
      /\ \A k \in Keys : meant'[k] = IF k \in S THEN f[k] ELSE meant[k]
      /\ rows' = [k \in Keys |-> IF k \in S THEN f[k] ELSE rows[k]]
      /\ meant' = [k \in Keys |-> IF k \in S THEN f[k] ELSE meant[k]]
      /\ call' = call /\ imported' = imported /\ calls' \in Nat
  BY DEF PutRows, Counted, TypeOK
<1>2. \A k \in Keys : k \notin raced' =>
          IF k \in S THEN \A h \in Handlers : ~ Holds(h, k) ELSE k \notin raced
  BY DEF PutRows
<1>3. TypeOK'
  <2>1. \A k \in S : f[k] \in RowsOf(k) \cup {NoRow} /\ f[k] \in Row \cup {NoRow}
    BY RowsOfType
  <2>2. raced' \subseteq Keys /\ dropped' \subseteq Seeded
    BY DEF PutRows, TypeOK
  <2> QED  BY <1>1, <2>1, <2>2 DEF TypeOK
<1>4. CallInv'
  BY <1>1 DEF CallInv, KnowsKey
<1>5. CurrentInv'
  <2> SUFFICES ASSUME NEW h \in Handlers, call[h] # Idle, call[h].key # NoRow,
                      call[h].key \notin raced'
               PROVE  rows'[call[h].key] = call[h].read
    BY <1>1 DEF CurrentInv, ReadIsCurrent
  <2>1. call[h].key \in Keys /\ Holds(h, call[h].key)
    BY DEF TypeOK, Call, Holds
  <2> QED  BY <1>1, <1>2, <2>1 DEF CurrentInv, ReadIsCurrent
<1>6. \A k \in Seeded \ Templates : InCatalog(k) => InCatalog(k)'
  BY <1>1, RowsOfType DEF InCatalog, There, Seeded, PutRows
<1>7. CoverInv'
  BY <1>1, <1>6 DEF CoverInv, Covers
<1>8. RowsAsMeant'
  BY <1>1, <1>2 DEF RowsAsMeant
<1> QED  BY <1>3, <1>4, <1>5, <1>7, <1>8

(* A row that is written back races with every other call that holds it.   *)
LEMMA WriteBackInv ==
    ASSUME Inv, NEW h \in Handlers, call[h] # Idle, call[h].key # NoRow,
           NEW new \in RowsOf(call[h].key), NEW intended, NEW then \in Call \cup {Idle},
           intended \in RowsOf(call[h].key) \cup {NoRow},
           call[h].key \notin raced => intended = new,
           then # Idle => /\ then.key = NoRow /\ KnowsKey(then)
                          /\ then.op = call[h].op /\ then.all = call[h].all
                          /\ then.todo = call[h].todo,
           WriteBack(h, new, intended, then)
    PROVE  Inv'
<1> DEFINE k == call[h].key
<1> USE DEF Inv
<1>1. k \in Keys /\ new # NoRow
  BY RowsOfType DEF TypeOK, Call
<1>2. /\ \A j \in Keys : rows'[j] = IF j = k THEN new ELSE rows[j]
      /\ \A j \in Keys : meant'[j] = IF j = k THEN intended ELSE meant[j]
      /\ rows' = [rows EXCEPT ![k] = new] /\ meant' = [meant EXCEPT ![k] = intended]
      /\ \A g \in Handlers : call'[g] = IF g = h THEN then ELSE call[g]
      /\ call' = [call EXCEPT ![h] = then]
      /\ calls' = calls /\ imported' = imported
  BY <1>1 DEF WriteBack, TypeOK
<1>3. /\ raced \subseteq raced' /\ raced' \subseteq Keys
      /\ \A g \in Handlers \ {h} : call[g] # Idle /\ call[g].key = k => k \in raced'
      /\ dropped' = dropped \ {k}
  BY <1>1 DEF WriteBack, TypeOK, Holds
<1>4. TypeOK'
  BY <1>1, <1>2, <1>3, RowsOfType DEF TypeOK
<1>5. CallInv'
  BY <1>2 DEF CallInv, KnowsKey
<1>6. CurrentInv'
  <2> SUFFICES ASSUME NEW g \in Handlers, call'[g] # Idle, call'[g].key # NoRow,
                      call'[g].key \notin raced'
               PROVE  rows'[call'[g].key] = call'[g].read
    BY DEF CurrentInv, ReadIsCurrent
  <2>1. g # h /\ call'[g] = call[g]
    BY <1>2
  <2>2. call[g].key \in Keys /\ call[g].key # k
    BY <1>3, <2>1 DEF TypeOK, Call
  <2> QED  BY <1>2, <1>3, <2>1, <2>2 DEF CurrentInv, ReadIsCurrent
<1>7. \A j \in Seeded \ Templates : j = k \/ InCatalog(j) => InCatalog(j)'
  BY <1>1, <1>2, <1>3 DEF InCatalog, There, Seeded
<1>8. CoverInv'
  <2>1. ASSUME NEW g \in Handlers, call'[g] # Idle PROVE Covers(call[g])' 
    <3>1. CASE g = h
      BY <1>2, <1>7, <2>1, <3>1 DEF CoverInv, Covers
    <3>2. CASE g # h
      BY <1>2, <1>7, <2>1, <3>2 DEF CoverInv, Covers
    <3> QED  BY <3>1, <3>2
  <2>2. imported' => \A j \in Seeded \ Templates : InCatalog(j)'
    BY <1>2, <1>7 DEF CoverInv
  <2> QED  BY <2>1, <2>2 DEF CoverInv, Covers
<1>9. RowsAsMeant'
  BY <1>2, <1>3 DEF RowsAsMeant
<1> QED  BY <1>4, <1>5, <1>6, <1>8, <1>9
-----------------------------------------------------------------------------
(* Requests: each writes rows of the right tables, or starts with nothing. *)
LEMMA WriteStep == ASSUME Inv, Write PROVE Inv'
<1>1. ASSUME NEW b \in Templates, NEW r \in OSTemplate, UpsertOSTemplate(b, r) PROVE Inv'
  <2> DEFINE f == [k \in {b} |-> r]
  <2>1. PutRows(f)
    BY <1>1 DEF UpsertOSTemplate
  <2>2. DOMAIN f = {b} /\ {b} \in SUBSET Keys /\ f[b] \in RowsOf(b)
    BY DEF Keys, RowsOf
  <2> HIDE DEF f
  <2> QED  BY <2>1, <2>2, PutRowsInv
<1>2. ASSUME NEW b \in Templates, DeleteOSTemplate(b) PROVE Inv'
  <2> DEFINE f == [k \in {b} |-> NoRow]
  <2>1. PutRows(f)
    BY <1>2 DEF DeleteOSTemplate
  <2>2. DOMAIN f = {b} /\ {b} \in SUBSET Keys /\ f[b] = NoRow
    BY DEF Keys
  <2> HIDE DEF f
  <2> QED  BY <2>1, <2>2, PutRowsInv
<1>3. ASSUME NEW S \in SUBSET Templates, NEW r \in OSTemplate, NEW old \in BOOLEAN,
             SaveOSTemplates(S, r, old)
      PROVE  Inv'
  <2> DEFINE f == [b \in S |-> IF old THEN FromOldFormat(r) ELSE r]
  <2>1. PutRows(f)
    BY <1>3 DEF SaveOSTemplates
  <2>2. FromOldFormat(r) \in OSTemplate
    BY DEF FromOldFormat, OSTemplate, Columns
  <2>3. DOMAIN f = S /\ S \in SUBSET Keys /\ \A b \in S : f[b] \in RowsOf(b)
    BY <2>2 DEF Keys, RowsOf
  <2> HIDE DEF f
  <2> QED  BY <2>1, <2>3, PutRowsInv
<1>4. ASSUME NEW k \in Scripts \cup Extras, NEW v \in Values \ {Empty}, PutRows([j \in {k} |-> v])
      PROVE  Inv'
  <2> DEFINE f == [j \in {k} |-> v]
  <2>1. DOMAIN f = {k} /\ {k} \in SUBSET Keys
    BY DEF Keys
  <2>2. \A j \in {k} : f[j] \in RowsOf(j)
    BY DEF RowsOf
  <2>3. PutRows(f)
    BY <1>4
  <2> HIDE DEF f
  <2>4. \A j \in {k} : f[j] \in RowsOf(j) \/ (f[j] = NoRow /\ j \in Templates)
    BY <2>2
  <2> QED  BY <2>1, <2>3, <2>4, PutRowsInv
<1>5. ASSUME NEW k \in Scripts, NEW v \in Values, CreateScript(k, v) PROVE Inv'
  BY <1>4, <1>5 DEF CreateScript
<1>6. ASSUME NEW k \in Extras, NEW v \in Values, CreateFile(k, v) PROVE Inv'
  BY <1>4, <1>6 DEF CreateFile
<1> QED  BY <1>1, <1>2, <1>3, <1>5, <1>6 DEF Write

(* A call that starts changes no row.                                      *)
LEMMA BeginInv ==
    ASSUME Inv, NEW h \in Handlers, NEW c \in Call, Begin(h, c),
           KnowsKey(c), ReadIsCurrent(c), Covers(c)
    PROVE  Inv'
<1> USE DEF Inv
<1>1. /\ \A g \in Handlers : call'[g] = IF g = h THEN c ELSE call[g]
      /\ call' = [call EXCEPT ![h] = c] /\ calls' \in Nat
      /\ UNCHANGED <<rows, imported, meant, raced, dropped>>
  BY DEF Begin, Counted, TypeOK
<1>2. TypeOK'  BY <1>1 DEF TypeOK
<1>3. CallInv'  BY <1>1 DEF CallInv, KnowsKey
<1>4. CurrentInv'  BY <1>1 DEF CurrentInv, ReadIsCurrent
<1>5. CoverInv'  BY <1>1 DEF CoverInv, Covers, InCatalog, There
<1>6. RowsAsMeant'  BY <1>1 DEF RowsAsMeant
<1> QED  BY <1>2, <1>3, <1>4, <1>5, <1>6

LEMMA RequestStep == ASSUME Inv, NEW h \in Handlers, Request(h) PROVE Inv'
<1>1. ASSUME NEW b \in Templates, NEW change \in Change, FindOSTemplate(h, b, change)
      PROVE  Inv'
  <2> DEFINE c == [op |-> "update", key |-> b, read |-> rows[b], change |-> change,
                   todo |-> {}, all |-> FALSE, overwrite |-> FALSE]
  <2>1. rows[b] \in OSTemplate
    BY <1>1 DEF Inv, TypeOK, FindOSTemplate, There, RowsOf, Keys
  <2>2. c \in Call /\ KnowsKey(c) /\ ReadIsCurrent(c) /\ Covers(c)
    BY <2>1 DEF Call, Keys, Row, KnowsKey, ReadIsCurrent, Covers
  <2>3. Begin(h, c)
    BY <1>1 DEF FindOSTemplate
  <2> QED  BY <2>2, <2>3, BeginInv
<1>2. ASSUME NEW all \in BOOLEAN, NEW overwrite \in BOOLEAN, SeedImport(h, all, overwrite)
      PROVE  Inv'
  <2> DEFINE c == [op |-> "import", key |-> NoRow, read |-> NoRow, change |-> << >>,
                   todo |-> IF all THEN Seeded ELSE Seeded \cap Templates,
                   all |-> all, overwrite |-> overwrite]
  <2>1. << >> \in Change
    <3>1. << >> \in [{} -> Values]
      OBVIOUS
    <3> QED  BY <3>1 DEF Change
  <2>2. c \in Call /\ KnowsKey(c) /\ ReadIsCurrent(c) /\ Covers(c)
    BY <2>1 DEF Call, Seeded, KnowsKey, ReadIsCurrent, Covers
  <2>3. Begin(h, c)
    BY <1>2 DEF SeedImport
  <2> QED  BY <2>2, <2>3, BeginInv
<1> QED  BY <1>1, <1>2 DEF Request
-----------------------------------------------------------------------------
(* An update writes what it read with the columns it changes; an import    *)
(* writes the bundled row where there was none, or over what was there.    *)
LEMMA SaveUpdateStep == ASSUME Inv, NEW h \in Handlers, SaveUpdate(h) PROVE Inv'
<1> DEFINE c == call[h]
           k == c.key
           intended == IF meant[k] = NoRow THEN NoRow ELSE Apply(c.change, meant[k])
<1>1. c # Idle /\ c \in Call /\ k \in Templates /\ c.read \in OSTemplate
      /\ WriteBack(h, Apply(c.change, c.read), intended, Idle)
  BY DEF SaveUpdate, Updating, Inv, TypeOK, CallInv, KnowsKey
<1>2. k \in Keys /\ k # NoRow /\ RowsOf(k) = OSTemplate /\ c.change \in Change
  BY <1>1 DEF Keys, RowsOf, Call
<1>3. Apply(c.change, c.read) \in RowsOf(k)
  BY <1>1, <1>2, ApplyType
<1>4. k \notin raced => intended = Apply(c.change, c.read)
  <2>1. k \notin raced => rows[k] = c.read /\ rows[k] = meant[k]
    BY <1>1, <1>2 DEF Inv, CurrentInv, ReadIsCurrent, RowsAsMeant
  <2>2. c.read # NoRow
    BY <1>1 DEF Row
  <2> QED  BY <2>1, <2>2
<1>5. intended \in RowsOf(k) \cup {NoRow}
  <2>1. meant[k] \in Row \cup {NoRow}
    BY <1>2 DEF Inv, TypeOK
  <2>2. meant[k] # NoRow => meant[k] \in OSTemplate
    BY <1>2 DEF Inv, TypeOK
  <2> QED  BY <1>2, <2>2, ApplyType
<1> QED  BY <1>1, <1>2, <1>3, <1>4, <1>5, WriteBackInv

LEMMA PutSeedStep == ASSUME Inv, NEW h \in Handlers, PutSeed(h) PROVE Inv'
<1> DEFINE c == call[h]
           k == c.key
           intended == IF meant[k] # NoRow /\ ~ c.overwrite THEN meant[k] ELSE Seeds[k]
           then == [c EXCEPT !.key = NoRow, !.read = NoRow]
<1>1. c # Idle /\ c \in Call /\ c.op = "import" /\ k # NoRow /\ k \in Seeded
      /\ (~ c.overwrite => c.read = NoRow)
      /\ WriteBack(h, Seeds[k], intended, then)
  BY DEF PutSeed, Importing, Inv, TypeOK, CallInv, KnowsKey
<1>2. k \in Keys /\ Seeds[k] \in RowsOf(k)
  BY <1>1, SeedType
<1>3. then \in Call /\ then # Idle /\ then.key = NoRow /\ then.op = c.op /\ then.all = c.all
      /\ then.todo = c.todo
  BY <1>1 DEF Call
<1>4. KnowsKey(then)
  BY <1>1, <1>3 DEF Inv, CallInv, KnowsKey
<1>5. k \notin raced => intended = Seeds[k]
  BY <1>1, <1>2 DEF Inv, CurrentInv, ReadIsCurrent, RowsAsMeant
<1>6. intended \in RowsOf(k) \cup {NoRow}
  BY <1>2 DEF Inv, TypeOK
<1> QED  BY <1>1, <1>2, <1>3, <1>4, <1>5, <1>6, WriteBackInv

(* Looking at a row that is there leaves it; one that is not is in hand.   *)
LEMMA LookUpStep == ASSUME Inv, NEW h \in Handlers, NEW k \in Keys, LookUpSeed(h, k) PROVE Inv'
<1> DEFINE c == call[h]
           kept == There(k) /\ ~ c.overwrite
           d == IF kept THEN [c EXCEPT !.todo = @ \ {k}]
                ELSE [c EXCEPT !.key = k, !.read = rows[k], !.todo = @ \ {k}]
<1> USE DEF Inv
<1>1. /\ c # Idle /\ c \in Call /\ c.op = "import" /\ c.key = NoRow
      /\ k \in c.todo /\ c.todo \subseteq Seeded
      /\ rows[k] \in Row \cup {NoRow}
  BY DEF LookUpSeed, Looking, Importing, Turn, TypeOK, CallInv, KnowsKey
<1>2. /\ \A g \in Handlers : call'[g] = IF g = h THEN d ELSE call[g]
      /\ call' = [call EXCEPT ![h] = d]
      /\ UNCHANGED <<rows, calls, imported, meant, raced, dropped>>
  <2>1. UNCHANGED <<rows, calls, imported, meant, raced, dropped>>
    BY DEF LookUpSeed
  <2>2. call' = [call EXCEPT ![h] = d]
    <3>1. CASE kept  BY <3>1 DEF LookUpSeed
    <3>2. CASE ~ kept  BY <3>2 DEF LookUpSeed
    <3> QED  BY <3>1, <3>2
  <2> HIDE DEF d
  <2> QED  BY <2>1, <2>2 DEF TypeOK
<1>3. /\ d \in Call /\ d.op = "import" /\ d.all = c.all /\ d.overwrite = c.overwrite
      /\ d.todo = c.todo \ {k}
      /\ IF kept THEN d.key = NoRow /\ d.read = c.read ELSE d.key = k /\ d.read = rows[k]
  BY <1>1 DEF Call
<1> HIDE DEF d
<1>4. KnowsKey(d) /\ ReadIsCurrent(d)
  <2>1. c.read = NoRow
    BY <1>1 DEF CallInv, KnowsKey
  <2> QED  BY <1>1, <1>3, <2>1, KeyIsNoRow DEF KnowsKey, ReadIsCurrent, There
<1>5. Covers(d)
  <2>1. Covers(c)
    BY <1>1 DEF CoverInv
  <2>2. ~ kept => d.key = k
    BY <1>3
  <2>3. c.key \notin Seeded
    BY <1>1, KeyIsNoRow DEF Seeded
  <2>4. SUFFICES ASSUME c.all, NEW j \in Seeded \ Templates
                 PROVE  InCatalog(j) \/ j \in d.todo \/ j = d.key
    BY <1>3 DEF Covers
  <2>5. InCatalog(j) \/ j \in c.todo
    BY <1>1, <2>1, <2>3, <2>4 DEF Covers
  <2> QED  BY <1>3, <2>2, <2>5 DEF InCatalog
<1>6. TypeOK'  BY <1>2, <1>3 DEF TypeOK
<1>7. CallInv'  BY <1>2, <1>4 DEF CallInv, KnowsKey
<1>8. CurrentInv'  BY <1>2, <1>4 DEF CurrentInv, ReadIsCurrent
<1>9. CoverInv'
  <2>1. ASSUME NEW g \in Handlers, call'[g] # Idle PROVE Covers(call[g])'
    <3>1. CASE g = h  BY <1>2, <1>5, <3>1 DEF Covers, InCatalog, There
    <3>2. CASE g # h  BY <1>2, <2>1, <3>2 DEF CoverInv, Covers, InCatalog, There
    <3> QED  BY <3>1, <3>2
  <2> QED  BY <1>2, <2>1 DEF CoverInv, InCatalog, There
<1>10. RowsAsMeant'  BY <1>2 DEF RowsAsMeant
<1> QED  BY <1>6, <1>7, <1>8, <1>9, <1>10

(* A call that goes on without writing: its successor d knows no less.     *)
LEMMA CallStep ==
    ASSUME Inv, NEW h \in Handlers, NEW d \in Call \cup {Idle},
           call' = [call EXCEPT ![h] = d],
           UNCHANGED <<rows, calls, imported, meant>>,
           raced \subseteq raced', raced' \subseteq Keys,
           dropped \subseteq dropped', dropped' \subseteq Seeded,
           d # Idle => KnowsKey(d) /\ ReadIsCurrent(d)' /\ Covers(d)'
    PROVE  Inv'
<1> USE DEF Inv
<1>1. \A g \in Handlers : call'[g] = IF g = h THEN d ELSE call[g]
  BY DEF TypeOK
<1>2. TypeOK'  BY DEF TypeOK
<1>3. CallInv'  BY <1>1 DEF CallInv, KnowsKey
<1>4. CurrentInv'
  <2> SUFFICES ASSUME NEW g \in Handlers, call'[g] # Idle PROVE ReadIsCurrent(call[g])'
    BY DEF CurrentInv
  <2>1. CASE g = h  BY <1>1, <2>1 DEF ReadIsCurrent
  <2>2. CASE g # h  BY <1>1, <2>2 DEF CurrentInv, ReadIsCurrent
  <2> QED  BY <2>1, <2>2
<1>5. \A j \in Keys : InCatalog(j) => InCatalog(j)'
  BY DEF InCatalog, There
<1>6. CoverInv'
  <2>1. ASSUME NEW g \in Handlers, call'[g] # Idle PROVE Covers(call[g])'
    <3>1. CASE g = h  BY <1>1, <2>1, <3>1 DEF Covers
    <3>2. CASE g # h  BY <1>1, <1>5, <2>1, <3>2 DEF CoverInv, Covers, Seeded
    <3> QED  BY <3>1, <3>2
  <2> QED  BY <1>5, <2>1 DEF CoverInv, Seeded
<1>7. RowsAsMeant'  BY DEF RowsAsMeant
<1> QED  BY <1>2, <1>3, <1>4, <1>6, <1>7

LEMMA SaveFailsStep == ASSUME Inv, NEW h \in Handlers, SaveUpdateFails(h) PROVE Inv'
BY CallStep DEF SaveUpdateFails, Inv, TypeOK

(* A lookup that fails has the key in hand, and its row may be lost.       *)
LEMMA LookUpFailsStep ==
    ASSUME Inv, NEW h \in Handlers, NEW k \in Keys, LookUpFails(h, k) PROVE Inv'
<1> USE DEF Inv
<1>0. PICK c \in Call : c = call[h]
  BY DEF LookUpFails, Looking, Importing, TypeOK
<1>d. PICK d \in Call : d = [c EXCEPT !.key = k, !.todo = @ \ {k}]
  BY <1>0 DEF Call
<1>1. /\ c # Idle /\ c \in Call /\ c.op = "import" /\ c.key = NoRow /\ c.read = NoRow
      /\ k \in c.todo /\ c.todo \subseteq Seeded
      /\ Covers(c)
  BY <1>0 DEF LookUpFails, Looking, Importing, Turn, TypeOK, CallInv, KnowsKey, CoverInv
<1>2. /\ call' = [call EXCEPT ![h] = d]
      /\ raced' = raced \cup {j \in {k} : There(j)}
      /\ UNCHANGED <<rows, calls, imported, meant, dropped>>
  BY <1>0, <1>d DEF LookUpFails
<1>3. /\ d \in Call /\ d.op = "import" /\ d.all = c.all /\ d.overwrite = c.overwrite
      /\ d.todo = c.todo \ {k} /\ d.key = k /\ d.read = NoRow
  BY <1>1, <1>d DEF Call
<1>4. KnowsKey(d)
  BY <1>1, <1>3, KeyIsNoRow DEF KnowsKey
<1>5. ReadIsCurrent(d)'
  BY <1>2, <1>3 DEF ReadIsCurrent, There
<1>6. Covers(d)'
  <2>1. c.key \notin Seeded
    BY <1>1, KeyIsNoRow DEF Seeded
  <2> QED  BY <1>1, <1>2, <1>3, <2>1 DEF Covers, InCatalog, There
<1>7. raced' \subseteq Keys /\ dropped' \subseteq Seeded
  BY <1>2 DEF TypeOK
<1> QED  BY <1>2, <1>3, <1>4, <1>5, <1>6, <1>7, CallStep

(* What an import passes over is noted.                                    *)
LEMMA PutFailsStep == ASSUME Inv, NEW h \in Handlers, PutSeedFails(h) PROVE Inv'
<1> USE DEF Inv
<1>0. PICK c \in Call : c = call[h]
  BY DEF PutSeedFails, Importing, TypeOK
<1>d. PICK d \in Call : d = [c EXCEPT !.key = NoRow, !.read = NoRow]
  BY <1>0 DEF Call
<1>1. /\ c # Idle /\ c \in Call /\ c.op = "import" /\ c.key \in Seeded
      /\ c.todo \subseteq Seeded /\ Covers(c)
  BY <1>0 DEF PutSeedFails, Importing, TypeOK, CallInv, KnowsKey, CoverInv
<1>2. /\ call' = [call EXCEPT ![h] = d]
      /\ dropped' = dropped \cup {c.key}
      /\ UNCHANGED <<rows, calls, imported, meant, raced>>
  BY <1>0, <1>d DEF PutSeedFails
<1>3. /\ d \in Call /\ d.op = "import" /\ d.all = c.all /\ d.todo = c.todo
      /\ d.key = NoRow /\ d.read = NoRow
  BY <1>1, <1>d DEF Call
<1>4. KnowsKey(d)
  BY <1>1, <1>3 DEF KnowsKey
<1>5. ReadIsCurrent(d)'
  BY <1>3 DEF ReadIsCurrent
<1>6. Covers(d)'
  BY <1>1, <1>2, <1>3 DEF Covers, InCatalog, There
<1>7. raced' \subseteq Keys /\ dropped' \subseteq Seeded
  BY <1>1, <1>2 DEF TypeOK
<1> QED  BY <1>2, <1>3, <1>4, <1>5, <1>6, <1>7, CallStep

LEMMA SkipSeedsStep == ASSUME Inv, NEW h \in Handlers, SkipSeeds(h) PROVE Inv'
<1> USE DEF Inv
<1>0. PICK c \in Call : c = call[h]
  BY DEF SkipSeeds, Looking, Importing, TypeOK
<1>s. PICK S : S = Turn(c.todo)
  OBVIOUS
<1>d. PICK d \in Call : d = [c EXCEPT !.todo = @ \ S]
  BY <1>0 DEF Call
<1>1. /\ c # Idle /\ c \in Call /\ c.op = "import" /\ c.key = NoRow /\ c.read = NoRow
      /\ c.todo \subseteq Seeded /\ Covers(c)
  BY <1>0 DEF SkipSeeds, Looking, Importing, TypeOK, CallInv, KnowsKey, CoverInv
<1>2. /\ call' = [call EXCEPT ![h] = d]
      /\ dropped' = dropped \cup {k \in S : ~ There(k)}
      /\ UNCHANGED <<rows, calls, imported, meant, raced>>
  BY <1>0, <1>s, <1>d DEF SkipSeeds
<1>3. S \subseteq c.todo
  BY <1>s DEF Turn
<1>4. /\ d \in Call /\ d.op = "import" /\ d.all = c.all /\ d.todo = c.todo \ S
      /\ d.key = NoRow /\ d.read = NoRow
  BY <1>1, <1>d DEF Call
<1>5. KnowsKey(d)
  BY <1>1, <1>4 DEF KnowsKey
<1>6. ReadIsCurrent(d)'
  BY <1>4 DEF ReadIsCurrent
<1>7. Covers(d)'
  <2>1. c.key \notin Seeded
    BY <1>1, KeyIsNoRow DEF Seeded
  <2> QED  BY <1>1, <1>2, <1>4, <2>1 DEF Covers, InCatalog, There
<1>8. raced' \subseteq Keys /\ dropped' \subseteq Seeded
  BY <1>1, <1>2, <1>3 DEF TypeOK
<1> QED  BY <1>2, <1>4, <1>5, <1>6, <1>7, <1>8, CallStep

(* An import that has nothing left to do has everything in place.          *)
LEMMA EndImportStep == ASSUME Inv, NEW h \in Handlers, EndImport(h) PROVE Inv'
<1> USE DEF Inv
<1>1. /\ call[h] # Idle /\ call[h] \in Call /\ call[h].op = "import"
      /\ call[h].key = NoRow /\ call[h].todo = {}
      /\ imported' = (imported \/ call[h].all)
      /\ \A g \in Handlers : call'[g] = IF g = h THEN Idle ELSE call[g]
      /\ call' = [call EXCEPT ![h] = Idle]
      /\ UNCHANGED <<rows, calls, meant, raced, dropped>>
  BY DEF EndImport, Looking, Importing, TypeOK
<1>2. TypeOK'  BY <1>1 DEF TypeOK, Call
<1>3. CallInv'  BY <1>1 DEF CallInv, KnowsKey
<1>4. CurrentInv'  BY <1>1 DEF CurrentInv, ReadIsCurrent
<1>5. call[h].all => \A k \in Seeded \ Templates : InCatalog(k)
  BY <1>1 DEF CoverInv, Covers, Seeded
<1>6. CoverInv'
  <2>1. ASSUME NEW g \in Handlers, call'[g] # Idle PROVE Covers(call[g])'
    BY <1>1, <2>1 DEF CoverInv, Covers, InCatalog, There
  <2>2. imported' => \A k \in Seeded \ Templates : InCatalog(k)'
    BY <1>1, <1>5 DEF CoverInv, InCatalog, There
  <2> QED  BY <2>1, <2>2 DEF CoverInv
<1>7. RowsAsMeant'  BY <1>1 DEF RowsAsMeant
<1> QED  BY <1>2, <1>3, <1>4, <1>6, <1>7

LEMMA CrashStep == ASSUME Inv, Crash PROVE Inv'
<1> USE DEF Inv
<1>1. /\ call' = [h \in Handlers |-> Idle]
      /\ UNCHANGED <<rows, calls, imported, meant, raced, dropped>>
  BY DEF Crash
<1>2. TypeOK'  BY <1>1 DEF TypeOK
<1>3. CallInv' /\ CurrentInv'  BY <1>1 DEF CallInv, CurrentInv
<1>4. CoverInv'
  <2>1. \A h \in Handlers : call'[h] = Idle
    BY <1>1
  <2> QED  BY <1>1, <2>1 DEF CoverInv, Covers, InCatalog, There
<1>5. RowsAsMeant'  BY <1>1 DEF RowsAsMeant
<1> QED  BY <1>2, <1>3, <1>4, <1>5

(* Every step preserves the invariant.                                     *)
LEMMA NextInv == Inv /\ [Next]_vars => Inv'
<1> SUFFICES ASSUME Inv, [Next]_vars PROVE Inv'
  OBVIOUS
<1>1. CASE Write  BY <1>1, WriteStep
<1>2. ASSUME NEW h \in Handlers, Request(h) PROVE Inv'
  BY <1>2, RequestStep
<1>3. ASSUME NEW h \in Handlers, Continue(h) PROVE Inv'
  BY <1>3, SaveUpdateStep, SaveFailsStep, LookUpStep, LookUpFailsStep, PutSeedStep,
     PutFailsStep, SkipSeedsStep, EndImportStep DEF Continue
<1>4. CASE Crash  BY <1>4, CrashStep
<1>5. CASE UNCHANGED vars
  BY <1>5 DEF vars, Inv, TypeOK, CallInv, KnowsKey, CurrentInv, ReadIsCurrent, CoverInv, Covers,
              InCatalog, There, RowsAsMeant
<1> QED  BY <1>1, <1>2, <1>3, <1>4, <1>5 DEF Next, Ask, Work

LEMMA Invariance == Spec => []Inv
BY InitInv, NextInv, PTL DEF Spec
-----------------------------------------------------------------------------
(* Tables, calls and history keep their types.                             *)
THEOREM CatalogTypes == Spec => []TypeOK
<1>1. Inv => TypeOK  BY DEF Inv
<1> QED  BY <1>1, Invariance, PTL

(* Updates and imports are as good as atomic, but for rows that someone    *)
(* else writes between the statement that reads and the one that writes,   *)
(* and rows whose lookup failed.                                           *)
THEOREM UpdatesAreAtomic == Spec => []RowsAsMeant
<1>1. Inv => RowsAsMeant  BY DEF Inv
<1> QED  BY <1>1, Invariance, PTL

(* After an MCP import that ran to its end, the scripts and files that     *)
(* bundled templates name are in the catalog for good, but for those that  *)
(* an import passed over with an error of their own: no import that was    *)
(* cut off, raced with others or found half of the rows leaves more out.   *)
THEOREM ImportsResolve == Spec => []SeedsResolve
<1>1. Inv => SeedsResolve
  <2> SUFFICES ASSUME Inv, imported, NEW b \in Seeded \cap Templates,
                      NEW k \in Refs[Seeds[b]["lists"]]
               PROVE  There(k) \/ k \in dropped
    BY DEF SeedsResolve
  <2>1. Seeds[b]["lists"] \in Values
    BY DEF Seeded, RowsOf, OSTemplate, Columns
  <2>2. k \in Seeded \ Templates
    BY <2>1, SeedsAssumption
  <2> QED  BY <2>2 DEF Inv, CoverInv, InCatalog
<1> QED  BY <1>1, Invariance, PTL
=============================================================================

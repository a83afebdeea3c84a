------------------------ MODULE TaskAdmissionProofs ------------------------
(***************************************************************************)
(* IsoMounts and TaskAdmission for any tables, images, paths, files,       *)
(* machines, handlers and bounds: types, one mount per path, and what a    *)
(* task was promised and gets.                                             *)
(***************************************************************************)
EXTENDS TaskAdmission, TLAPS

USE MountsAssumption

(***************************************************************************)
(* Part I: the mounts                                                      *)
(***************************************************************************)

(* A path that no two requests raced for has at most one image, and none   *)
(* while a request is about to mount one; and at most one request is.      *)
Exclusive(p) ==
    /\ Len(mounts[p]) <= 1
    /\ \A m \in Mounters : About(m, p) => mounts[p] = << >>
    /\ \A m, n \in Mounters : About(m, p) /\ About(n, p) => m = n

MountInv == MountTypeOK /\ \A p \in Paths \ stacking : Exclusive(p)
-----------------------------------------------------------------------------
(* At the start a path is empty or has one image.                          *)
LEMMA InitialMounts ==
    ASSUME MountInit
    PROVE  mounts \in [Paths -> Seq(Isos)] /\ \A p \in Paths : Len(mounts[p]) <= 1
<1>1. \A s \in {<< >>} \cup {<<iso>> : iso \in images} : s \in Seq(Isos) /\ Len(s) <= 1
  <2>1. << >> \in Seq(Isos) /\ Len(<< >>) = 0
    OBVIOUS
  <2>2. \A iso \in Isos : <<iso>> \in Seq(Isos) /\ Len(<<iso>>) = 1
    OBVIOUS
  <2>3. images \subseteq Isos
    BY DEF MountInit
  <2>4. SUFFICES ASSUME NEW s \in {<< >>} \cup {<<iso>> : iso \in images}
                 PROVE  s \in Seq(Isos) /\ Len(s) <= 1
    OBVIOUS
  <2>5. s = << >> \/ \E iso \in images : s = <<iso>>
    BY <2>4
  <2>6. CASE s = << >>
    BY <2>1, <2>6
  <2>7. ASSUME NEW iso \in images, s = <<iso>> PROVE s \in Seq(Isos) /\ Len(s) <= 1
    <3>1. iso \in Isos
      BY <2>3
    <3>2. Len(<<iso>>) <= 1
      BY <2>2, <3>1
    <3>3. <<iso>> \in Seq(Isos)
      BY <2>2, <3>1
    <3> QED  BY <2>7, <3>2, <3>3
  <2> QED  BY <2>5, <2>6, <2>7
<1> QED  BY <1>1 DEF MountInit

LEMMA MountTypeInit == MountInit => MountTypeOK
BY InitialMounts DEF MountInit, MountTypeOK, MountAt

(* A request keeps its image and path while it goes on.                    *)
LEMMA MountGotoType ==
    ASSUME MountTypeOK, NEW m \in Mounters, mcall[m] # Idle,
           NEW pc \in {"check", "mount", "umount"}, MountGoto(m, pc),
           pc # "umount" => mcall[m].iso \in Isos
    PROVE  /\ mcall' \in [Mounters -> MountCall \cup {Idle}]
           /\ \A n \in Mounters, q \in {"stat", "check", "mount"} :
                 MountAt(n, q)' => mcall'[n].iso \in Isos
<1> DEFINE c == [mcall[m] EXCEPT !.pc = pc]
<1>1. c \in MountCall /\ c.iso = mcall[m].iso /\ c.pc = pc
  BY DEF MountTypeOK, MountCall
<1>2. mcall' = [mcall EXCEPT ![m] = c]
  BY DEF MountGoto
<1> HIDE DEF c
<1> QED  BY <1>1, <1>2 DEF MountTypeOK, MountAt

LEMMA MountReturnType ==
    ASSUME MountTypeOK, NEW m \in Mounters, MountReturn(m)
    PROVE  /\ mcall' \in [Mounters -> MountCall \cup {Idle}]
           /\ \A n \in Mounters, q \in {"stat", "check", "mount"} :
                 MountAt(n, q)' => mcall'[n].iso \in Isos
BY DEF MountTypeOK, MountReturn, MountAt

LEMMA MountRequestType ==
    ASSUME MountTypeOK, NEW m \in Mounters, NEW p \in Paths, NEW iso,
           NEW pc \in {"stat", "checkUmount"},
           IF pc = "stat" THEN iso \in Isos ELSE iso = Idle,
           MountRequest(m, iso, p, pc)
    PROVE  MountTypeOK'
<1> DEFINE c == [pc |-> pc, iso |-> iso, path |-> p]
<1>1. c \in MountCall /\ c.iso = iso /\ c.pc = pc
  BY DEF MountCall
<1>2. mcall' = [mcall EXCEPT ![m] = c] /\ mcalls' = mcalls + 1
      /\ UNCHANGED <<images, mounts, reboots, stacking>>
  BY DEF MountRequest
<1> HIDE DEF c
<1> QED  BY <1>1, <1>2 DEF MountTypeOK, MountAt

LEMMA MountTypeStep == MountTypeOK /\ [MountNext]_mountVars => MountTypeOK'
<1> SUFFICES ASSUME MountTypeOK, [MountNext]_mountVars PROVE MountTypeOK'
  OBVIOUS
<1>1. ASSUME NEW m \in Mounters, NEW p \in Paths, RequestUmount(m, p) PROVE MountTypeOK'
  BY <1>1, MountRequestType DEF RequestUmount
<1>2. ASSUME NEW m \in Mounters, NEW p \in Paths, NEW iso \in Isos, RequestMount(m, iso, p)
      PROVE  MountTypeOK'
  BY <1>2, MountRequestType DEF RequestMount
<1>3. ASSUME NEW m \in Mounters, StatIso(m) PROVE MountTypeOK'
  BY <1>3, MountGotoType, MountReturnType DEF StatIso, MountTypeOK, MountAt
<1>4. ASSUME NEW m \in Mounters, CheckMounted(m) PROVE MountTypeOK'
  <2>1. mcall[m] # Idle /\ mcall[m].iso \in Isos /\ mcall[m].path \in Paths
    BY <1>4 DEF CheckMounted, MountAt, MountTypeOK, MountCall
  <2>2. stacking' \subseteq Paths /\ UNCHANGED <<images, mounts, mcalls, reboots>>
    BY <1>4, <2>1 DEF CheckMounted, MountTypeOK
  <2>3. MountReturn(m) \/ MountGoto(m, "mount")
    BY <1>4 DEF CheckMounted
  <2> QED  BY <2>1, <2>2, <2>3, MountGotoType, MountReturnType DEF MountTypeOK
<1>5. ASSUME NEW m \in Mounters, MountIso(m) PROVE MountTypeOK'
  <2>1. mcall[m].path \in Paths /\ mcall[m].iso \in Isos
    BY <1>5 DEF MountIso, MountAt, MountTypeOK, MountCall
  <2>2. mounts' \in [Paths -> Seq(Isos)]
    BY <1>5, <2>1 DEF MountIso, MountTypeOK
  <2> QED  BY <1>5, <2>2, MountReturnType DEF MountIso, MountTypeOK
<1>6. ASSUME NEW m \in Mounters, CommandFails(m) PROVE MountTypeOK'
  BY <1>6, MountReturnType DEF CommandFails, MountTypeOK
<1>7. ASSUME NEW m \in Mounters, CheckUmount(m) PROVE MountTypeOK'
  BY <1>7, MountGotoType, MountReturnType DEF CheckUmount, MountTypeOK, MountAt
<1>8. ASSUME NEW m \in Mounters, Umount(m) PROVE MountTypeOK'
  <2>1. mcall[m].path \in Paths /\ mounts[mcall[m].path] # << >>
    BY <1>8 DEF Umount, MountAt, MountTypeOK, MountCall, IsMountPoint
  <2>2. mounts' \in [Paths -> Seq(Isos)]
    BY <1>8, <2>1 DEF Umount, MountTypeOK
  <2> QED  BY <1>8, <2>2, MountReturnType DEF Umount, MountTypeOK
<1>9. ASSUME NEW iso \in Isos, ChangeImage(iso) PROVE MountTypeOK'
  BY <1>9 DEF ChangeImage, MountTypeOK, MountAt
<1>10. CASE Reboot
  BY <1>10 DEF Reboot, MountTypeOK, MountAt
<1>11. CASE UNCHANGED mountVars
  BY <1>11 DEF mountVars, MountTypeOK, MountAt
<1> QED
  BY <1>1, <1>2, <1>3, <1>4, <1>5, <1>6, <1>7, <1>8, <1>9, <1>10, <1>11
  DEF MountNext, AskMount, ContinueMount
-----------------------------------------------------------------------------
(* A step that mounts nothing and starts no mount keeps a path exclusive.  *)
LEMMA Untouched ==
    ASSUME NEW p \in Paths, Exclusive(p), mounts'[p] = mounts[p],
           \A m \in Mounters : About(m, p)' => About(m, p)
    PROVE  Exclusive(p)'
BY DEF Exclusive

LEMMA InitExclusive == MountInit => \A p \in Paths : Exclusive(p)
<1> SUFFICES ASSUME MountInit, NEW p \in Paths PROVE Exclusive(p)
  OBVIOUS
<1>1. Len(mounts[p]) <= 1  BY InitialMounts
<1> QED  BY <1>1 DEF MountInit, Exclusive, About, MountAt

(* A request that stays away from "mount" is about to mount nothing.       *)
LEMMA NotAbout ==
    ASSUME MountTypeOK, NEW m \in Mounters, NEW p \in Paths,
           \A n \in Mounters \ {m} : mcall'[n] = mcall[n],
           mcall'[m] = Idle \/ mcall'[m].pc # "mount"
    PROVE  \A n \in Mounters : About(n, p)' => About(n, p)
BY DEF About, MountAt

LEMMA ExclusiveStep ==
    ASSUME MountInv, [MountNext]_mountVars, NEW p \in Paths \ stacking'
    PROVE  Exclusive(p)'
<1> USE DEF MountInv
<1>1. ASSUME NEW m \in Mounters, NEW q \in Paths, NEW iso, NEW pc \in {"stat", "checkUmount"},
             MountRequest(m, iso, q, pc)
      PROVE  Exclusive(p)'
  <2>1. /\ mounts' = mounts /\ stacking' = stacking
        /\ \A n \in Mounters \ {m} : mcall'[n] = mcall[n]
        /\ mcall'[m].pc # "mount"
    BY <1>1 DEF MountRequest, MountTypeOK
  <2> QED  BY <2>1, NotAbout, Untouched
<1>2. ASSUME NEW m \in Mounters, mcall[m] # Idle,
             MountReturn(m) \/ MountGoto(m, "check") \/ MountGoto(m, "umount"),
             UNCHANGED <<mounts, stacking>>
      PROVE  Exclusive(p)'
  <2>1. \A n \in Mounters \ {m} : mcall'[n] = mcall[n]
    BY <1>2 DEF MountReturn, MountGoto, MountTypeOK
  <2>2. mcall[m] \in MountCall
    BY <1>2 DEF MountTypeOK
  <2>3. mcall'[m] = Idle \/ mcall'[m].pc # "mount"
    BY <1>2, <2>2 DEF MountReturn, MountGoto, MountTypeOK, MountCall
  <2>4. \A n \in Mounters : About(n, p)' => About(n, p)
    BY <2>1, <2>3, NotAbout
  <2> QED  BY <1>2, <2>4, Untouched
<1>3. ASSUME NEW m \in Mounters, CheckMounted(m) PROVE Exclusive(p)'
  <2>1. CASE IsMountPoint(mcall[m].path)
    BY <1>2, <1>3, <2>1 DEF CheckMounted, MountAt
  <2>2. CASE ~ IsMountPoint(mcall[m].path)
    <3>1. /\ MountGoto(m, "mount") /\ mounts' = mounts
          /\ mcall[m] # Idle /\ mcall[m].pc = "check" /\ mcall[m] \in MountCall
          /\ p \notin stacking
          /\ p = mcall[m].path => \A n \in Mounters : ~ About(n, p)
      BY <1>3, <2>2 DEF CheckMounted, MountAt, MountTypeOK
    <3>2. \A n \in Mounters : About(n, p)' => About(n, p) \/ (n = m /\ p = mcall[m].path)
      BY <3>1 DEF MountGoto, MountTypeOK, About, MountAt, MountCall
    <3>3. Exclusive(p)
      BY <3>1
    <3>4. CASE p = mcall[m].path
      BY <2>2, <3>1, <3>2, <3>3, <3>4 DEF Exclusive, IsMountPoint
    <3>5. CASE p # mcall[m].path
      BY <3>1, <3>2, <3>3, <3>5, Untouched
    <3> QED  BY <3>4, <3>5
  <2> QED  BY <2>1, <2>2
<1>4. ASSUME NEW m \in Mounters, MountIso(m) PROVE Exclusive(p)'
  <2>1. /\ mounts' = [mounts EXCEPT ![mcall[m].path] = <<mcall[m].iso>> \o @]
        /\ mcall' = [mcall EXCEPT ![m] = Idle] /\ stacking' = stacking
        /\ About(m, mcall[m].path) /\ mcall[m].path \in Paths
    BY <1>4 DEF MountIso, MountReturn, MountAt, MountTypeOK, MountCall, About
  <2>2. \A n \in Mounters : About(n, p)' => n # m /\ About(n, p)
    BY <2>1 DEF MountTypeOK, About, MountAt
  <2>3. Exclusive(p)
    BY <2>1
  <2>4. CASE p = mcall[m].path
    <3>1. mounts[p] = << >> /\ \A n \in Mounters : ~ About(n, p)'
      BY <2>1, <2>2, <2>3, <2>4 DEF Exclusive
    <3>2. mounts'[p] = <<mcall[m].iso>> \o << >>
      BY <2>1, <2>4, <3>1 DEF MountTypeOK
    <3>3. Len(mounts'[p]) = 1
      BY <3>2
    <3> QED  BY <3>1, <3>3 DEF Exclusive
  <2>5. CASE p # mcall[m].path
    BY <2>1, <2>2, <2>3, <2>5, Untouched DEF MountTypeOK
  <2> QED  BY <2>4, <2>5
<1>5. ASSUME NEW m \in Mounters, Umount(m) PROVE Exclusive(p)'
  <2>1. /\ mounts' = [mounts EXCEPT ![mcall[m].path] = Tail(@)]
        /\ mcall' = [mcall EXCEPT ![m] = Idle]
        /\ stacking' = stacking \ {q \in {mcall[m].path} : Settled(q)}
        /\ mcall[m].path \in Paths /\ mounts[mcall[m].path] # << >>
    BY <1>5 DEF Umount, MountReturn, MountAt, MountTypeOK, MountCall, IsMountPoint
  <2>2. \A n \in Mounters : About(n, p)' => About(n, p)
    BY <2>1 DEF MountTypeOK, About, MountAt
  <2>3. CASE p # mcall[m].path
    <3>1. p \notin stacking /\ mounts'[p] = mounts[p]
      BY <2>1, <2>3 DEF MountTypeOK
    <3> QED  BY <2>2, <3>1, Untouched
  <2>4. CASE p = mcall[m].path
    <3>1. Len(mounts[p]) <= 1 /\ \A n \in Mounters : ~ About(n, p)
      <4>1. CASE p \in stacking
        <5>1. Settled(p)
          BY <2>1, <2>4, <4>1
        <5> QED  BY <5>1 DEF Settled
      <4>2. CASE p \notin stacking
        <5>1. Exclusive(p)
          BY <4>2
        <5> QED  BY <2>1, <2>4, <5>1 DEF Exclusive
      <4> QED  BY <4>1, <4>2
    <3>2. mounts[p] \in Seq(Isos) /\ mounts[p] # << >>
      BY <2>1, <2>4 DEF MountTypeOK
    <3>3. mounts'[p] = Tail(mounts[p])
      BY <2>1, <2>4 DEF MountTypeOK
    <3>4. Len(Tail(mounts[p])) = Len(mounts[p]) - 1
      BY <3>2
    <3> QED  BY <2>2, <3>1, <3>2, <3>3, <3>4 DEF Exclusive
  <2> QED  BY <2>3, <2>4
<1>6. ASSUME mounts' = mounts, stacking' = stacking, mcall' = mcall PROVE Exclusive(p)'
  BY <1>6 DEF Exclusive, About, MountAt
<1>7. CASE Reboot
  BY <1>7 DEF Reboot, Exclusive, About, MountAt
<1>8. ASSUME NEW m \in Mounters, ContinueMount(m) PROVE Exclusive(p)'
  BY <1>2, <1>3, <1>4, <1>5, <1>8 DEF ContinueMount, StatIso, CommandFails, CheckUmount, MountAt
<1>9. CASE AskMount
  BY <1>1, <1>6, <1>9 DEF AskMount, RequestMount, RequestUmount, ChangeImage
<1>10. CASE UNCHANGED mountVars
  BY <1>6, <1>10 DEF mountVars
<1> QED  BY <1>7, <1>8, <1>9, <1>10 DEF MountNext

LEMMA MountInvariance == MountSpec => []MountInv
<1>1. MountInit => MountInv
  BY MountTypeInit, InitExclusive DEF MountInv
<1>2. MountInv /\ [MountNext]_mountVars => MountInv'
  BY MountTypeStep, ExclusiveStep DEF MountInv
<1> QED  BY <1>1, <1>2, PTL DEF MountSpec
-----------------------------------------------------------------------------
(* Images, mounts and calls keep their types.                              *)
THEOREM MountTypes == MountSpec => []MountTypeOK
<1>1. MountInv => MountTypeOK  BY DEF MountInv
<1> QED  BY <1>1, MountInvariance, PTL

(* One image per path, but for requests that both looked before either     *)
(* mounted, and until those mounts are undone.                             *)
THEOREM MountsDoNotPileUp == MountSpec => []OneMountPerPath
<1>1. MountInv => OneMountPerPath  BY DEF MountInv, Exclusive, OneMountPerPath
<1> QED  BY <1>1, MountInvariance, PTL
-----------------------------------------------------------------------------
(***************************************************************************)
(* Part II: the catalog beside the tasks. What CatalogProofs shows of the  *)
(* tables alone holds of the tables here; what a task rests on is that     *)
(* rows keep their types, and that no script or file leaves the catalog.   *)
(***************************************************************************)
(* An update holds the row of a template, an import a bundled key.         *)
Knows(c) ==
    /\ c.op = "update" => c.key \in Templates /\ c.read \in Cat!OSTemplate
    /\ c.op = "import" => c.todo \subseteq Cat!Seeded
    /\ c.op = "import" /\ c.key # NoRow => c.key \in Cat!Seeded

CatalogInv == Cat!TypeOK /\ \A h \in Handlers : call[h] # Idle => Knows(call[h])

(* Scripts and files stay.                                                 *)
Stays == \A k \in Scripts \cup Extras : rows[k] # NoRow => rows'[k] # NoRow

LEMMA ApplyType ==
    ASSUME NEW change \in Cat!Change, NEW row \in Cat!OSTemplate
    PROVE  Cat!Apply(change, row) \in Cat!OSTemplate
<1>1. PICK D \in SUBSET Cat!Editable : change \in [D -> Values]
  BY DEF Cat!Change
<1> QED  BY <1>1 DEF Cat!Apply, Cat!OSTemplate, Cat!Columns, Cat!Editable

(* What the provers need of the constants of the catalog.                  *)
LEMMA CatalogFacts ==
    /\ Empty \in Values /\ MaxCalls \in Nat
    /\ NoRow \notin Cat!Row /\ NoRow \notin Cat!Keys /\ Idle \notin Cat!Call
    /\ \A k \in Cat!Seeded : k \in Cat!Keys /\ Seeds[k] \in Cat!RowsOf(k)
    /\ \A k \in Cat!Keys : Seeds[k] \in Cat!RowsOf(k) \cup {NoRow}
    /\ \A k \in Cat!Keys : Cat!RowsOf(k) \subseteq Cat!Row
    /\ Templates \cap (Scripts \cup Extras) = {}
    /\ Refs \in [Values -> SUBSET (Scripts \cup Extras)]
<1>1. \A k \in Cat!Keys : Cat!RowsOf(k) \subseteq Cat!Row
  BY DEF Cat!RowsOf, Cat!Row
<1> QED
  BY <1>1, PartsAssumption DEF Cat!CatalogAssumption, Cat!CallAssumption, Cat!Seeded

LEMMA CatalogPutRows ==
    ASSUME CatalogInv, NEW S \in SUBSET Cat!Keys, NEW f, DOMAIN f = S,
           \A k \in S : f[k] \in Cat!RowsOf(k) \/ (f[k] = NoRow /\ k \in Templates),
           Cat!PutRows(f)
    PROVE  CatalogInv' /\ Stays
<1>1. /\ \A k \in Cat!Keys : rows'[k] = IF k \in S THEN f[k] ELSE rows[k]
      /\ rows' = [k \in Cat!Keys |-> IF k \in S THEN f[k] ELSE rows[k]]
      /\ meant' = [k \in Cat!Keys |-> IF k \in S THEN f[k] ELSE meant[k]]
      /\ call' = call /\ imported' = imported /\ calls' \in Nat
  BY DEF Cat!PutRows, Cat!Counted, CatalogInv, Cat!TypeOK
<1>2. \A k \in S : f[k] \in Cat!RowsOf(k) \cup {NoRow} /\ f[k] \in Cat!Row \cup {NoRow}
  BY CatalogFacts
<1>3. raced' \subseteq Cat!Keys /\ dropped' \subseteq Cat!Seeded
  BY DEF Cat!PutRows, CatalogInv, Cat!TypeOK
<1>4. Cat!TypeOK'
  BY <1>1, <1>2, <1>3 DEF CatalogInv, Cat!TypeOK
<1>5. Stays
  BY <1>1, CatalogFacts DEF Stays, Cat!Keys
<1> QED  BY <1>1, <1>4, <1>5 DEF CatalogInv, Knows

LEMMA CatalogWriteBack ==
    ASSUME CatalogInv, NEW h \in Handlers, call[h] # Idle, call[h].key \in Cat!Keys,
           NEW new \in Cat!RowsOf(call[h].key), NEW intended, NEW then \in Cat!Call \cup {Idle},
           intended \in Cat!RowsOf(call[h].key) \cup {NoRow},
           then # Idle => Knows(then),
           Cat!WriteBack(h, new, intended, then)
    PROVE  CatalogInv' /\ Stays
<1> DEFINE k == call[h].key
<1>1. new \in Cat!Row /\ new # NoRow
  BY CatalogFacts
<1>2. /\ rows' = [rows EXCEPT ![k] = new] /\ meant' = [meant EXCEPT ![k] = intended]
      /\ call' = [call EXCEPT ![h] = then]
      /\ calls' = calls /\ imported' = imported
  BY DEF Cat!WriteBack
<1>3. raced' \subseteq Cat!Keys /\ dropped' \subseteq Cat!Seeded
  BY DEF Cat!WriteBack, CatalogInv, Cat!TypeOK
<1>4. intended \in Cat!Row \cup {NoRow}
  BY CatalogFacts
<1>5. Cat!TypeOK'
  BY <1>1, <1>2, <1>3, <1>4 DEF CatalogInv, Cat!TypeOK
<1>6. Stays
  BY <1>1, <1>2 DEF Stays, Cat!Keys, CatalogInv, Cat!TypeOK
<1>7. \A g \in Handlers : call'[g] # Idle => Knows(call'[g])
  BY <1>2 DEF CatalogInv, Cat!TypeOK
<1> QED  BY <1>5, <1>6, <1>7 DEF CatalogInv, Knows

(* A step that writes no row and leaves each call knowing what it does.    *)
LEMMA CatalogCalls ==
    ASSUME CatalogInv, UNCHANGED <<rows, meant>>, NEW h \in Handlers,
           NEW c \in Cat!Call \cup {Idle}, c # Idle => Knows(c),
           call' = [call EXCEPT ![h] = c],
           calls' \in Nat, imported' \in BOOLEAN,
           raced' \subseteq Cat!Keys, dropped' \subseteq Cat!Seeded
    PROVE  CatalogInv' /\ Stays
<1>1. Cat!TypeOK'
  BY DEF CatalogInv, Cat!TypeOK
<1>2. \A g \in Handlers : call'[g] # Idle => Knows(call'[g])
  BY DEF CatalogInv, Cat!TypeOK
<1> QED  BY <1>1, <1>2 DEF CatalogInv, Knows, Stays

LEMMA CatalogWrite == ASSUME CatalogInv, Cat!Write PROVE CatalogInv' /\ Stays
<1>1. ASSUME NEW b \in Templates, NEW r \in Cat!OSTemplate, Cat!UpsertOSTemplate(b, r)
      PROVE  CatalogInv' /\ Stays
  <2> DEFINE f == [k \in {b} |-> r]
  <2>1. Cat!PutRows(f)
    BY <1>1 DEF Cat!UpsertOSTemplate
  <2>2. DOMAIN f = {b} /\ {b} \in SUBSET Cat!Keys /\ f[b] \in Cat!RowsOf(b)
    BY DEF Cat!Keys, Cat!RowsOf
  <2> HIDE DEF f
  <2> QED  BY <2>1, <2>2, CatalogPutRows
<1>2. ASSUME NEW b \in Templates, Cat!DeleteOSTemplate(b) PROVE CatalogInv' /\ Stays
  <2> DEFINE f == [k \in {b} |-> NoRow]
  <2>1. Cat!PutRows(f)
    BY <1>2 DEF Cat!DeleteOSTemplate
  <2>2. DOMAIN f = {b} /\ {b} \in SUBSET Cat!Keys /\ f[b] = NoRow
    BY DEF Cat!Keys
  <2> HIDE DEF f
  <2> QED  BY <2>1, <2>2, CatalogPutRows
<1>3. ASSUME NEW S \in SUBSET Templates, NEW r \in Cat!OSTemplate, NEW old \in BOOLEAN,
             Cat!SaveOSTemplates(S, r, old)
      PROVE  CatalogInv' /\ Stays
  <2> DEFINE f == [b \in S |-> IF old THEN Cat!FromOldFormat(r) ELSE r]
  <2>1. Cat!PutRows(f)
    BY <1>3 DEF Cat!SaveOSTemplates
  <2>2. Cat!FromOldFormat(r) \in Cat!OSTemplate
    BY CatalogFacts DEF Cat!FromOldFormat, Cat!OSTemplate, Cat!Columns
  <2>3. DOMAIN f = S /\ S \in SUBSET Cat!Keys /\ \A b \in S : f[b] \in Cat!RowsOf(b)
    BY <2>2 DEF Cat!Keys, Cat!RowsOf
  <2> HIDE DEF f
  <2> QED  BY <2>1, <2>3, CatalogPutRows
<1>4. ASSUME NEW k \in Scripts \cup Extras, NEW v \in Values \ {Empty},
             Cat!PutRows([j \in {k} |-> v])
      PROVE  CatalogInv' /\ Stays
  <2> DEFINE f == [j \in {k} |-> v]
  <2>1. DOMAIN f = {k} /\ {k} \in SUBSET Cat!Keys
    BY DEF Cat!Keys
  <2>2. \A j \in {k} : f[j] \in Cat!RowsOf(j)
    BY CatalogFacts DEF Cat!RowsOf
  <2>3. Cat!PutRows(f)
    BY <1>4
  <2> HIDE DEF f
  <2> QED  BY <2>1, <2>2, <2>3, CatalogPutRows
<1>5. ASSUME NEW k \in Scripts, NEW v \in Values, Cat!CreateScript(k, v)
      PROVE  CatalogInv' /\ Stays
  BY <1>4, <1>5 DEF Cat!CreateScript
<1>6. ASSUME NEW k \in Extras, NEW v \in Values, Cat!CreateFile(k, v)
      PROVE  CatalogInv' /\ Stays
  BY <1>4, <1>6 DEF Cat!CreateFile
<1> QED  BY <1>1, <1>2, <1>3, <1>5, <1>6 DEF Cat!Write

LEMMA CatalogRequest ==
    ASSUME CatalogInv, NEW h \in Handlers, Cat!Request(h) PROVE CatalogInv' /\ Stays
<1>0. ASSUME NEW c \in Cat!Call, Knows(c), Cat!Begin(h, c) PROVE CatalogInv' /\ Stays
  <2>1. /\ call' = [call EXCEPT ![h] = c] /\ calls' = calls + 1
        /\ UNCHANGED <<rows, imported, meant, raced, dropped>>
    BY <1>0 DEF Cat!Begin, Cat!Counted
  <2>2. /\ calls' \in Nat /\ imported' \in BOOLEAN
        /\ raced' \subseteq Cat!Keys /\ dropped' \subseteq Cat!Seeded
    BY <2>1 DEF CatalogInv, Cat!TypeOK
  <2> QED  BY <1>0, <2>1, <2>2, CatalogCalls
<1>1. ASSUME NEW b \in Templates, NEW change \in Cat!Change, Cat!FindOSTemplate(h, b, change)
      PROVE  CatalogInv' /\ Stays
  <2> DEFINE c == [op |-> "update", key |-> b, read |-> rows[b], change |-> change,
                   todo |-> {}, all |-> FALSE, overwrite |-> FALSE]
  <2>1. rows[b] \in Cat!OSTemplate
    BY <1>1 DEF CatalogInv, Cat!TypeOK, Cat!FindOSTemplate, Cat!There, Cat!RowsOf, Cat!Keys
  <2>2. c \in Cat!Call /\ Knows(c)
    BY <2>1 DEF Cat!Call, Cat!Keys, Cat!Row, Knows
  <2>3. Cat!Begin(h, c)
    BY <1>1 DEF Cat!FindOSTemplate
  <2> HIDE DEF c
  <2> QED  BY <1>0, <2>2, <2>3
<1>2. ASSUME NEW all \in BOOLEAN, NEW overwrite \in BOOLEAN, Cat!SeedImport(h, all, overwrite)
      PROVE  CatalogInv' /\ Stays
  <2> DEFINE c == [op |-> "import", key |-> NoRow, read |-> NoRow, change |-> << >>,
                   todo |-> IF all THEN Cat!Seeded ELSE Cat!Seeded \cap Templates,
                   all |-> all, overwrite |-> overwrite]
  <2>1. << >> \in Cat!Change
    <3>1. << >> \in [{} -> Values]
      OBVIOUS
    <3> QED  BY <3>1 DEF Cat!Change
  <2>2. c \in Cat!Call /\ Knows(c)
    BY <2>1 DEF Cat!Call, Cat!Seeded, Knows
  <2>3. Cat!Begin(h, c)
    BY <1>2 DEF Cat!SeedImport
  <2> HIDE DEF c
  <2> QED  BY <1>0, <2>2, <2>3
<1> QED  BY <1>1, <1>2 DEF Cat!Request

LEMMA CatalogContinue ==
    ASSUME CatalogInv, NEW h \in Handlers, Cat!Continue(h) PROVE CatalogInv' /\ Stays
<1> DEFINE c == call[h]
           k == c.key
<1>0. c # Idle /\ c \in Cat!Call /\ Knows(c)
  BY DEF CatalogInv, Cat!TypeOK, Cat!Continue, Cat!SaveUpdate, Cat!SaveUpdateFails, Cat!Updating,
         Cat!LookUpSeed, Cat!LookUpFails, Cat!Looking, Cat!Importing, Cat!PutSeed, Cat!PutSeedFails,
         Cat!SkipSeeds, Cat!EndImport
<1>1. CASE Cat!SaveUpdate(h)
  <2> DEFINE intended == IF meant[k] = NoRow THEN NoRow ELSE Cat!Apply(c.change, meant[k])
  <2>1. /\ k \in Templates /\ c.read \in Cat!OSTemplate /\ c.change \in Cat!Change
        /\ Cat!WriteBack(h, Cat!Apply(c.change, c.read), intended, Idle)
    BY <1>0, <1>1 DEF Cat!SaveUpdate, Cat!Updating, Knows, Cat!Call
  <2>2. k \in Cat!Keys /\ Cat!RowsOf(k) = Cat!OSTemplate
    BY <2>1 DEF Cat!Keys, Cat!RowsOf
  <2>3. Cat!Apply(c.change, c.read) \in Cat!RowsOf(k)
    BY <2>1, <2>2, ApplyType
  <2>4. intended \in Cat!RowsOf(k) \cup {NoRow}
    <3>1. meant[k] # NoRow => meant[k] \in Cat!OSTemplate
      BY <2>2 DEF CatalogInv, Cat!TypeOK
    <3> QED  BY <2>1, <2>2, <3>1, ApplyType
  <2> HIDE DEF intended
  <2> QED  BY <1>0, <2>1, <2>2, <2>3, <2>4, CatalogWriteBack
<1>2. ASSUME NEW j \in Cat!Keys, Cat!LookUpSeed(h, j) PROVE CatalogInv' /\ Stays
  <2> DEFINE kept == Cat!There(j) /\ ~ c.overwrite
             d == IF kept THEN [c EXCEPT !.todo = @ \ {j}]
                  ELSE [c EXCEPT !.key = j, !.read = rows[j], !.todo = @ \ {j}]
  <2>1. /\ c.op = "import" /\ c.key = NoRow
        /\ j \in c.todo /\ c.todo \subseteq Cat!Seeded
        /\ rows[j] \in Cat!Row \cup {NoRow}
    BY <1>0, <1>2
    DEF Cat!LookUpSeed, Cat!Looking, Cat!Importing, Cat!Turn, CatalogInv, Cat!TypeOK, Knows
  <2>2. /\ UNCHANGED <<rows, calls, imported, meant, raced, dropped>>
        /\ call' = [call EXCEPT ![h] = d]
    <3>1. CASE kept  BY <1>2, <3>1 DEF Cat!LookUpSeed
    <3>2. CASE ~ kept  BY <1>2, <3>2 DEF Cat!LookUpSeed
    <3> QED  BY <3>1, <3>2
  <2>3. d \in Cat!Call
    BY <1>0, <2>1 DEF Cat!Call
  <2>4. Knows(d)
    BY <1>0, <2>1 DEF Cat!Call, Knows
  <2>5. /\ calls' \in Nat /\ imported' \in BOOLEAN
        /\ raced' \subseteq Cat!Keys /\ dropped' \subseteq Cat!Seeded
    BY <2>2 DEF CatalogInv, Cat!TypeOK
  <2> HIDE DEF d
  <2> QED  BY <2>2, <2>3, <2>4, <2>5, CatalogCalls
<1>3. CASE Cat!PutSeed(h)
  <2> DEFINE intended == IF meant[k] # NoRow /\ ~ c.overwrite THEN meant[k] ELSE Seeds[k]
             then == [c EXCEPT !.key = NoRow, !.read = NoRow]
  <2>1. k \in Cat!Seeded /\ Cat!WriteBack(h, Seeds[k], intended, then)
    BY <1>0, <1>3 DEF Cat!PutSeed, Cat!Importing, Knows
  <2>2. k \in Cat!Keys /\ Seeds[k] \in Cat!RowsOf(k)
    BY <2>1, CatalogFacts
  <2>3. then \in Cat!Call /\ Knows(then)
    BY <1>0, <1>3 DEF Cat!Call, Knows, Cat!PutSeed, Cat!Importing
  <2>4. intended \in Cat!RowsOf(k) \cup {NoRow}
    BY <2>2 DEF CatalogInv, Cat!TypeOK
  <2> HIDE DEF intended, then
  <2> QED  BY <1>0, <2>1, <2>2, <2>3, <2>4, CatalogWriteBack
<1>4. CASE Cat!EndImport(h)
  <2>1. call' = [call EXCEPT ![h] = Idle] /\ UNCHANGED <<rows, calls, meant, raced, dropped>>
    BY <1>4 DEF Cat!EndImport
  <2>2. /\ calls' \in Nat /\ imported' \in BOOLEAN
        /\ raced' \subseteq Cat!Keys /\ dropped' \subseteq Cat!Seeded
    BY <1>0, <1>4, <2>1 DEF Cat!EndImport, CatalogInv, Cat!TypeOK, Cat!Call
  <2> QED  BY <2>1, <2>2, CatalogCalls
<1>5. CASE Cat!SaveUpdateFails(h)
  <2>1. call' = [call EXCEPT ![h] = Idle]
        /\ UNCHANGED <<rows, calls, imported, meant, raced, dropped>>
    BY <1>5 DEF Cat!SaveUpdateFails
  <2>2. /\ calls' \in Nat /\ imported' \in BOOLEAN
        /\ raced' \subseteq Cat!Keys /\ dropped' \subseteq Cat!Seeded
    BY <2>1 DEF CatalogInv, Cat!TypeOK
  <2> QED  BY <2>1, <2>2, CatalogCalls
<1>6. ASSUME NEW j \in Cat!Keys, Cat!LookUpFails(h, j) PROVE CatalogInv' /\ Stays
  <2> DEFINE d == [c EXCEPT !.key = j, !.todo = @ \ {j}]
  <2>1. c.op = "import" /\ j \in c.todo /\ c.todo \subseteq Cat!Seeded
    BY <1>0, <1>6 DEF Cat!LookUpFails, Cat!Looking, Cat!Importing, Cat!Turn, Knows
  <2>2. /\ call' = [call EXCEPT ![h] = d] /\ raced' \subseteq raced \cup {j}
        /\ UNCHANGED <<rows, calls, imported, meant, dropped>>
    BY <1>6 DEF Cat!LookUpFails
  <2>3. d \in Cat!Call /\ Knows(d)
    BY <1>0, <2>1 DEF Cat!Call, Knows
  <2>4. /\ calls' \in Nat /\ imported' \in BOOLEAN
        /\ raced' \subseteq Cat!Keys /\ dropped' \subseteq Cat!Seeded
    BY <2>2 DEF CatalogInv, Cat!TypeOK
  <2> HIDE DEF d
  <2> QED  BY <2>2, <2>3, <2>4, CatalogCalls
<1>7. CASE Cat!PutSeedFails(h)
  <2> DEFINE d == [c EXCEPT !.key = NoRow, !.read = NoRow]
  <2>1. k \in Cat!Seeded
    BY <1>0, <1>7 DEF Cat!PutSeedFails, Cat!Importing, Knows
  <2>2. /\ call' = [call EXCEPT ![h] = d] /\ dropped' = dropped \cup {k}
        /\ UNCHANGED <<rows, calls, imported, meant, raced>>
    BY <1>7 DEF Cat!PutSeedFails
  <2>3. d \in Cat!Call /\ Knows(d)
    BY <1>0, <1>7 DEF Cat!Call, Knows, Cat!PutSeedFails, Cat!Importing
  <2>4. /\ calls' \in Nat /\ imported' \in BOOLEAN
        /\ raced' \subseteq Cat!Keys /\ dropped' \subseteq Cat!Seeded
    BY <2>1, <2>2 DEF CatalogInv, Cat!TypeOK
  <2> HIDE DEF d
  <2> QED  BY <2>2, <2>3, <2>4, CatalogCalls
<1>8. CASE Cat!SkipSeeds(h)
  <2> DEFINE S == Cat!Turn(c.todo)
             d == [c EXCEPT !.todo = @ \ S]
  <2>1. c.op = "import" /\ S \subseteq Cat!Seeded
    BY <1>8 DEF Cat!SkipSeeds, Cat!Looking, Cat!Importing
  <2>2. /\ call' = [call EXCEPT ![h] = d] /\ dropped' \subseteq dropped \cup S
        /\ UNCHANGED <<rows, calls, imported, meant, raced>>
    BY <1>8 DEF Cat!SkipSeeds
  <2> HIDE DEF S
  <2>3. d \in Cat!Call /\ Knows(d)
    BY <1>0, <2>1 DEF Cat!Call, Knows
  <2>4. /\ calls' \in Nat /\ imported' \in BOOLEAN
        /\ raced' \subseteq Cat!Keys /\ dropped' \subseteq Cat!Seeded
    BY <2>1, <2>2 DEF CatalogInv, Cat!TypeOK
  <2> HIDE DEF d
  <2> QED  BY <2>2, <2>3, <2>4, CatalogCalls
<1> QED  BY <1>1, <1>2, <1>3, <1>4, <1>5, <1>6, <1>7, <1>8 DEF Cat!Continue

(* No request or import takes a script or a file away.                     *)
LEMMA CatalogStep ==
    ASSUME CatalogInv, Cat!Ask \/ Cat!Work \/ UNCHANGED catalogVars
    PROVE  CatalogInv' /\ Stays
<1>1. CASE Cat!Ask
  BY <1>1, CatalogWrite, CatalogRequest DEF Cat!Ask
<1>2. CASE Cat!Work
  BY <1>2, CatalogContinue DEF Cat!Work
<1>3. CASE UNCHANGED catalogVars
  BY <1>3 DEF catalogVars, CatalogInv, Cat!TypeOK, Knows, Stays
<1> QED  BY <1>1, <1>2, <1>3
-----------------------------------------------------------------------------
(***************************************************************************)
(* Part III: types of the whole                                            *)
(***************************************************************************)
USE AdmissionAssumption

(* The mounts of a machine whose engine dies.                              *)
LEMMA MountsSurvive ==
    ASSUME MountInv, NEW S, mcall' = [m \in Mounters |-> IF m \in S THEN mcall[m] ELSE Idle],
           UNCHANGED <<images, mounts, mcalls, reboots, stacking>>
    PROVE  MountInv'
<1>1. MountTypeOK'
  BY DEF MountInv, MountTypeOK, MountAt
<1>2. ASSUME NEW p \in Paths \ stacking' PROVE Exclusive(p)'
  <2>1. Exclusive(p) /\ mounts'[p] = mounts[p]
    BY <1>2 DEF MountInv
  <2>2. \A m \in Mounters : About(m, p)' => About(m, p)
    BY DEF About, MountAt
  <2> QED  BY <2>1, <2>2, Untouched
<1> QED  BY <1>1, <1>2 DEF MountInv

LEMMA MountPart ==
    ASSUME MountInv, [MountNext]_mountVars PROVE MountInv'
BY MountTypeStep, ExclusiveStep DEF MountInv

(* A template is mounted as any image at any path.                         *)
LEMMA MountTemplateIsMount ==
    ASSUME CatalogInv, NEW m \in Mounters, NEW b \in Templates, MountTemplate(m, b)
    PROVE  MountNext
<1>1. rows[b] \in Cat!OSTemplate
  BY DEF CatalogInv, Cat!TypeOK, MountTemplate, Cat!RowsOf, Cat!Keys
<1>2. rows[b]["resources"] \in Values
  BY <1>1 DEF Cat!OSTemplate, Cat!Columns
<1> QED  BY <1>2 DEF MountTemplate, MountNext, AskMount

(* Each step is one of the catalog, one of the mounts, or of neither; when *)
(* the engine dies, calls of both are lost.                                *)
LEMMA CatalogSteps ==
    ASSUME CatalogInv, [Next]_vars PROVE CatalogInv' /\ Stays
<1>1. CASE Cat!Ask \/ Cat!Work \/ UNCHANGED catalogVars
  BY <1>1, CatalogStep
<1>2. CASE EngineDies
  <2>1. call' = [h \in Handlers |-> Idle] /\ UNCHANGED <<rows, calls, imported, meant, raced, dropped>>
    BY <1>2 DEF EngineDies
  <2>2. Cat!TypeOK'
    BY <2>1 DEF CatalogInv, Cat!TypeOK
  <2> QED  BY <2>1, <2>2 DEF CatalogInv, Stays
<1>3. Cat!Ask \/ Cat!Work \/ UNCHANGED catalogVars \/ EngineDies
  BY DEF Next, Ask, Work, AskTask, AskDisk, AskImage, AskBoot, Admit, Fill, Mounting, Boot, Crash, vars
<1> QED  BY <1>1, <1>2, <1>3

LEMMA MountSteps ==
    ASSUME CatalogInv, MountInv, [Next]_vars PROVE MountInv'
<1>1. CASE AskImage
  <2>1. CASE AskMount
    BY <2>1, MountPart DEF MountNext
  <2>2. CASE \E m \in Mounters, b \in Templates : MountTemplate(m, b)
    BY <2>2, MountPart, MountTemplateIsMount
  <2> QED  BY <1>1, <2>1, <2>2 DEF AskImage
<1>2. CASE Mounting
  BY <1>2, MountPart DEF Mounting, MountNext
<1>3. CASE Crash
  BY <1>3, MountsSurvive DEF Crash
<1>4. CASE EngineDies /\ Reboot
  BY <1>4, MountPart DEF MountNext
<1>5. CASE UNCHANGED mountVars
  BY <1>5, MountPart
<1>6. AskImage \/ Mounting \/ Crash \/ (EngineDies /\ Reboot) \/ UNCHANGED mountVars
  BY DEF Next, Ask, Work, AskTask, AskDisk, AskBoot, Admit, Fill, Boot, vars
<1> QED  BY <1>1, <1>2, <1>3, <1>4, <1>5, <1>6

-----------------------------------------------------------------------------
RestOK ==
    /\ file \in [Names -> {"absent", "empty", "whole"}]
    /\ stored \subseteq Extras
    /\ tasks \in [SNs -> Task \cup {NoRow}]
    /\ lastId \in 0 .. MaxCreates /\ asks \in 0 .. MaxAsks
    /\ acall \in [Admitters -> ACall \cup {Idle}]
    /\ machine \in [SNs -> Machine \cup {Idle}]
    /\ intact \subseteq Admitters \cup SNs

LEMMA TypeParts == TypeOK <=> Cat!TypeOK /\ MountTypeOK /\ RestOK
BY DEF TypeOK, RestOK

(* What is in the row of a template.                                       *)
LEMMA TemplateRow ==
    ASSUME NEW row \in Cat!OSTemplate
    PROVE  /\ row["resources"] \in Values /\ row["lists"] \in Values /\ row # NoRow
           /\ NameOf[row["resources"]] \in Names \cup {Empty}
           /\ PathOf[row["resources"]] \in Paths \cup {Empty}
           /\ IsoOf[row["resources"]] \in Isos \cup {Empty}
           /\ ListedScripts(row) \subseteq Scripts /\ ListedExtras(row) \subseteq Extras
<1>1. row["resources"] \in Values /\ row["lists"] \in Values
  BY DEF Cat!OSTemplate, Cat!Columns
<1>2. row # NoRow
  BY CatalogFacts DEF Cat!Row
<1> QED  BY <1>1, <1>2 DEF ListedScripts, ListedExtras

LEMMA RowOfTemplate ==
    ASSUME CatalogInv, NEW b \in Templates
    PROVE  rows[b] \in Cat!OSTemplate \cup {NoRow}
BY DEF CatalogInv, Cat!TypeOK, Cat!RowsOf, Cat!Keys

(* How a request for a task goes on, from c to d.                          *)
Checks(c, d) ==
    /\ d.row = c.row
    /\ \/ c.pc = "template" /\ d.pc = "iso" /\ TemplateOK(c.row)
       \/ c.pc = "iso" /\ d.pc = "repo" /\ IsoOK(c.row)
       \/ c.pc = "repo" /\ d.pc = "scripts" /\ RepoOK(c.row)
       \/ c.pc = "scripts" /\ d.pc = "files" /\ ScriptsOK(c.row)
       \/ c.pc = "files" /\ d.pc = "inherit" /\ FilesOK(c.row)

Inherits(c, d) ==
    \/ /\ c.pc = "inherit" /\ d.row = rows[c.os]
       /\ d.pc = IF d.row = NoRow THEN "insert" ELSE "inheritScripts"
    \/ /\ c.pc = "inheritScripts" /\ d.pc = "inheritFiles" /\ d.row = c.row
       /\ d.scripts = InDB(ListedScripts(c.row))
    \/ /\ c.pc = "inheritFiles" /\ d.pc = "insert" /\ d.row = c.row
       /\ d.scripts = c.scripts /\ d.extras = InDB(ListedExtras(c.row))

Inserts(c, d) ==
    /\ c.pc = "insert" /\ d.pc = "readBack" /\ d.row = c.row
    /\ d.scripts = c.scripts /\ d.extras = c.extras

Advance(c, d) ==
    /\ d.sn = c.sn /\ d.os = c.os /\ d.known = c.known
    /\ \/ c.pc = "row" /\ d.pc = "template" /\ d.row = rows[c.os] /\ d.row # NoRow
       \/ Checks(c, d) \/ Inherits(c, d) \/ Inserts(c, d)

(* A request that moves: what becomes of its record.                       *)
Moved(a, d) ==
    /\ acall[a] \in ACall /\ acall[a] # Idle
    /\ d = Idle \/ (d \in ACall /\ d # Idle /\ Advance(acall[a], d))
    /\ acall' = [acall EXCEPT ![a] = d] /\ acall'[a] = d

LEMMA MovedByReturn ==
    ASSUME RestOK, NEW a \in Admitters, acall[a] # Idle, Return(a)
    PROVE  Moved(a, Idle)
BY DEF RestOK, Return, Moved

LEMMA MovedByRecord ==
    ASSUME RestOK, NEW a \in Admitters, acall[a] # Idle, NEW d \in ACall,
           acall' = [acall EXCEPT ![a] = d], Advance(acall[a], d)
    PROVE  Moved(a, d)
BY PartsAssumption DEF RestOK, Moved

LEMMA CheckMoves ==
    ASSUME RestOK, NEW a \in Admitters, NEW pc, NEW ok, NEW next \in {"iso", "repo", "scripts", "files", "inherit"},
           Check(a, pc, ok, next), ok \in BOOLEAN,
           \A d : d.row = acall[a].row /\ acall[a].pc = pc /\ d.pc = next /\ ok => Checks(acall[a], d)
    PROVE  \E d : Moved(a, d)
<1>1. acall[a] # Idle /\ acall[a] \in ACall /\ acall[a].pc = pc
  BY DEF Check, At, RestOK
<1>2. CASE ~ ok
  BY <1>1, <1>2, MovedByReturn DEF Check
<1>3. CASE ok
  <2> DEFINE d == [acall[a] EXCEPT !.pc = next]
  <2>1. /\ d \in ACall /\ d.row = acall[a].row /\ d.pc = next
        /\ d.sn = acall[a].sn /\ d.os = acall[a].os /\ d.known = acall[a].known
    BY <1>1 DEF ACall
  <2>2. acall' = [acall EXCEPT ![a] = d]
    BY <1>3 DEF Check, Goto
  <2> HIDE DEF d
  <2>3. Advance(acall[a], d)
    BY <1>1, <1>3, <2>1 DEF Advance
  <2> QED  BY <1>1, <2>1, <2>2, <2>3, MovedByRecord
<1> QED  BY <1>2, <1>3

LEMMA ValidateMoves ==
    ASSUME RestOK, CatalogInv, NEW a \in Admitters, Validate(a)
    PROVE  \E d : Moved(a, d)
<1>1. CASE ReadRow(a)
  <2>1. acall[a] # Idle /\ acall[a] \in ACall /\ acall[a].pc = "row" /\ acall[a].os \in Templates
    BY <1>1 DEF ReadRow, At, RestOK, ACall
  <2> DEFINE row == rows[acall[a].os]
             d == [acall[a] EXCEPT !.pc = "template", !.row = row]
  <2>2. CASE row = NoRow
    BY <1>1, <2>1, <2>2, MovedByReturn DEF ReadRow
  <2>3. CASE row # NoRow
    <3>1. row \in Cat!OSTemplate
      BY <2>1, <2>3, RowOfTemplate
    <3>2. acall' = [acall EXCEPT ![a] = d]
      BY <1>1, <2>3 DEF ReadRow
    <3>3. /\ d \in ACall /\ d.row = row /\ d.pc = "template"
          /\ d.sn = acall[a].sn /\ d.os = acall[a].os /\ d.known = acall[a].known
      BY <2>1, <3>1 DEF ACall
    <3> HIDE DEF d
    <3>4. Advance(acall[a], d)
      BY <2>1, <2>3, <3>3 DEF Advance
    <3> QED  BY <2>1, <3>2, <3>3, <3>4, MovedByRecord
  <2> QED  BY <2>2, <2>3
<1>2. CASE CheckTemplate(a)
  BY <1>2, CheckMoves DEF CheckTemplate, Checks, TemplateOK
<1>3. CASE CheckIso(a)
  BY <1>3, CheckMoves DEF CheckIso, Checks, IsoOK
<1>4. CASE CheckRepo(a)
  BY <1>4, CheckMoves DEF CheckRepo, Checks, RepoOK
<1>5. CASE CheckScripts(a)
  BY <1>5, CheckMoves DEF CheckScripts, Checks, ScriptsOK
<1>6. CASE CheckFiles(a)
  BY <1>6, CheckMoves DEF CheckFiles, Checks, FilesOK
<1> QED  BY <1>1, <1>2, <1>3, <1>4, <1>5, <1>6 DEF Validate

LEMMA InheritMoves ==
    ASSUME RestOK, CatalogInv, NEW a \in Admitters,
           InheritRow(a) \/ InheritScripts(a) \/ InheritFiles(a)
    PROVE  \E d : Moved(a, d)
<1>0. acall[a] # Idle /\ acall[a] \in ACall /\ acall[a].os \in Templates
  BY DEF InheritRow, InheritScripts, InheritFiles, At, RestOK, ACall
<1> DEFINE c == acall[a]
<1>1. CASE InheritRow(a)
  <2> DEFINE row == rows[c.os]
             pc == IF row = NoRow THEN "insert" ELSE "inheritScripts"
             d == [c EXCEPT !.row = row, !.pc = pc]
  <2>1. row \in Cat!OSTemplate \cup {NoRow}
    BY <1>0, RowOfTemplate
  <2>2. acall' = [acall EXCEPT ![a] = d] /\ c.pc = "inherit"
    BY <1>1 DEF InheritRow, At
  <2>3. d \in ACall /\ d.row = row /\ d.pc = pc /\ d.sn = c.sn /\ d.os = c.os /\ d.known = c.known
    BY <1>0, <2>1 DEF ACall
  <2> HIDE DEF d
  <2>4. Advance(c, d)
    BY <2>2, <2>3 DEF Advance, Inherits
  <2> QED  BY <1>0, <2>2, <2>3, <2>4, MovedByRecord
<1>2. CASE InheritScripts(a)
  <2> DEFINE S == InDB(ListedScripts(c.row))
             d == [c EXCEPT !.pc = "inheritFiles", !.scripts = S]
  <2>1. S \subseteq Scripts
    BY DEF InDB, ListedScripts
  <2>2. acall' = [acall EXCEPT ![a] = d] /\ c.pc = "inheritScripts"
    BY <1>2 DEF InheritScripts, At
  <2> HIDE DEF S
  <2>3. /\ d \in ACall /\ d.row = c.row /\ d.pc = "inheritFiles" /\ d.sn = c.sn /\ d.os = c.os
        /\ d.known = c.known /\ d.scripts = S
    BY <1>0, <2>1 DEF ACall
  <2> HIDE DEF d
  <2>4. Advance(c, d)
    BY <2>2, <2>3 DEF Advance, Inherits, S
  <2> QED  BY <1>0, <2>2, <2>3, <2>4, MovedByRecord
<1>3. CASE InheritFiles(a)
  <2> DEFINE S == InDB(ListedExtras(c.row))
             d == [c EXCEPT !.pc = "insert", !.extras = S]
  <2>1. S \subseteq Extras
    BY DEF InDB, ListedExtras
  <2>2. acall' = [acall EXCEPT ![a] = d] /\ c.pc = "inheritFiles"
    BY <1>3 DEF InheritFiles, At
  <2> HIDE DEF S
  <2>3. /\ d \in ACall /\ d.row = c.row /\ d.pc = "insert" /\ d.sn = c.sn /\ d.os = c.os
        /\ d.known = c.known /\ d.scripts = c.scripts /\ d.extras = S
    BY <1>0, <2>1 DEF ACall
  <2> HIDE DEF d
  <2>4. Advance(c, d)
    BY <2>2, <2>3 DEF Advance, Inherits, S
  <2> QED  BY <1>0, <2>2, <2>3, <2>4, MovedByRecord
<1> QED  BY <1>1, <1>2, <1>3

(* The row that an insertion adds.                                         *)
NewTask(c) == [id |-> lastId + 1, os |-> c.os, scripts |-> c.scripts, extras |-> c.extras,
               known |-> c.known]

LEMMA InsertMoves ==
    ASSUME RestOK, NEW a \in Admitters, InsertTask(a)
    PROVE  \E d : /\ Moved(a, d)
                  /\ IF d = Idle THEN UNCHANGED <<tasks, lastId>>
                     ELSE /\ Inserts(acall[a], d) /\ tasks[acall[a].sn] = NoRow
                          /\ tasks' = [tasks EXCEPT ![acall[a].sn] = NewTask(acall[a])]
                          /\ lastId' = lastId + 1 /\ lastId' \in Ids
<1> DEFINE c == acall[a]
<1>0. acall[a] # Idle /\ c \in ACall /\ c.sn \in SNs /\ c.pc = "insert"
  BY DEF InsertTask, At, RestOK, ACall
<1>1. CASE tasks[c.sn] # NoRow
  BY <1>0, <1>1, MovedByReturn DEF InsertTask
<1>2. CASE tasks[c.sn] = NoRow
  <2> DEFINE d == [c EXCEPT !.pc = "readBack"]
  <2>1. /\ lastId < MaxCreates /\ lastId' = lastId + 1
        /\ tasks' = [tasks EXCEPT ![c.sn] = NewTask(c)]
    BY <1>2 DEF InsertTask, NewTask
  <2>2. acall' = [acall EXCEPT ![a] = d]
    BY <1>2, <2>1 DEF InsertTask
  <2>3. lastId' \in Ids
    BY <2>1 DEF RestOK, Ids
  <2>4. /\ d \in ACall /\ d.row = c.row /\ d.pc = "readBack" /\ d.sn = c.sn /\ d.os = c.os
        /\ d.known = c.known /\ d.scripts = c.scripts /\ d.extras = c.extras
    BY <1>0, <2>3 DEF ACall
  <2> HIDE DEF d
  <2>5. Inserts(c, d) /\ Advance(c, d)
    BY <1>0, <2>4 DEF Advance, Inserts
  <2>6. Moved(a, d) /\ d # Idle
    BY <1>0, <2>2, <2>4, <2>5, MovedByRecord, PartsAssumption
  <2> QED  BY <1>2, <2>1, <2>3, <2>5, <2>6
<1> QED  BY <1>1, <1>2

LEMMA ReadBackMoves ==
    ASSUME RestOK, NEW a \in Admitters, ReadBack(a)
    PROVE  Moved(a, Idle) /\ UNCHANGED <<tasks, lastId>>
BY MovedByReturn DEF ReadBack, At

(* How a machine goes on, from m to d.                                     *)
BootMoves(m, d) ==
    /\ d.id = m.id /\ d.os = m.os
    /\ \/ m.pc = "find" /\ d.pc = "kernel" /\ d.row = rows[m.os] /\ d.row # NoRow
       \/ m.pc = "find" /\ d.pc = "end" /\ rows[m.os] = NoRow
       \/ m.pc = "kernel" /\ d.pc = "answer"
       \/ m.pc = "kernel" /\ d.pc = "end" /\ ~ Bootable(m.row)
       \/ m.pc = "answer" /\ d.pc = "render" /\ d.row = rows[m.os] /\ d.tried = 0
       \/ /\ m.pc = "render" /\ d.pc \in {"render", "end"}
          /\ m.tried = 0 /\ OwnFile(m.row) # Empty /\ file[OwnFile(m.row)] # "absent" =>
                d.pc = "end" /\ d.got = file[OwnFile(m.row)] /\ d.from = OwnFile(m.row)

Booted(s, d) ==
    /\ machine[s] \in Machine /\ machine[s] # Idle
    /\ d \in Machine /\ d # Idle /\ BootMoves(machine[s], d)
    /\ machine' = [machine EXCEPT ![s] = d] /\ machine'[s] = d

LEMMA BootedByRecord ==
    ASSUME RestOK, NEW s \in SNs, machine[s] # Idle, NEW d \in Machine,
           machine' = [machine EXCEPT ![s] = d], BootMoves(machine[s], d)
    PROVE  Booted(s, d)
BY PartsAssumption DEF RestOK, Booted

LEMMA EndMoves ==
    ASSUME RestOK, NEW s \in SNs, machine[s] # Idle,
           NEW got \in {"nothing", "shell", "whole", "empty"}, NEW from \in Names \cup {Empty},
           End(s, got, from),
           \A d : d.id = machine[s].id /\ d.os = machine[s].os /\ d.pc = "end"
                  /\ d.got = got /\ d.from = from => BootMoves(machine[s], d)
    PROVE  \E d : Booted(s, d)
<1> DEFINE d == [machine[s] EXCEPT !.pc = "end", !.tried = 0, !.got = got, !.from = from]
<1>1. machine[s] \in Machine
  BY DEF RestOK
<1>2. /\ d \in Machine /\ d.id = machine[s].id /\ d.os = machine[s].os /\ d.pc = "end"
      /\ d.got = got /\ d.from = from
  BY <1>1 DEF Machine
<1>3. machine' = [machine EXCEPT ![s] = d]
  BY DEF End
<1> HIDE DEF d
<1> QED  BY <1>2, <1>3, BootedByRecord

(* The file of the row is the answer when it is there.                     *)
LEMMA AnswerMoves ==
    ASSUME RestOK, NEW s \in SNs, RenderAnswer(s)
    PROVE  \E d : Booted(s, d)
<1> DEFINE m == machine[s]
           own == OwnFile(m.row)
           files == <<own>> \o Fallbacks[m.os]
           i == m.tried + 1
           N == Names \cup {Empty}
<1>1. m # Idle /\ m \in Machine /\ m.pc = "render" /\ m.os \in Templates
      /\ m.row \in Cat!OSTemplate \cup {NoRow} /\ m.tried \in Nat
  BY DEF RenderAnswer, TryNext, MachineAt, RestOK, Machine
<1>2. own \in N
  <2>1. CASE m.row = NoRow
    BY <2>1 DEF OwnFile
  <2>2. CASE m.row \in Cat!OSTemplate
    BY <2>2, TemplateRow DEF OwnFile
  <2> QED  BY <1>1, <2>1, <2>2
<1>3. Fallbacks[m.os] \in Seq(N)
  BY <1>1
<1>4. files \in Seq(N) /\ Len(files) >= 1 /\ files[1] = own
  <2> HIDE DEF own
  <2> QED  BY <1>2, <1>3
<1>5. \/ i > Len(files) /\ End(s, "nothing", Empty)
      \/ i <= Len(files) /\ files[i] # Empty /\ file[files[i]] # "absent" /\ End(s, file[files[i]], files[i])
      \/ /\ i <= Len(files) /\ ~ (files[i] # Empty /\ file[files[i]] # "absent")
         /\ machine' = [machine EXCEPT ![s].tried = i]
  <2>1. i \in Nat /\ Len(files) \in Nat
    BY <1>1, <1>4
  <2> HIDE DEF files
  <2>2. i > Len(files) \/ i <= Len(files)
    BY <2>1
  <2>3. IF i > Len(files) THEN End(s, "nothing", Empty)
        ELSE IF files[i] # Empty /\ file[files[i]] # "absent" THEN End(s, file[files[i]], files[i])
        ELSE machine' = [machine EXCEPT ![s].tried = i]
    BY DEF RenderAnswer, TryNext, files
  <2>4. i <= Len(files) => ~ (i > Len(files))
    BY <2>1
  <2> QED  BY <2>2, <2>3, <2>4
<1> HIDE DEF files
<1>6. CASE i > Len(files) /\ End(s, "nothing", Empty)
  <2>1. m.tried # 0
    BY <1>1, <1>4, <1>6
  <2>2. \A d : d.id = m.id /\ d.os = m.os /\ d.pc = "end" => BootMoves(m, d)
    BY <1>1, <2>1 DEF BootMoves
  <2> QED  BY <1>1, <1>6, <2>2, EndMoves
<1>7. CASE i <= Len(files) /\ files[i] # Empty /\ file[files[i]] # "absent" /\ End(s, file[files[i]], files[i])
  <2>0. i \in 1 .. Len(files)
    BY <1>1, <1>4, <1>7
  <2>1. files[i] \in Names /\ file[files[i]] \in {"whole", "empty"}
    <3>1. files[i] \in N
      BY <1>4, <2>0
    <3> QED  BY <1>7, <3>1 DEF RestOK
  <2>2. m.tried = 0 => files[i] = own
    BY <1>4
  <2>3. PICK n \in Names, got \in {"nothing", "shell", "whole", "empty"} :
           n = files[i] /\ got = file[files[i]]
    BY <2>1
  <2>4. \A d : d.id = m.id /\ d.os = m.os /\ d.pc = "end" /\ d.got = got /\ d.from = n
               => BootMoves(m, d)
    BY <1>1, <2>2, <2>3 DEF BootMoves
  <2>5. End(s, got, n)
    BY <1>7, <2>3
  <2> QED  BY <1>1, <2>4, <2>5, EndMoves
<1>8. CASE /\ i <= Len(files) /\ ~ (files[i] # Empty /\ file[files[i]] # "absent")
           /\ machine' = [machine EXCEPT ![s].tried = i]
  <2>1. m.tried = 0 => files[i] = own
    BY <1>4
  <2> DEFINE d == [m EXCEPT !.tried = i]
  <2>2. machine' = [machine EXCEPT ![s] = d]
    BY <1>8
  <2>3. d \in Machine /\ d.id = m.id /\ d.os = m.os /\ d.pc = "render"
    <3>1. i \in Nat
      BY <1>1
    <3> HIDE DEF i
    <3> QED  BY <1>1, <3>1 DEF Machine
  <2> HIDE DEF d
  <2>4. BootMoves(m, d)
    BY <1>1, <1>8, <2>1, <2>3 DEF BootMoves
  <2> QED  BY <1>1, <2>2, <2>3, <2>4, BootedByRecord
<1> QED  BY <1>5, <1>6, <1>7, <1>8

LEMMA BootSteps ==
    ASSUME RestOK, CatalogInv, NEW s \in SNs,
           FindBootTemplate(s) \/ FetchKernel(s) \/ AskAnswer(s) \/ RenderAnswer(s)
    PROVE  \E d : Booted(s, d)
<1> DEFINE m == machine[s]
           row == rows[m.os]
<1>0. m # Idle /\ m \in Machine /\ m.os \in Templates
  BY DEF FindBootTemplate, FetchKernel, AskAnswer, RenderAnswer, TryNext, MachineAt, RestOK, Machine
<1>1. row \in Cat!OSTemplate \cup {NoRow}
  BY <1>0, RowOfTemplate
<1>2. CASE FindBootTemplate(s)
  <2>1. CASE row = NoRow
    <3>1. m.pc = "find" /\ End(s, "shell", Empty)
      BY <1>2, <2>1 DEF FindBootTemplate, MachineAt
    <3>2. \A d : d.id = m.id /\ d.os = m.os /\ d.pc = "end" => BootMoves(m, d)
      BY <2>1, <3>1 DEF BootMoves
    <3> QED  BY <1>0, <3>1, <3>2, EndMoves
  <2>2. CASE row # NoRow
    <3> DEFINE d == [m EXCEPT !.pc = "kernel", !.row = row]
    <3>1. m.pc = "find" /\ machine' = [machine EXCEPT ![s] = d]
      BY <1>2, <2>2 DEF FindBootTemplate, MachineAt
    <3>2. d \in Machine /\ d.id = m.id /\ d.os = m.os /\ d.pc = "kernel" /\ d.row = row
      BY <1>0, <1>1 DEF Machine
    <3> HIDE DEF d
    <3>3. BootMoves(m, d)
      BY <2>2, <3>1, <3>2 DEF BootMoves
    <3> QED  BY <1>0, <3>1, <3>2, <3>3, BootedByRecord
  <2> QED  BY <2>1, <2>2
<1>3. CASE FetchKernel(s)
  <2>0. m.pc = "kernel"
    BY <1>3 DEF FetchKernel, MachineAt
  <2>1. CASE machine' = [machine EXCEPT ![s].pc = "answer"]
    <3> DEFINE d == [m EXCEPT !.pc = "answer"]
    <3>1. machine' = [machine EXCEPT ![s] = d]
      BY <2>1
    <3>2. d \in Machine /\ d.id = m.id /\ d.os = m.os /\ d.pc = "answer"
      BY <1>0 DEF Machine
    <3> HIDE DEF d
    <3>3. BootMoves(m, d)
      BY <2>0, <3>2 DEF BootMoves
    <3> QED  BY <1>0, <3>1, <3>2, <3>3, BootedByRecord
  <2>2. CASE ~ Bootable(m.row) /\ End(s, "shell", Empty)
    <3>1. \A d : d.id = m.id /\ d.os = m.os /\ d.pc = "end" => BootMoves(m, d)
      BY <2>0, <2>2 DEF BootMoves
    <3> QED  BY <1>0, <2>2, <3>1, EndMoves
  <2> QED  BY <1>3, <2>1, <2>2 DEF FetchKernel
<1>4. CASE AskAnswer(s)
  <2> DEFINE d == [m EXCEPT !.pc = "render", !.tried = 0, !.row = row]
  <2>1. m.pc = "answer" /\ machine' = [machine EXCEPT ![s] = d]
    BY <1>4 DEF AskAnswer, MachineAt
  <2>2. d \in Machine /\ d.id = m.id /\ d.os = m.os /\ d.pc = "render" /\ d.row = row /\ d.tried = 0
    BY <1>0, <1>1 DEF Machine
  <2> HIDE DEF d
  <2>3. BootMoves(m, d)
    BY <2>1, <2>2 DEF BootMoves
  <2> QED  BY <1>0, <2>1, <2>2, <2>3, BootedByRecord
<1> QED  BY <1>2, <1>3, <1>4, AnswerMoves

(* A machine that asks to be booted learns of the task of now.             *)
LEMMA BootStarts ==
    ASSUME RestOK, NEW s \in SNs, BootBySN(s)
    PROVE  \E d : /\ d \in Machine /\ d # Idle /\ d.pc = "find"
                  /\ tasks[s] \in Task /\ tasks[s] # NoRow
                  /\ d.id = tasks[s].id /\ d.os = tasks[s].os
                  /\ machine' = [machine EXCEPT ![s] = d] /\ machine'[s] = d
<1> DEFINE d == [id |-> tasks[s].id, os |-> tasks[s].os, pc |-> "find", row |-> NoRow,
                 tried |-> 0, got |-> "nothing", from |-> Empty]
<1>1. tasks[s] \in Task /\ tasks[s] # NoRow
  BY DEF BootBySN, RestOK
<1>2. d \in Machine /\ d.pc = "find" /\ d.id = tasks[s].id /\ d.os = tasks[s].os
  BY <1>1 DEF Machine, Task
<1>3. machine' = [machine EXCEPT ![s] = d]
  BY DEF BootBySN
<1> HIDE DEF d
<1> QED  BY <1>1, <1>2, <1>3, PartsAssumption DEF RestOK

-----------------------------------------------------------------------------
(***************************************************************************)
(* Part IV: what a step does to requests, tasks and machines               *)
(***************************************************************************)
(* Nothing that a task rests on changes.                                   *)
Calm == UNCHANGED <<catalogVars, mountVars, diskVars>>

Quiet == UNCHANGED <<taskVars, machine>>

Dies ==
    /\ acall' = [a \in Admitters |-> Idle]
    /\ UNCHANGED <<tasks, lastId, machine>>

Asks(a, c) ==
    /\ acall[a] = Idle /\ c \in ACall /\ c # Idle /\ c.pc = "row" /\ c.known = InDB(Extras)
    /\ acall' = [acall EXCEPT ![a] = c] /\ acall'[a] = c
    /\ Calm /\ UNCHANGED <<tasks, lastId, machine>>

Moves(a, d) ==
    /\ Moved(a, d) /\ (d # Idle => acall[a].pc # "insert")
    /\ Calm /\ UNCHANGED <<tasks, lastId, machine>>

Adds(a, d) ==
    /\ Moved(a, d) /\ d # Idle /\ Inserts(acall[a], d) /\ tasks[acall[a].sn] = NoRow
    /\ tasks' = [tasks EXCEPT ![acall[a].sn] = NewTask(acall[a])]
    /\ lastId' = lastId + 1 /\ lastId' \in Ids
    /\ Calm /\ UNCHANGED machine

Drops(s) ==
    /\ tasks' = [tasks EXCEPT ![s] = NoRow]
    /\ Calm /\ UNCHANGED <<lastId, acall, machine>>

Pushes(s, t) ==
    /\ t \in Task /\ t # NoRow /\ t.id = lastId'
    /\ tasks' = [tasks EXCEPT ![s] = t]
    /\ lastId' = lastId + 1 /\ lastId' \in Ids
    /\ Calm /\ UNCHANGED <<acall, machine>>

Begins(s, d) ==
    /\ d \in Machine /\ d # Idle /\ d.pc = "find"
    /\ tasks[s] \in Task /\ tasks[s] # NoRow /\ d.id = tasks[s].id /\ d.os = tasks[s].os
    /\ machine' = [machine EXCEPT ![s] = d] /\ machine'[s] = d

Boots(s, d) ==
    /\ Begins(s, d) \/ Booted(s, d)
    /\ Calm /\ UNCHANGED taskVars

Kinds ==
    \/ Quiet
    \/ Dies
    \/ \E a \in Admitters : \E d : Asks(a, d) \/ Moves(a, d) \/ Adds(a, d)
    \/ \E s \in SNs : Drops(s) \/ \E d : Pushes(s, d) \/ Boots(s, d)

LEMMA RequestAsks ==
    ASSUME RestOK, NEW a \in Admitters, NEW s \in SNs, NEW b \in Templates,
           CreateRequest(a, s, b), Calm, UNCHANGED machine
    PROVE  \E d : Asks(a, d)
<1> DEFINE K == InDB(Extras)
           d == [pc |-> "row", sn |-> s, os |-> b, row |-> NoRow,
                 scripts |-> {}, extras |-> {}, known |-> K]
<1>1. K \subseteq Extras
  BY DEF InDB
<1>2. acall[a] = Idle /\ acall' = [acall EXCEPT ![a] = d] /\ UNCHANGED <<tasks, lastId>>
  BY DEF CreateRequest
<1> HIDE DEF K
<1>3. 0 \in 0 .. MaxCreates
  OBVIOUS
<1>4. d \in ACall /\ d.pc = "row" /\ d.known = K
  BY <1>1, <1>3 DEF ACall
<1> HIDE DEF d
<1>5. d # Idle /\ acall'[a] = d
  BY <1>2, <1>4, PartsAssumption DEF RestOK
<1>6. d.known = InDB(Extras)
  BY <1>4 DEF K
<1> QED  BY <1>2, <1>4, <1>5, <1>6 DEF Asks

LEMMA PushAdds ==
    ASSUME RestOK, NEW s \in SNs, NEW b \in Templates, PushTask(s, b), Calm, UNCHANGED machine
    PROVE  \E t : Pushes(s, t)
<1> DEFINE t == [id |-> lastId', os |-> b, scripts |-> {}, extras |-> {}, known |-> {}]
<1>1. lastId' = lastId + 1 /\ lastId' \in Ids
  BY DEF PushTask, RestOK, Ids
<1>2. t \in Task /\ t.id = lastId'
  BY <1>1 DEF Task
<1>3. tasks' = [tasks EXCEPT ![s] = t] /\ UNCHANGED acall
  BY DEF PushTask
<1> HIDE DEF t
<1> QED  BY <1>1, <1>2, <1>3, PartsAssumption DEF Pushes

LEMMA AdmitKinds == ASSUME RestOK, CatalogInv, Admit PROVE Kinds
<1>0. Calm /\ UNCHANGED machine
  BY DEF Admit, Calm
<1>1. ASSUME NEW a \in Admitters, Validate(a) PROVE Kinds
  <2>1. PICK d : Moved(a, d)
    BY <1>1, ValidateMoves
  <2>2. UNCHANGED <<tasks, lastId>> /\ acall[a].pc # "insert"
    BY <1>1 DEF Validate, ReadRow, CheckTemplate, CheckIso, CheckRepo, CheckScripts, CheckFiles,
                Check, At
  <2> QED  BY <1>0, <2>1, <2>2 DEF Kinds, Moves
<1>2. ASSUME NEW a \in Admitters, InheritRow(a) \/ InheritScripts(a) \/ InheritFiles(a)
      PROVE  Kinds
  <2>1. PICK d : Moved(a, d)
    BY <1>2, InheritMoves
  <2>2. UNCHANGED <<tasks, lastId>> /\ acall[a].pc # "insert"
    BY <1>2 DEF InheritRow, InheritScripts, InheritFiles, At
  <2> QED  BY <1>0, <2>1, <2>2 DEF Kinds, Moves
<1>3. ASSUME NEW a \in Admitters, InsertTask(a) PROVE Kinds
  <2>1. PICK d : /\ Moved(a, d)
                 /\ IF d = Idle THEN UNCHANGED <<tasks, lastId>>
                     ELSE /\ Inserts(acall[a], d) /\ tasks[acall[a].sn] = NoRow
                          /\ tasks' = [tasks EXCEPT ![acall[a].sn] = NewTask(acall[a])]
                          /\ lastId' = lastId + 1 /\ lastId' \in Ids
    BY <1>3, InsertMoves
  <2>2. Moves(a, d) \/ Adds(a, d)
    BY <1>0, <2>1 DEF Moves, Adds
  <2> QED  BY <2>2 DEF Kinds
<1>4. ASSUME NEW a \in Admitters, ReadBack(a) PROVE Kinds
  <2>1. Moved(a, Idle) /\ UNCHANGED <<tasks, lastId>>
    BY <1>4, ReadBackMoves
  <2>2. Moves(a, Idle)
    BY <1>0, <2>1 DEF Moves
  <2> QED  BY <2>2 DEF Kinds
<1> QED  BY <1>1, <1>2, <1>3, <1>4 DEF Admit

LEMMA AskTaskKinds == ASSUME RestOK, AskTask PROVE Kinds
<1>0. Calm /\ UNCHANGED machine
  BY DEF AskTask, Calm
<1>1. ASSUME NEW a \in Admitters, NEW s \in SNs, NEW b \in Templates, CreateRequest(a, s, b)
      PROVE  Kinds
  BY <1>0, <1>1, RequestAsks DEF Kinds
<1>2. ASSUME NEW s \in SNs, DeleteTask(s) PROVE Kinds
  <2>1. Drops(s)
    BY <1>0, <1>2 DEF DeleteTask, Drops
  <2> QED  BY <2>1 DEF Kinds
<1>3. ASSUME NEW s \in SNs, NEW b \in Templates, PushTask(s, b) PROVE Kinds
  BY <1>0, <1>3, PushAdds DEF Kinds
<1> QED  BY <1>1, <1>2, <1>3 DEF AskTask

LEMMA BootKinds == ASSUME RestOK, CatalogInv, AskBoot \/ Boot PROVE Kinds
<1>0. Calm /\ UNCHANGED taskVars
  BY DEF AskBoot, Boot, Calm
<1>1. ASSUME NEW s \in SNs, BootBySN(s) PROVE Kinds
  <2>1. \E d : Begins(s, d)
    BY <1>1, BootStarts DEF Begins
  <2> QED  BY <1>0, <2>1 DEF Kinds, Boots
<1>2. ASSUME NEW s \in SNs, FindBootTemplate(s) \/ FetchKernel(s) \/ AskAnswer(s) \/ RenderAnswer(s)
      PROVE  Kinds
  <2>1. \E d : Booted(s, d)
    BY <1>2, BootSteps
  <2> QED  BY <1>0, <2>1 DEF Kinds, Boots
<1> QED  BY <1>1, <1>2 DEF AskBoot, Boot

LEMMA StepKinds == ASSUME RestOK, CatalogInv, [Next]_vars PROVE Kinds
<1>1. CASE AskTask  BY <1>1, AskTaskKinds
<1>2. CASE Admit  BY <1>2, AdmitKinds
<1>3. CASE AskBoot \/ Boot  BY <1>3, BootKinds
<1>4. CASE EngineDies  BY <1>4 DEF EngineDies, Dies, Kinds
<1>5. CASE AskDisk \/ AskImage \/ Fill \/ Mounting \/ UNCHANGED <<taskVars, machine>>
  BY <1>5 DEF AskDisk, AskImage, Fill, Mounting, Kinds, Quiet
<1>6. \/ AskTask \/ Admit \/ AskBoot \/ Boot \/ EngineDies
      \/ AskDisk \/ AskImage \/ Fill \/ Mounting \/ UNCHANGED <<taskVars, machine>>
  BY DEF Next, Ask, Work, Crash, vars, taskVars
<1> QED  BY <1>1, <1>2, <1>3, <1>4, <1>5, <1>6

-----------------------------------------------------------------------------
(***************************************************************************)
(* Part V: types and ids                                                   *)
(***************************************************************************)
LEMMA RestInit == Init => RestOK
BY DEF Init, RestOK

LEMMA CatalogInit == Init => CatalogInv
<1> SUFFICES ASSUME Init PROVE CatalogInv
  OBVIOUS
<1>1. rows = Seeds /\ meant = Seeds /\ call = [h \in Handlers |-> Idle] /\ calls = 0
      /\ raced = {} /\ dropped = {} /\ imported = TRUE
  BY DEF Init
<1>2. \A k \in Cat!Keys : Seeds[k] \in Cat!Row \cup {NoRow}
  BY CatalogFacts
<1>3. Seeds \in [Cat!Keys -> Cat!Row \cup {NoRow}]
  BY <1>2, PartsAssumption
<1>4. Cat!TypeOK
  BY <1>1, <1>3, CatalogFacts DEF Cat!TypeOK
<1> QED  BY <1>1, <1>4 DEF CatalogInv

LEMMA DiskType ==
    ASSUME RestOK, [Next]_vars
    PROVE  /\ file' \in [Names -> {"absent", "empty", "whole"}]
           /\ stored' \subseteq Extras /\ asks' \in 0 .. MaxAsks
           /\ intact' \subseteq Admitters \cup SNs
<1>1. asks' \in 0 .. MaxAsks
  BY DEF RestOK, Next, Ask, Work, vars
<1>2. intact' \subseteq Admitters \cup SNs
  BY DEF RestOK, Next, Track, vars
<1>3. CASE AskDisk \/ Fill
  BY <1>1, <1>2, <1>3
  DEF RestOK, AskDisk, Fill, TruncateTemplate, DeleteTemplate, FillTemplate, StoreFile, RemoveFile
<1>4. AskDisk \/ Fill \/ UNCHANGED diskVars
  BY DEF Next, Ask, Work, AskTask, AskImage, AskBoot, Admit, Mounting, Boot, Crash, EngineDies, vars
<1> QED  BY <1>1, <1>2, <1>3, <1>4 DEF RestOK, diskVars

TasksOK == tasks \in [SNs -> Task \cup {NoRow}] /\ lastId \in 0 .. MaxCreates
CallsOK == acall \in [Admitters -> ACall \cup {Idle}]
BootsOK == machine \in [SNs -> Machine \cup {Idle}]

LEMMA NewTaskType ==
    ASSUME NEW c \in ACall, lastId + 1 \in Ids PROVE NewTask(c) \in Task
BY DEF NewTask, ACall, Task

LEMMA KindsType == ASSUME RestOK, Kinds PROVE TasksOK' /\ CallsOK' /\ BootsOK'
<1> USE DEF TasksOK, CallsOK, BootsOK
<1>0. TasksOK /\ CallsOK /\ BootsOK
  BY DEF RestOK
<1>1. CASE Quiet  BY <1>0, <1>1 DEF Quiet, taskVars
<1>2. CASE Dies  BY <1>0, <1>2 DEF Dies
<1>3. ASSUME NEW a \in Admitters, NEW d, Moved(a, d) PROVE CallsOK'
  BY <1>0, <1>3 DEF Moved
<1>5. ASSUME NEW a \in Admitters, NEW d, Asks(a, d) PROVE TasksOK' /\ CallsOK' /\ BootsOK'
  BY <1>0, <1>5 DEF Asks
<1>6. ASSUME NEW a \in Admitters, NEW d, Moves(a, d) PROVE TasksOK' /\ CallsOK' /\ BootsOK'
  BY <1>0, <1>3, <1>6 DEF Moves
<1>7. ASSUME NEW a \in Admitters, NEW d, Adds(a, d) PROVE TasksOK' /\ CallsOK' /\ BootsOK'
  <2>1. acall[a] \in ACall /\ lastId' = lastId + 1 /\ lastId' \in Ids
    BY <1>7 DEF Adds, Moved
  <2>2. NewTask(acall[a]) \in Task
    BY <2>1, NewTaskType
  <2>3. TasksOK'
    <3>1. lastId' \in 0 .. MaxCreates
      BY <2>1 DEF Ids
    <3>2. tasks' = [tasks EXCEPT ![acall[a].sn] = NewTask(acall[a])]
      BY <1>7 DEF Adds
    <3> QED  BY <1>0, <2>2, <3>1, <3>2
  <2>4. BootsOK'
    BY <1>0, <1>7 DEF Adds
  <2>5. CallsOK'
    BY <1>3, <1>7 DEF Adds
  <2> QED  BY <2>3, <2>4, <2>5
<1>8. ASSUME NEW s \in SNs, Drops(s) PROVE TasksOK' /\ CallsOK' /\ BootsOK'
  BY <1>0, <1>8 DEF Drops
<1>9. ASSUME NEW s \in SNs, NEW t, Pushes(s, t) PROVE TasksOK' /\ CallsOK' /\ BootsOK'
  BY <1>0, <1>9 DEF Pushes, Ids
<1>10. ASSUME NEW s \in SNs, NEW d, Boots(s, d) PROVE TasksOK' /\ CallsOK' /\ BootsOK'
  BY <1>0, <1>10 DEF Boots, Begins, Booted, taskVars
<1> QED  BY <1>1, <1>2, <1>5, <1>6, <1>7, <1>8, <1>9, <1>10 DEF Kinds

-----------------------------------------------------------------------------
(* No task has an id that was not given out; a machine that boots the task *)
(* of its id boots the OS of that task.                                    *)
TaskIds(s) == tasks[s] # NoRow => tasks[s].id \in 1 .. lastId

BootIds(s) ==
    machine[s] # Idle =>
        /\ machine[s].id \in 1 .. lastId
        /\ tasks[s] # NoRow /\ tasks[s].id = machine[s].id => tasks[s].os = machine[s].os

IdInv == \A s \in SNs : TaskIds(s) /\ BootIds(s)

LEMMA IdInit == Init => IdInv
BY DEF Init, IdInv, TaskIds, BootIds

(* Tasks stay or go, and no id is given out.                               *)
LEMMA IdKept ==
    ASSUME RestOK, IdInv, lastId' = lastId,
           \A s \in SNs : tasks'[s] = tasks[s] \/ tasks'[s] = NoRow
    PROVE  /\ \A s \in SNs : TaskIds(s)'
           /\ \A s \in SNs : machine'[s] = machine[s] => BootIds(s)'
BY DEF IdInv, TaskIds, BootIds

(* The next id is given out, for the row of one machine.                   *)
LEMMA IdAdded ==
    ASSUME RestOK, IdInv, NEW u \in SNs, NEW t \in Task, t # NoRow, t.id = lastId + 1,
           lastId' = lastId + 1, tasks' = [tasks EXCEPT ![u] = t], UNCHANGED machine
    PROVE  IdInv'
<1>0. lastId \in Nat /\ 1 .. lastId \subseteq 1 .. lastId'
  BY DEF RestOK
<1>1. t.id \in 1 .. lastId' /\ t.id \notin 1 .. lastId
  BY <1>0
<1>2. tasks'[u] = t /\ \A s \in SNs \ {u} : tasks'[s] = tasks[s]
  BY DEF RestOK
<1>3. \A s \in SNs : TaskIds(s)'
  BY <1>0, <1>1, <1>2 DEF IdInv, TaskIds
<1>4. \A s \in SNs : BootIds(s)'
  BY <1>0, <1>1, <1>2 DEF IdInv, BootIds
<1> QED  BY <1>3, <1>4 DEF IdInv

LEMMA IdStep == ASSUME RestOK, IdInv, Kinds PROVE IdInv'
<1>1. CASE Quiet
  BY <1>1 DEF Quiet, taskVars, IdInv, TaskIds, BootIds
<1>2. CASE Dies
  BY <1>2, IdKept DEF Dies, IdInv
<1>3. ASSUME NEW a \in Admitters, NEW d, Asks(a, d) \/ Moves(a, d) PROVE IdInv'
  BY <1>3, IdKept DEF Asks, Moves, IdInv
<1>4. ASSUME NEW a \in Admitters, NEW d, Adds(a, d) PROVE IdInv'
  <2> DEFINE u == acall[a].sn
             t == NewTask(acall[a])
  <2>1. acall[a] \in ACall /\ lastId' = lastId + 1 /\ lastId' \in Ids /\ UNCHANGED machine
    BY <1>4 DEF Adds, Moved
  <2>2. u \in SNs /\ t \in Task /\ t.id = lastId + 1
    BY <2>1, NewTaskType DEF ACall, NewTask
  <2>3. tasks' = [tasks EXCEPT ![u] = t] /\ t # NoRow
    BY <1>4, <2>2, PartsAssumption DEF Adds
  <2> HIDE DEF t, u
  <2> QED  BY <2>1, <2>2, <2>3, IdAdded
<1>5. ASSUME NEW s \in SNs, Drops(s) PROVE IdInv'
  <2>1. \A u \in SNs : tasks'[u] = tasks[u] \/ tasks'[u] = NoRow
    BY <1>5 DEF Drops, RestOK
  <2> QED  BY <1>5, <2>1, IdKept DEF Drops, IdInv
<1>6. ASSUME NEW s \in SNs, NEW t, Pushes(s, t) PROVE IdInv'
  BY <1>6, IdAdded DEF Pushes
<1>7. ASSUME NEW s \in SNs, NEW d, Boots(s, d) PROVE IdInv'
  <2>1. UNCHANGED taskVars
    BY <1>7 DEF Boots
  <2>2. ASSUME NEW u \in SNs PROVE BootIds(u)'
    <3>1. CASE u # s
      <4>1. machine'[u] = machine[u]
        BY <1>7, <3>1 DEF Boots, Begins, Booted, RestOK
      <4> QED  BY <2>1, <4>1, IdKept DEF taskVars
    <3>2. CASE u = s /\ Begins(s, d)
      BY <2>1, <3>2 DEF taskVars, Begins, IdInv, TaskIds, BootIds
    <3>3. CASE u = s /\ Booted(s, d)
      BY <2>1, <3>3 DEF taskVars, Booted, BootMoves, IdInv, BootIds
    <3> QED  BY <1>7, <3>1, <3>2, <3>3 DEF Boots
  <2> QED  BY <2>1, <2>2, IdKept DEF taskVars, IdInv
<1> QED  BY <1>1, <1>2, <1>3, <1>4, <1>5, <1>6, <1>7 DEF Kinds

-----------------------------------------------------------------------------
TypesInv == CatalogInv /\ MountInv /\ RestOK /\ IdInv

LEMMA TypesInit == Init => TypesInv
<1> SUFFICES ASSUME Init PROVE TypesInv
  OBVIOUS
<1>1. MountInv
  BY MountTypeInit, InitExclusive DEF Init, MountInv
<1> QED  BY <1>1, RestInit, CatalogInit, IdInit DEF TypesInv

LEMMA TypesStep == ASSUME TypesInv, [Next]_vars PROVE TypesInv'
<1>0. CatalogInv /\ MountInv /\ RestOK /\ IdInv
  BY DEF TypesInv
<1>1. CatalogInv' /\ MountInv'
  BY <1>0, CatalogSteps, MountSteps
<1>2. Kinds
  BY <1>0, StepKinds
<1>3. IdInv'
  BY <1>0, <1>2, IdStep
<1>4. TasksOK' /\ CallsOK' /\ BootsOK'
  BY <1>0, <1>2, KindsType
<1>5. RestOK'
  BY <1>0, <1>4, DiskType DEF RestOK, TasksOK, CallsOK, BootsOK
<1> QED  BY <1>1, <1>3, <1>5 DEF TypesInv

LEMMA TypesAlways == Spec => []TypesInv
<1>1. TypesInv /\ [Next]_vars => TypesInv'
  BY TypesStep
<1> QED  BY <1>1, TypesInit, PTL DEF Spec

(* The tables, mounts, files, tasks, requests and machines have their types *)
(* in every state that the parts reach together.                           *)
THEOREM AdmissionTypes == Spec => []TypeOK
<1>1. TypesInv => TypeOK
  BY TypeParts DEF TypesInv, CatalogInv, MountInv
<1> QED  BY <1>1, TypesAlways, PTL

-----------------------------------------------------------------------------
(***************************************************************************)
(* Part VI: what a request has found, what a task was promised             *)
(***************************************************************************)
(* The file of a template is not being written.                            *)
NotEmpty(row) ==
    row # NoRow => LET n == NameOf[row["resources"]] IN n # Empty => file[n] # "empty"

(* Each check that a request has passed would pass now.                    *)
Found(pc, row) ==
    /\ pc # "row" => row # NoRow
    /\ pc \notin {"row", "template"} => TemplateOK(row)
    /\ pc \notin {"row", "template", "iso"} => IsoOK(row)
    /\ pc \notin {"row", "template", "iso", "repo"} => RepoOK(row)
    /\ pc \notin {"row", "template", "iso", "repo", "scripts"} => ScriptsOK(row)
    /\ pc \notin {"row", "template", "iso", "repo", "scripts", "files"} => FilesOK(row)

Gathered(c, row) ==
    /\ c.pc \in {"template", "iso", "repo", "scripts", "files", "inheritScripts", "inheritFiles"} =>
          c.row = row
    /\ c.pc \in {"inheritFiles", "insert", "readBack"} => c.scripts = ListedScripts(row)
    /\ c.pc \in {"insert", "readBack"} => ListedExtras(row) \cap c.known \subseteq c.extras

RequestHolds(c, row) == NotEmpty(row) /\ Found(c.pc, row) /\ Gathered(c, row)

TaskHolds(t, row) ==
    /\ row # NoRow /\ NotEmpty(row)
    /\ TemplateOK(row) /\ IsoOK(row) /\ RepoOK(row) /\ FilesOK(row)
    /\ t.scripts = ListedScripts(row)
    /\ ListedExtras(row) \cap t.known \subseteq t.extras

(* A machine has read the row the task was validated with, and gets its    *)
(* file, which it tries first.                                             *)
BootHolds(m, row) ==
    LET r == row["resources"]
    IN  Startable(r) /\ NameOf[r] # Empty /\ PathOf[r] # Empty =>
            /\ m.pc = "kernel" => m.row = row
            /\ m.pc = "render" => m.row = row /\ m.tried = 0
            /\ m.pc = "end" => m.got = "whole" /\ m.from = NameOf[r]

KnownInv(a) == acall[a] # Idle => acall[a].known \subseteq InDB(Extras)
RequestInv(a) == a \in intact => acall[a] # Idle /\ RequestHolds(acall[a], rows[acall[a].os])
TaskInv(s) == s \in intact => tasks[s] # NoRow /\ TaskHolds(tasks[s], rows[tasks[s].os])
MachineInv(s) ==
    s \in intact /\ machine[s] # Idle /\ machine[s].id = tasks[s].id =>
        BootHolds(machine[s], rows[tasks[s].os])

PromiseInv ==
    /\ \A a \in Admitters : KnownInv(a) /\ RequestInv(a)
    /\ \A s \in SNs : TaskInv(s) /\ MachineInv(s)

IInv == TypesInv /\ PromiseInv

LEMMA PromiseInit == Init => PromiseInv
BY DEF Init, PromiseInv, KnownInv, RequestInv, TaskInv, MachineInv
-----------------------------------------------------------------------------
(* Nothing but a change of its own resources takes away what a template    *)
(* has.                                                                    *)
LEMMA SparedStays ==
    ASSUME TypesInv, NEW b \in Templates, Spared(b), NEW row, row = rows[b]
    PROVE  /\ rows'[b] = row /\ NotEmpty(row)'
           /\ row # NoRow =>
                 /\ NotEmpty(row) /\ TemplateOK(row) => TemplateOK(row)'
                 /\ IsoOK(row) => IsoOK(row)'
                 /\ RepoOK(row) => RepoOK(row)'
                 /\ FilesOK(row) => FilesOK(row)'
<1>1. rows'[b] = row /\ NotEmpty(row)'
  BY DEF Spared, NotEmpty
<1>2. CASE row # NoRow
  <2> DEFINE r == row["resources"]
  <2>1. row \in Cat!OSTemplate
    BY <1>2, RowOfTemplate DEF TypesInv
  <2>2. NameOf[r] \in Names \cup {Empty} /\ PathOf[r] \in Paths \cup {Empty}
    BY <2>1, TemplateRow
  <2>3. /\ NameOf[r] # Empty /\ file[NameOf[r]] = "whole" => file'[NameOf[r]] = "whole"
        /\ IsoOf[r] \in images => IsoOf[r] \in images'
        /\ PathOf[r] \in Paths => (IsMountPoint(PathOf[r]) => mounts'[PathOf[r]] # << >>)
        /\ ListedExtras(row) \cap stored \subseteq stored'
    BY <1>2 DEF Spared
  <2>4. NotEmpty(row) /\ TemplateOK(row) => TemplateOK(row)'
    BY <1>2, <2>2, <2>3 DEF NotEmpty, TemplateOK, TypesInv, RestOK
  <2>5. IsoOK(row) => IsoOK(row)'
    BY <2>3 DEF IsoOK
  <2>6. RepoOK(row) => RepoOK(row)'
    BY <2>2, <2>3 DEF RepoOK, HasContent, IsMountPoint
  <2>7. FilesOK(row) => FilesOK(row)'
    BY <2>3 DEF FilesOK
  <2> QED  BY <1>1, <2>4, <2>5, <2>6, <2>7
<1> QED  BY <1>1, <1>2

LEMMA ScriptsStay ==
    ASSUME Stays, NEW row
    PROVE  (ScriptsOK(row) => ScriptsOK(row)') /\ InDB(Extras) \subseteq InDB(Extras)'
BY DEF Stays, ScriptsOK, InDB

LEMMA RequestStays ==
    ASSUME TypesInv, Stays, NEW b \in Templates, Spared(b), NEW row, row = rows[b],
           NEW c, RequestHolds(c, row)
    PROVE  rows'[b] = row /\ RequestHolds(c, row)'
<1>1. rows'[b] = row /\ NotEmpty(row)'
  BY SparedStays
<1>2. Found(c.pc, row)'
  BY SparedStays, ScriptsStay DEF RequestHolds, Found
<1>3. Gathered(c, row)'
  BY DEF RequestHolds, Gathered, ListedScripts, ListedExtras
<1> QED  BY <1>1, <1>2, <1>3 DEF RequestHolds

LEMMA TaskStays ==
    ASSUME TypesInv, NEW b \in Templates, Spared(b), NEW row, row = rows[b],
           NEW t, TaskHolds(t, row)
    PROVE  rows'[b] = row /\ TaskHolds(t, row)'
BY SparedStays DEF TaskHolds, ListedScripts, ListedExtras

(* A check that passes finds what it looked for; what is inherited is all  *)
(* that the template lists, of the files at least those registered when    *)
(* the request came.                                                       *)
LEMMA AdvanceFinds ==
    ASSUME NEW c, NEW d, Advance(c, d), RequestHolds(c, rows[c.os]),
           c.known \subseteq InDB(Extras)
    PROVE  RequestHolds(d, rows[d.os])
<1> DEFINE row == rows[c.os]
<1>0. d.os = c.os /\ d.known = c.known /\ NotEmpty(row) /\ Found(c.pc, row) /\ Gathered(c, row)
  BY DEF Advance, RequestHolds
<1>1. CASE c.pc = "row" /\ d.pc = "template" /\ d.row = row /\ d.row # NoRow
  BY <1>0, <1>1 DEF RequestHolds, Found, Gathered
<1>2. CASE Checks(c, d)
  BY <1>0, <1>2 DEF Checks, RequestHolds, Found, Gathered
<1>3. CASE Inherits(c, d)
  <2>1. CASE c.pc = "inherit"
    <3>1. d.row = row /\ d.pc = "inheritScripts"
      BY <1>0, <1>3, <2>1 DEF Inherits, Found
    <3> QED  BY <1>0, <2>1, <3>1 DEF RequestHolds, Found, Gathered
  <2>2. CASE c.pc = "inheritScripts"
    <3>1. d.row = row /\ d.pc = "inheritFiles" /\ d.scripts = InDB(ListedScripts(row))
      BY <1>0, <1>3, <2>2 DEF Inherits, Gathered
    <3>2. InDB(ListedScripts(row)) = ListedScripts(row)
      BY <1>0, <2>2 DEF Found, ScriptsOK, InDB
    <3> QED  BY <1>0, <2>2, <3>1, <3>2 DEF RequestHolds, Found, Gathered
  <2>3. CASE c.pc = "inheritFiles"
    <3>1. d.pc = "insert" /\ d.scripts = ListedScripts(row) /\ d.extras = InDB(ListedExtras(row))
      BY <1>0, <1>3, <2>3 DEF Inherits, Gathered
    <3>2. ListedExtras(row) \cap d.known \subseteq d.extras
      BY <1>0, <3>1 DEF InDB
    <3> QED  BY <1>0, <2>3, <3>1, <3>2 DEF RequestHolds, Found, Gathered
  <2> QED  BY <1>3, <2>1, <2>2, <2>3 DEF Inherits
<1>4. CASE Inserts(c, d)
  BY <1>0, <1>4 DEF Inserts, RequestHolds, Found, Gathered
<1> QED  BY <1>1, <1>2, <1>3, <1>4 DEF Advance

LEMMA InsertedHolds ==
    ASSUME NEW c, c.pc = "insert", NEW row, RequestHolds(c, row)
    PROVE  TaskHolds(NewTask(c), row)
BY DEF RequestHolds, Found, Gathered, TaskHolds, NewTask
-----------------------------------------------------------------------------
LEMMA KnownStep ==
    ASSUME TypesInv, PromiseInv, Stays, Kinds, NEW a \in Admitters PROVE KnownInv(a)'
<1>0. KnownInv(a) /\ InDB(Extras) \subseteq InDB(Extras)' /\ RestOK
  BY ScriptsStay DEF PromiseInv, TypesInv
<1>1. CASE acall'[a] = acall[a] \/ acall'[a] = Idle
  BY <1>0, <1>1 DEF KnownInv
<1>2. ASSUME NEW d, Asks(a, d) PROVE KnownInv(a)'
  BY <1>0, <1>2 DEF Asks, KnownInv
<1>3. ASSUME NEW d, Moved(a, d) PROVE KnownInv(a)'
  BY <1>0, <1>3 DEF Moved, Advance, KnownInv
<1>4. \/ acall'[a] = acall[a] \/ acall'[a] = Idle
      \/ \E d : Asks(a, d) \/ Moved(a, d)
  BY <1>0 DEF Kinds, Quiet, Dies, Asks, Moves, Adds, Moved, Drops, Pushes, Boots, taskVars, RestOK
<1> QED  BY <1>1, <1>2, <1>3, <1>4

LEMMA RequestStep ==
    ASSUME TypesInv, PromiseInv, Stays, Kinds, Track, NEW a \in Admitters, a \in intact'
    PROVE  RequestInv(a)'
<1>0. RestOK /\ KnownInv(a) /\ RequestInv(a)
  BY DEF PromiseInv, TypesInv
<1>1. acall'[a] # Idle /\ (Started(a) \/ a \in intact) /\ Spared(acall'[a].os)
  BY AdmissionAssumption DEF Track
<1>2. CASE acall'[a] = acall[a]
  <2>1. PICK c : c = acall[a]
    OBVIOUS
  <2>2. c \in ACall /\ c # Idle /\ c.os \in Templates
    BY <1>0, <1>1, <1>2, <2>1 DEF RestOK, ACall
  <2>3. PICK row : row = rows[c.os]
    OBVIOUS
  <2>4. RequestHolds(c, row)
    BY <1>0, <1>1, <1>2, <2>1, <2>3 DEF Started, RequestInv
  <2>5. rows'[c.os] = row /\ RequestHolds(c, row)'
    BY <1>1, <1>2, <2>1, <2>2, <2>3, <2>4, RequestStays
  <2> QED  BY <1>2, <2>1, <2>2, <2>5 DEF RequestInv
<1>3. ASSUME NEW d, Asks(a, d) PROVE RequestInv(a)'
  <2>1. d \in ACall /\ d # Idle /\ d.pc = "row" /\ acall'[a] = d /\ d.os \in Templates
    BY <1>3 DEF Asks, ACall
  <2>2. PICK row : row = rows[d.os]
    OBVIOUS
  <2>3. rows'[d.os] = row /\ NotEmpty(row)'
    BY <1>1, <2>1, <2>2, SparedStays
  <2>4. RequestHolds(d, row)'
    BY <2>1, <2>3 DEF RequestHolds, Found, Gathered
  <2> QED  BY <2>1, <2>3, <2>4 DEF RequestInv
<1>4. ASSUME NEW d, Moved(a, d) PROVE RequestInv(a)'
  <2>1. PICK c : c = acall[a]
    OBVIOUS
  <2>2. /\ c \in ACall /\ c # Idle /\ acall'[a] = d /\ d \in ACall /\ d # Idle
        /\ Advance(c, d) /\ d.os \in Templates
    BY <1>1, <1>4, <2>1 DEF Moved, ACall
  <2>3. c.known \subseteq InDB(Extras) /\ RequestHolds(c, rows[c.os])
    BY <1>0, <1>1, <2>1, <2>2 DEF KnownInv, RequestInv, Started
  <2>4. PICK row : row = rows[d.os]
    OBVIOUS
  <2>5. RequestHolds(d, row)
    BY <2>2, <2>3, <2>4, AdvanceFinds
  <2>6. rows'[d.os] = row /\ RequestHolds(d, row)'
    BY <1>1, <2>2, <2>4, <2>5, RequestStays
  <2> QED  BY <2>2, <2>6 DEF RequestInv
<1>5. acall'[a] = acall[a] \/ \E d : Asks(a, d) \/ Moved(a, d)
  BY <1>0, <1>1 DEF Kinds, Quiet, Dies, Asks, Moves, Adds, Moved, Drops, Pushes, Boots, taskVars, RestOK
<1> QED  BY <1>2, <1>3, <1>4, <1>5

(* A task comes from a request by the step that inserts it.                *)
LEMMA InsertedIsAdds ==
    ASSUME RestOK, Kinds, NEW a \in Admitters, NEW s \in SNs,
           Inserted(a, s), acall'[a] # acall[a]
    PROVE  \E d : Adds(a, d)
<1>1. tasks'[s] # tasks[s]
  BY DEF Inserted
<1> QED
  BY <1>1 DEF Kinds, Quiet, Dies, Asks, Moves, Adds, Moved, Drops, Pushes, Boots, taskVars, RestOK

LEMMA NewTaskHolds ==
    ASSUME TypesInv, PromiseInv, NEW a \in Admitters, a \in intact, NEW d, Adds(a, d)
    PROVE  \E t \in Task : /\ tasks' = [tasks EXCEPT ![acall[a].sn] = t] /\ t # NoRow
                           /\ t.id = lastId + 1 /\ TaskHolds(t, rows[t.os])
<1>1. PICK c : c = acall[a]
  OBVIOUS
<1>2. c \in ACall /\ c # Idle /\ c.pc = "insert" /\ lastId + 1 \in Ids
  BY <1>1 DEF Adds, Moved, Inserts
<1>3. PICK t : t = NewTask(c)
  OBVIOUS
<1>4. t \in Task /\ t.id = lastId + 1 /\ t.os = c.os
  BY <1>2, <1>3, NewTaskType DEF NewTask
<1>5. RequestHolds(c, rows[c.os])
  BY <1>1 DEF PromiseInv, RequestInv
<1>6. PICK row : row = rows[c.os]
  OBVIOUS
<1>7. TaskHolds(t, row)
  BY <1>2, <1>3, <1>5, <1>6, InsertedHolds
<1>8. tasks' = [tasks EXCEPT ![acall[a].sn] = t]
  BY <1>1, <1>3 DEF Adds
<1> QED  BY <1>4, <1>6, <1>7, <1>8, PartsAssumption

LEMMA KeptTask ==
    ASSUME TypesInv, PromiseInv, NEW s \in SNs, s \in intact, tasks'[s] = tasks[s],
           Spared(tasks'[s].os)
    PROVE  TaskInv(s)' /\ rows'[tasks[s].os] = rows[tasks[s].os]
<1>1. PICK t : t = tasks[s]
  OBVIOUS
<1>2. PICK row : row = rows[t.os]
  OBVIOUS
<1>3. t \in Task /\ t # NoRow /\ t.os \in Templates /\ TaskHolds(t, row)
  BY <1>1, <1>2 DEF PromiseInv, TaskInv, TypesInv, RestOK, Task
<1>4. rows'[t.os] = row /\ TaskHolds(t, row)'
  BY <1>1, <1>2, <1>3, TaskStays
<1> QED  BY <1>1, <1>2, <1>3, <1>4 DEF TaskInv

(* The machine of a task that stays goes on with the same row.             *)
LEMMA KeptMachine ==
    ASSUME TypesInv, PromiseInv, Kinds, NEW s \in SNs, s \in intact, tasks'[s] = tasks[s],
           Spared(tasks'[s].os)
    PROVE  MachineInv(s)'
<1>0. RestOK /\ TaskInv(s) /\ MachineInv(s) /\ BootIds(s)
  BY DEF PromiseInv, TypesInv, IdInv
<1>1. rows'[tasks[s].os] = rows[tasks[s].os]
  BY KeptTask
<1>2. CASE machine'[s] = machine[s]
  BY <1>0, <1>1, <1>2 DEF MachineInv, BootHolds
<1>3. ASSUME NEW d, Begins(s, d) PROVE MachineInv(s)'
  BY <1>3 DEF Begins, MachineInv, BootHolds
<1>4. ASSUME NEW d, Booted(s, d), d.id = tasks[s].id PROVE BootHolds(d, rows[tasks[s].os])
  <2> DEFINE m == machine[s]
             row == rows[tasks[s].os]
             r == row["resources"]
  <2>1. m # Idle /\ m.id = tasks[s].id /\ m.os = tasks[s].os /\ BootMoves(m, d)
    BY <1>0, <1>4 DEF Booted, BootMoves, BootIds, TaskInv
  <2>2. TaskHolds(tasks[s], row) /\ BootHolds(m, row)
    BY <1>0, <2>1 DEF TaskInv, MachineInv
  <2>3. SUFFICES ASSUME Startable(r), NameOf[r] # Empty, PathOf[r] # Empty
                 PROVE  /\ d.pc = "kernel" => d.row = row
                        /\ d.pc = "render" => d.row = row /\ d.tried = 0
                        /\ d.pc = "end" => d.got = "whole" /\ d.from = NameOf[r]
    BY DEF BootHolds
  <2>4. row # NoRow /\ file[NameOf[r]] = "whole"
    <3>1. row # NoRow /\ file[NameOf[r]] \notin {"absent", "empty"}
      BY <2>2, <2>3 DEF TaskHolds, NotEmpty, TemplateOK
    <3>2. tasks[s].os \in Templates
      BY <1>0, <1>4 DEF TaskInv, RestOK, Task
    <3>3. row \in Cat!OSTemplate
      BY <3>1, <3>2, RowOfTemplate DEF TypesInv
    <3>4. NameOf[r] \in Names
      BY <2>3, <3>3, TemplateRow
    <3> QED  BY <1>0, <3>1, <3>4 DEF RestOK
  <2>5. /\ m.pc = "kernel" => m.row = row
        /\ m.pc = "render" => m.row = row /\ m.tried = 0
    BY <2>2, <2>3 DEF BootHolds
  <2>6. m.pc = "kernel" => d.pc = "answer"
    <3>1. Bootable(row)
      BY <2>2, <2>3 DEF TaskHolds, IsoOK, Startable, Bootable
    <3> QED  BY <2>1, <2>5, <3>1 DEF BootMoves
  <2>7. m.pc = "render" => d.pc = "end" /\ d.got = "whole" /\ d.from = NameOf[r]
    BY <2>1, <2>3, <2>4, <2>5 DEF BootMoves, OwnFile
  <2> QED  BY <2>1, <2>4, <2>6, <2>7 DEF BootMoves
<1>5. machine'[s] = machine[s] \/ \E d : Begins(s, d) \/ Booted(s, d)
  BY <1>0 DEF Kinds, Quiet, Dies, Asks, Moves, Adds, Drops, Pushes, Boots, Begins, Booted, RestOK
<1>6. ASSUME NEW d, Booted(s, d) PROVE MachineInv(s)'
  BY <1>1, <1>4, <1>6 DEF Booted, MachineInv, BootHolds
<1> QED  BY <1>2, <1>3, <1>5, <1>6

LEMMA TaskStep ==
    ASSUME TypesInv, PromiseInv, Kinds, Track, NEW s \in SNs, s \in intact'
    PROVE  TaskInv(s)' /\ MachineInv(s)'
<1>1. /\ Spared(tasks'[s].os)
      /\ \/ s \in intact /\ tasks'[s] = tasks[s]
         \/ \E a \in Admitters \cap intact : Inserted(a, s) /\ acall'[a] # acall[a]
  BY AdmissionAssumption DEF Track
<1>2. CASE s \in intact /\ tasks'[s] = tasks[s]
  BY <1>1, <1>2, KeptTask, KeptMachine
<1>3. ASSUME NEW a \in Admitters, a \in intact, Inserted(a, s), acall'[a] # acall[a]
      PROVE  TaskInv(s)' /\ MachineInv(s)'
  <2>0. RestOK /\ BootIds(s)
    BY DEF TypesInv, IdInv
  <2>1. PICK d : Adds(a, d)
    BY <1>3, <2>0, InsertedIsAdds
  <2>2. PICK t \in Task : /\ tasks' = [tasks EXCEPT ![acall[a].sn] = t] /\ t # NoRow
                          /\ t.id = lastId + 1 /\ TaskHolds(t, rows[t.os])
    BY <1>3, <2>1, NewTaskHolds
  <2>3. tasks'[s] = t /\ t.os \in Templates
    BY <1>3, <2>0, <2>2 DEF Inserted, RestOK, Task
  <2>4. PICK row : row = rows[t.os]
    OBVIOUS
  <2>5. rows'[t.os] = row /\ TaskHolds(t, row)'
    BY <1>1, <2>2, <2>3, <2>4, TaskStays
  <2>6. machine' = machine /\ (machine[s] # Idle => machine[s].id # lastId + 1)
    <3>1. machine' = machine
      BY <2>1 DEF Adds
    <3>2. lastId + 1 \notin 1 .. lastId
      BY <2>0 DEF RestOK
    <3> QED  BY <2>0, <3>1, <3>2 DEF BootIds
  <2> QED  BY <2>2, <2>3, <2>5, <2>6 DEF TaskInv, MachineInv
<1> QED  BY <1>1, <1>2, <1>3

LEMMA PromiseStep == ASSUME TypesInv, PromiseInv, [Next]_vars PROVE PromiseInv'
<1>0. RestOK /\ CatalogInv
  BY DEF TypesInv
<1>1. CASE UNCHANGED vars
  <2>0. UNCHANGED <<rows, file, stored, images, mounts, tasks, acall, machine, intact>>
    BY <1>1 DEF vars, catalogVars, mountVars, diskVars, taskVars
  <2>1. \A row : /\ TemplateOK(row)' = TemplateOK(row) /\ IsoOK(row)' = IsoOK(row)
                 /\ RepoOK(row)' = RepoOK(row) /\ FilesOK(row)' = FilesOK(row)
                 /\ ScriptsOK(row)' = ScriptsOK(row) /\ NotEmpty(row)' = NotEmpty(row)
    BY <2>0 DEF TemplateOK, IsoOK, RepoOK, HasContent, IsMountPoint, FilesOK, ScriptsOK, NotEmpty, InDB
  <2>2. ASSUME NEW a \in Admitters PROVE KnownInv(a)' /\ RequestInv(a)'
    <3>1. PICK c, row : c = acall[a] /\ row = rows[c.os]
      OBVIOUS
    <3>2. RequestHolds(c, row) => RequestHolds(c, row)'
      BY <2>1 DEF RequestHolds, Found, Gathered, ListedScripts, ListedExtras
    <3>3. RequestInv(a)'
      BY <2>0, <3>1, <3>2 DEF PromiseInv, RequestInv
    <3>4. KnownInv(a)'
      BY <2>0 DEF PromiseInv, KnownInv, InDB
    <3> QED  BY <3>3, <3>4
  <2>3. ASSUME NEW s \in SNs PROVE TaskInv(s)' /\ MachineInv(s)'
    <3>1. PICK t, row : t = tasks[s] /\ row = rows[t.os]
      OBVIOUS
    <3>2. TaskHolds(t, row) => TaskHolds(t, row)'
      BY <2>1 DEF TaskHolds, ListedScripts, ListedExtras
    <3>3. TaskInv(s)'
      BY <2>0, <3>1, <3>2 DEF PromiseInv, TaskInv
    <3>4. MachineInv(s)'
      BY <2>0 DEF PromiseInv, MachineInv, BootHolds
    <3> QED  BY <3>3, <3>4
  <2> QED  BY <2>2, <2>3 DEF PromiseInv
<1>2. CASE Next
  <2>1. Stays /\ Kinds /\ Track
    BY <1>0, <1>2, CatalogSteps, StepKinds DEF Next
  <2>2. ASSUME NEW a \in Admitters PROVE KnownInv(a)' /\ RequestInv(a)'
    <3>1. a \notin intact' => RequestInv(a)'
      BY DEF RequestInv
    <3> QED  BY <2>1, <3>1, KnownStep, RequestStep
  <2>3. ASSUME NEW s \in SNs PROVE TaskInv(s)' /\ MachineInv(s)'
    <3>1. s \notin intact' => TaskInv(s)' /\ MachineInv(s)'
      BY DEF TaskInv, MachineInv
    <3> QED  BY <2>1, <3>1, TaskStep
  <2> QED  BY <2>2, <2>3 DEF PromiseInv
<1> QED  BY <1>1, <1>2

LEMMA PromiseAlways == Spec => []IInv
<1>1. Init => IInv
  BY TypesInit, PromiseInit DEF IInv
<1>2. IInv /\ [Next]_vars => IInv'
  BY TypesStep, PromiseStep DEF IInv
<1> QED  BY <1>1, <1>2, PTL DEF Spec

(* A task that create_task accepted has everything its template names in   *)
(* place, with its scripts and registered files, until something of that   *)
(* very template is changed: whatever is pushed, imported, mounted,        *)
(* written, created or killed meanwhile.                                   *)
THEOREM TasksKeepTheirPromise == Spec => []PromiseHolds
<1>1. IInv => PromiseHolds
  BY DEF IInv, PromiseInv, TaskInv, TaskHolds, PromiseHolds
<1> QED  BY <1>1, PromiseAlways, PTL

(* The machine of such a task, when its template has a boot type that the  *)
(* boot script knows and an image that it asks for by its own name, gets   *)
(* its kernel and then its answer file, whole, and no fallback: the three  *)
(* handlers that look up the row find the one that was validated, and the  *)
(* image, the mount and the file are still there when they are fetched.    *)
THEOREM MachinesBootAsPromised == Spec => []BootsAsPromised
<1>1. IInv => BootsAsPromised
  BY DEF IInv, PromiseInv, MachineInv, BootHolds, BootsAsPromised, GetsItsFile
<1> QED  BY <1>1, PromiseAlways, PTL

(* One mount per path holds beside the templates that are mounted, and     *)
(* however the engine and the host die.                                    *)
THEOREM MountsStayApart == Spec => []OneMountPerPath
<1>1. IInv => OneMountPerPath
  BY DEF IInv, TypesInv, MountInv, Exclusive, OneMountPerPath
<1> QED  BY <1>1, PromiseAlways, PTL
=============================================================================

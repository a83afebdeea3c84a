------------------------- MODULE DhcpBindingsProofs -------------------------
(***************************************************************************)
(* DhcpBindings for any addresses, handlers and bounds: types, the table   *)
(* that the calls add up to, and dnsmasq being told of it.                 *)
(***************************************************************************)
EXTENDS DhcpBindings, SequenceTheorems, WellFoundedInduction, TLAPS

(* Induction over the naturals, as a fact about sets.                      *)
LEMMA SetInduction ==
    ASSUME NEW T \in SUBSET Nat, 0 \in T, \A n \in T : n + 1 \in T
    PROVE  T = Nat
<1> DEFINE R == OpToRel(<, Nat)
           S == Nat \ T
<1>1. SUFFICES ASSUME S # {} PROVE FALSE
  OBVIOUS
<1>2. IsWellFoundedOn(R, Nat)
  BY NatLessThanWellFounded
<1>3. PICK x \in S : \A y \in S : <<y, x>> \notin R
  <2>1. S \subseteq Nat
    OBVIOUS
  <2> HIDE DEF R, S
  <2> QED  BY <1>1, <1>2, <2>1, WFMin
<1>4. x - 1 \in Nat \ S
  <2>1. x \in Nat /\ x # 0
    OBVIOUS
  <2>2. x - 1 \in Nat /\ x - 1 < x
    BY <2>1
  <2>3. <<x - 1, x>> \in R
    BY <2>1, <2>2 DEF OpToRel
  <2> QED  BY <1>3, <2>2, <2>3
<1>5. x - 1 \in T /\ (x - 1) + 1 = x
  BY <1>4
<1> QED  BY <1>5

(* f is the loop of Kept(m) over the first n lines of s.                   *)
Skipped(m, l) == l # Fragment /\ l.mac = m
IsLoop(f, s, n, m) ==
    f = [k \in 0 .. n |->
            IF k = 0 THEN << >>
            ELSE IF Skipped(m, s[k]) THEN f[k - 1] ELSE Append(f[k - 1], s[k])]

LEMMA LoopExists ==
    ASSUME NEW s, NEW m, NEW n \in Nat PROVE \E f : IsLoop(f, s, n, m)
<1> DEFINE T == {k \in Nat : \E f : IsLoop(f, s, k, m)}
<1>1. 0 \in T
  <2> DEFINE f == [k \in 0 .. 0 |-> << >>]
  <2>1. IsLoop(f, s, 0, m)
    BY DEF IsLoop
  <2> QED  BY <2>1
<1>2. ASSUME NEW k \in T PROVE k + 1 \in T
  <2>1. PICK f : IsLoop(f, s, k, m)
    BY <1>2
  <2> DEFINE last == IF Skipped(m, s[k + 1]) THEN f[k] ELSE Append(f[k], s[k + 1])
             g == [j \in 0 .. k + 1 |-> IF j = k + 1 THEN last ELSE f[j]]
  <2>2. /\ DOMAIN g = 0 .. k + 1 /\ g[k + 1] = last
        /\ \A j \in 0 .. k : g[j] = f[j]
    OBVIOUS
  <2>3. \A j \in 0 .. k : f[j] = IF j = 0 THEN << >>
                                 ELSE IF Skipped(m, s[j]) THEN f[j - 1] ELSE Append(f[j - 1], s[j])
    BY <2>1 DEF IsLoop
  <2> HIDE DEF g
  <2>4. \A j \in 0 .. k + 1 : g[j] = IF j = 0 THEN << >>
                                     ELSE IF Skipped(m, s[j]) THEN g[j - 1] ELSE Append(g[j - 1], s[j])
    <3> SUFFICES ASSUME NEW j \in 0 .. k + 1
                 PROVE  g[j] = IF j = 0 THEN << >>
                               ELSE IF Skipped(m, s[j]) THEN g[j - 1] ELSE Append(g[j - 1], s[j])
      OBVIOUS
    <3>1. CASE j = k + 1
      <4>1. j # 0 /\ j - 1 = k /\ k \in 0 .. k
        BY <3>1
      <4> QED  BY <2>2, <3>1, <4>1
    <3>2. CASE j # k + 1
      <4>1. j \in 0 .. k /\ (j # 0 => j - 1 \in 0 .. k)
        BY <3>2
      <4> QED  BY <2>2, <2>3, <4>1
    <3> QED  BY <3>1, <3>2
  <2>5. g = [j \in 0 .. k + 1 |-> g[j]]
    BY DEF g
  <2>6. IsLoop(g, s, k + 1, m)
    BY <2>4, <2>5 DEF IsLoop
  <2> QED  BY <2>6
<1>3. T = Nat
  <2>1. T \in SUBSET Nat
    OBVIOUS
  <2> HIDE DEF T
  <2> QED  BY <1>1, <1>2, <2>1, SetInduction
<1> QED  BY <1>3

(* Kept(m) is the last value of the loop.                                  *)
LEMMA KeptIsLoop ==
    ASSUME NEW m, Len(file) \in Nat
    PROVE  \E f : IsLoop(f, file, Len(file), m) /\ Kept(m) = f[Len(file)]
<1>1. PICK f : IsLoop(f, file, Len(file), m)
  BY LoopExists
<1> DEFINE F == CHOOSE g : IsLoop(g, file, Len(file), m)
<1>2. IsLoop(F, file, Len(file), m)
  BY <1>1
<1>3. Kept(m) = F[Len(file)]
  BY DEF Kept, IsLoop, Skipped
<1> QED  BY <1>2, <1>3
-----------------------------------------------------------------------------
(* What Append does to the set of elements and to injectivity.             *)
LEMMA AppendFacts ==
    ASSUME NEW S, NEW s \in Seq(S), NEW l \in S
    PROVE  /\ Append(s, l) \in Seq(S)
           /\ ToSet(Append(s, l)) = ToSet(s) \cup {l}
           /\ IsInjective(s) /\ l \notin ToSet(s) => IsInjective(Append(s, l))
<1> DEFINE t == Append(s, l)
<1>1. /\ t \in Seq(S) /\ DOMAIN t = 1 .. Len(s) + 1 /\ DOMAIN s = 1 .. Len(s) /\ Len(s) \in Nat
      /\ \A i \in 1 .. Len(s) : t[i] = s[i]
      /\ t[Len(s) + 1] = l
  BY AppendProperties, LenProperties
<1> HIDE DEF t
<1>2. ToSet(t) = ToSet(s) \cup {l}
  <2>1. \A x : x \in ToSet(t) <=> \E i \in 1 .. Len(s) + 1 : x = t[i]
    BY <1>1 DEF ToSet
  <2>2. \A x : x \in ToSet(s) <=> \E i \in 1 .. Len(s) : x = s[i]
    BY <1>1 DEF ToSet
  <2>3. \A x \in ToSet(t) : x \in ToSet(s) \cup {l}
    BY <1>1, <2>1, <2>2
  <2>4. \A x \in ToSet(s) \cup {l} : x \in ToSet(t)
    BY <1>1, <2>1, <2>2
  <2> QED  BY <2>3, <2>4
<1>3. ASSUME IsInjective(s), l \notin ToSet(s) PROVE IsInjective(t)
  <2>1. \A i \in 1 .. Len(s) : s[i] # l
    BY <1>1, <1>3 DEF ToSet
  <2>2. \A i, j \in 1 .. Len(s) + 1 : t[i] = t[j] => i = j
    BY <1>1, <1>3, <2>1 DEF IsInjective
  <2> QED  BY <1>1, <2>2 DEF IsInjective
<1> QED  BY <1>1, <1>2, <1>3 DEF t

(* What the first n rounds of the loop keep.                               *)
Seen(s, n, m) == {s[j] : j \in {i \in 1 .. n : ~ Skipped(m, s[i])}}

LEMMA LoopFacts ==
    ASSUME NEW s \in Content, NEW m, NEW f, IsLoop(f, s, Len(s), m)
    PROVE  /\ f[Len(s)] \in Content
           /\ ToSet(f[Len(s)]) = Seen(s, Len(s), m)
           /\ IsInjective(s) => IsInjective(f[Len(s)])
<1> DEFINE L == Line \cup {Fragment}
           Good(k) == /\ f[k] \in Seq(L) /\ ToSet(f[k]) = Seen(s, k, m)
                      /\ IsInjective(s) => IsInjective(f[k])
           T == {k \in Nat : k <= Len(s) => Good(k)}
<1>0. s \in Seq(L) /\ Len(s) \in Nat /\ DOMAIN s = 1 .. Len(s) /\ \A i \in 1 .. Len(s) : s[i] \in L
  BY LenProperties, ElementOfSeq DEF Content
<1>1. \A j \in 0 .. Len(s) : f[j] = IF j = 0 THEN << >>
                                    ELSE IF Skipped(m, s[j]) THEN f[j - 1] ELSE Append(f[j - 1], s[j])
  BY DEF IsLoop
<1>2. Good(0)
  <2>1. f[0] = << >>
    BY <1>0, <1>1
  <2>2. << >> \in Seq(L) /\ ToSet(<< >>) = {} /\ IsInjective(<< >>)
    BY DEF ToSet, IsInjective
  <2>3. Seen(s, 0, m) = {}
    BY DEF Seen
  <2> QED  BY <2>1, <2>2, <2>3
<1>3. ASSUME NEW k \in Nat, k + 1 <= Len(s), Good(k) PROVE Good(k + 1)
  <2>1. k + 1 \in 1 .. Len(s) /\ k + 1 \in 0 .. Len(s) /\ (k + 1) - 1 = k /\ k + 1 # 0
    BY <1>0, <1>3
  <2>2. f[k + 1] = IF Skipped(m, s[k + 1]) THEN f[k] ELSE Append(f[k], s[k + 1])
    BY <1>1, <2>1
  <2>3. Seen(s, k + 1, m) = IF Skipped(m, s[k + 1]) THEN Seen(s, k, m)
                            ELSE Seen(s, k, m) \cup {s[k + 1]}
    <3>1. \A i : i \in 1 .. k + 1 <=> i \in 1 .. k \/ i = k + 1
      OBVIOUS
    <3> QED  BY <3>1 DEF Seen
  <2>4. CASE Skipped(m, s[k + 1])
    BY <1>3, <2>2, <2>3, <2>4
  <2>5. CASE ~ Skipped(m, s[k + 1])
    <3>1. f[k + 1] = Append(f[k], s[k + 1])
      BY <2>2, <2>5
    <3>2. s[k + 1] \in L
      BY <1>0, <2>1
    <3>3. IsInjective(s) => s[k + 1] \notin Seen(s, k, m)
      BY <1>0, <1>3, <2>1 DEF Seen, IsInjective
    <3>4. f[k] \in Seq(L) /\ ToSet(f[k]) = Seen(s, k, m) /\ (IsInjective(s) => IsInjective(f[k]))
      BY <1>3
    <3>5. Append(f[k], s[k + 1]) \in Seq(L)
      BY <3>2, <3>4, AppendFacts
    <3>6. ToSet(Append(f[k], s[k + 1])) = ToSet(f[k]) \cup {s[k + 1]}
      BY <3>2, <3>4, AppendFacts
    <3>7. IsInjective(s) => IsInjective(Append(f[k], s[k + 1]))
      BY <3>2, <3>3, <3>4, AppendFacts
    <3> QED  BY <2>3, <2>5, <3>1, <3>4, <3>5, <3>6, <3>7
  <2> QED  BY <2>4, <2>5
<1>4. T = Nat
  <2>1. 0 \in T
    BY <1>2
  <2>2. ASSUME NEW k \in T PROVE k + 1 \in T
    <3> HIDE DEF Good
    <3>1. CASE k + 1 <= Len(s)
      <4>1. Good(k)
        BY <1>0, <2>2, <3>1
      <4> QED  BY <1>3, <2>2, <3>1, <4>1
    <3>2. CASE ~ (k + 1 <= Len(s))
      BY <2>2, <3>2
    <3> QED  BY <3>1, <3>2
  <2>3. T \in SUBSET Nat
    OBVIOUS
  <2> HIDE DEF T
  <2> QED  BY <2>1, <2>2, <2>3, SetInduction
<1>5. Good(Len(s))
  BY <1>0, <1>4
<1> QED  BY <1>5 DEF Content

(* The lines a delete keeps: all but those of its MAC, none twice unless   *)
(* it was before.                                                          *)
LEMMA KeptFacts ==
    ASSUME NEW m, file \in Content
    PROVE  /\ Kept(m) \in Content
           /\ ToSet(Kept(m)) = {l \in ToSet(file) : ~ Skipped(m, l)}
           /\ IsInjective(file) => IsInjective(Kept(m))
<1>1. Len(file) \in Nat /\ DOMAIN file = 1 .. Len(file)
  BY LenProperties DEF Content
<1>2. PICK f : IsLoop(f, file, Len(file), m) /\ Kept(m) = f[Len(file)]
  BY <1>1, KeptIsLoop
<1>3. Seen(file, Len(file), m) = {l \in ToSet(file) : ~ Skipped(m, l)}
  BY <1>1 DEF Seen, ToSet
<1> QED  BY <1>2, <1>3, LoopFacts
-----------------------------------------------------------------------------
(* Types                                                                   *)

USE BindingsAssumption

LEMMA OverwrittenType ==
    ASSUME NEW new \in Content, NEW old \in Content
    PROVE  Overwritten(new, old) \subseteq Content
<1> DEFINE L == Line \cup {Fragment}
<1>1. new \in Seq(L) /\ old \in Seq(L) /\ Len(old) \in Nat
  BY LenProperties DEF Content
<1>2. ASSUME NEW k \in 1 .. Len(old) + 1 PROVE SubSeq(old, k, Len(old)) \in Seq(L)
  <2>1. \A i \in k .. Len(old) : old[i] \in L
    BY <1>1, ElementOfSeq
  <2>2. k \in 1 .. Len(old) + 1 /\ Len(old) \in k - 1 .. Len(old)
    BY <1>1
  <2> QED  BY <1>1, <2>1, <2>2, SubSeqProperties
<1>3. <<Fragment>> \in Seq(L)
  OBVIOUS
<1>4. ASSUME NEW k \in 1 .. Len(old) + 1
      PROVE  /\ new \o SubSeq(old, k, Len(old)) \in Seq(L)
             /\ new \o <<Fragment>> \o SubSeq(old, k, Len(old)) \in Seq(L)
  <2>1. new \o <<Fragment>> \in Seq(L)
    BY <1>1, <1>3, ConcatProperties
  <2> QED  BY <1>1, <1>2, <2>1, ConcatProperties
<1>5. \A k \in 2 .. Len(old) + 1 : k \in 1 .. Len(old) + 1
  BY <1>1
<1> QED  BY <1>4, <1>5 DEF Overwritten, Content

(* Over an empty file, what is written is what is there then.              *)
LEMMA OverwrittenEmpty ==
    ASSUME NEW new \in Content PROVE Overwritten(new, << >>) = {new}
<1>1. Len(<< >>) = 0 /\ 2 .. Len(<< >>) + 1 = {} /\ 1 .. Len(<< >>) + 1 = {1}
  <2>1. Len(<< >>) = 0 /\ 2 .. 0 + 1 = {} /\ 1 .. 0 + 1 = {1}
    OBVIOUS
  <2> QED  BY <2>1
<1>2. SubSeq(<< >>, 1, Len(<< >>)) = << >>
  BY <1>1, SubSeqEmpty
<1>3. new \o << >> = new
  BY ConcatEmptySeq DEF Content
<1>4. {new \o SubSeq(<< >>, k, Len(<< >>)) : k \in {1}} = {new}
  BY <1>2, <1>3
<1>5. {new \o <<Fragment>> \o SubSeq(<< >>, k, Len(<< >>)) : k \in {}} = {}
  OBVIOUS
<1>6. Overwritten(new, << >>) =
        IF new = << >> THEN {<< >>}
        ELSE {new \o SubSeq(<< >>, k, Len(<< >>)) : k \in {1}}
             \cup {new \o <<Fragment>> \o SubSeq(<< >>, k, Len(<< >>)) : k \in {}}
  BY ONLY <1>1 DEF Overwritten
<1> QED  BY <1>4, <1>5, <1>6

(* A call that goes on keeps its binding and the lines it holds.           *)
LEMMA GotoCall ==
    ASSUME TypeOK, NEW h \in Handlers, call[h] # Idle,
           NEW pc \in {"append", "truncate", "rewrite", "reload"}, Goto(h, pc)
    PROVE  /\ call' \in [Handlers -> Call \cup {Idle}]
           /\ call'[h] # Idle /\ call'[h].pc = pc /\ call'[h].op = call[h].op
           /\ call'[h].line = call[h].line /\ call'[h].kept = call[h].kept
           /\ \A g \in Handlers \ {h} : call'[g] = call[g]
<1> DEFINE c == [call[h] EXCEPT !.pc = pc]
<1>1. /\ c \in Call /\ c.pc = pc /\ c.op = call[h].op
      /\ c.line = call[h].line /\ c.kept = call[h].kept
  BY DEF TypeOK, Call
<1>2. call' = [call EXCEPT ![h] = c]
  BY DEF Goto
<1> HIDE DEF c
<1> QED  BY <1>1, <1>2 DEF TypeOK

LEMMA BeginCall ==
    ASSUME TypeOK, NEW h \in Handlers, NEW op \in {"create", "delete"},
           NEW pc \in {"append", "truncate", "rewrite", "reload"},
           NEW line \in Line, NEW kept \in Content, Begin(h, op, pc, line, kept)
    PROVE  /\ TypeOK' /\ call[h] = Idle
           /\ call'[h] # Idle /\ call'[h].pc = pc /\ call'[h].op = op
           /\ call'[h].line = line /\ call'[h].kept = kept
           /\ \A g \in Handlers \ {h} : call'[g] = call[g]
           /\ raced' = (raced \/ Conflict(h, op, line.mac))
           /\ UNCHANGED <<file, loaded, running, hup, bound, orphaned>>
<1> DEFINE c == [op |-> op, pc |-> pc, line |-> line, kept |-> kept]
<1>1. c \in Call /\ c.pc = pc /\ c.op = op /\ c.line = line /\ c.kept = kept
  BY DEF Call
<1>2. /\ call' = [call EXCEPT ![h] = c] /\ call[h] = Idle
      /\ calls < MaxCalls /\ calls' = calls + 1
      /\ raced' = (raced \/ Conflict(h, op, line.mac))
      /\ UNCHANGED <<file, loaded, running, hup, starts, bound, orphaned>>
  BY DEF Begin
<1> HIDE DEF c
<1>3. raced' \in BOOLEAN
  BY <1>2 DEF Conflict, TypeOK
<1>4. calls' \in 0 .. MaxCalls
  BY <1>2 DEF TypeOK
<1> QED  BY <1>1, <1>2, <1>3, <1>4 DEF TypeOK

LEMMA EmptyContent == << >> \in Content
BY DEF Content

LEMMA TypeInit == Init => TypeOK
<1>1. 0 \in 0 .. MaxCalls /\ 0 \in 0 .. MaxStarts
  OBVIOUS
<1> QED  BY <1>1, EmptyContent DEF Init, TypeOK

LEMMA TypeStep == TypeOK /\ [Next]_vars => TypeOK'
<1> SUFFICES ASSUME TypeOK, [Next]_vars PROVE TypeOK'
  OBVIOUS
<1>1. ASSUME NEW h \in Handlers, NEW line \in Line, CheckDuplicate(h, line) PROVE TypeOK'
  BY <1>1, BeginCall, EmptyContent DEF CheckDuplicate
<1>2. ASSUME NEW h \in Handlers, NEW m \in Macs, ReadHosts(h, m) PROVE TypeOK'
  <2>1. Kept(m) \in Content
    BY KeptFacts DEF TypeOK
  <2>2. PICK i \in IPs : Begin(h, "delete", "truncate", [mac |-> m, ip |-> i], Kept(m))
    BY <1>2 DEF ReadHosts
  <2>3. [mac |-> m, ip |-> i] \in Line
    BY DEF Line
  <2> QED  BY <2>1, <2>2, <2>3, BeginCall
<1>3. ASSUME NEW h \in Handlers, AppendBinding(h) PROVE TypeOK'
  <2>1. call[h] # Idle /\ call[h] \in Call /\ call[h].line \in Line
    BY <1>3 DEF AppendBinding, At, TypeOK, Call
  <2>2. file' \in Content
    BY <1>3, <2>1, AppendProperties DEF AppendBinding, TypeOK, Content
  <2>3. call' \in [Handlers -> Call \cup {Idle}]
    BY <1>3, <2>1, GotoCall DEF AppendBinding
  <2> QED  BY <1>3, <2>1, <2>2, <2>3 DEF AppendBinding, TypeOK
<1>4. ASSUME NEW h \in Handlers, Truncate(h) PROVE TypeOK'
  <2>1. call' \in [Handlers -> Call \cup {Idle}]
    BY <1>4, GotoCall DEF Truncate, At
  <2> QED  BY <1>4, <2>1, EmptyContent DEF Truncate, TypeOK
<1>5. ASSUME NEW h \in Handlers, Rewrite(h) PROVE TypeOK'
  <2>1. call[h] # Idle /\ call[h] \in Call /\ call[h].kept \in Content
    BY <1>5 DEF Rewrite, At, TypeOK, Call
  <2>2. file' \in Content
    BY <1>5, <2>1, OverwrittenType DEF Rewrite, TypeOK
  <2>3. call' \in [Handlers -> Call \cup {Idle}]
    BY <1>5, <2>1, GotoCall DEF Rewrite
  <2> QED  BY <1>5, <2>2, <2>3 DEF Rewrite, TypeOK
<1>6. ASSUME NEW h \in Handlers, Reload(h) PROVE TypeOK'
  BY <1>6 DEF Reload, TypeOK
<1>7. CASE ReadHostsFile
  BY <1>7 DEF ReadHostsFile, TypeOK
<1>8. CASE StartDnsmasq
  BY <1>8 DEF StartDnsmasq, TypeOK
<1>9. CASE StopDnsmasq
  <2>1. starts' \in 0 .. MaxStarts
    BY <1>9 DEF StopDnsmasq, TypeOK
  <2> QED  BY <1>9, <2>1 DEF StopDnsmasq, TypeOK
<1>10. CASE EngineRestart
  <2>1. raced' \in BOOLEAN /\ orphaned' \in BOOLEAN
    BY <1>10 DEF EngineRestart, TypeOK
  <2>2. starts' \in 0 .. MaxStarts
    BY <1>10 DEF EngineRestart, TypeOK
  <2> QED  BY <1>10, <2>1, <2>2 DEF EngineRestart, TypeOK
<1>11. CASE UNCHANGED vars
  BY <1>11 DEF vars, TypeOK
<1> QED  BY <1>1, <1>2, <1>3, <1>4, <1>5, <1>6, <1>7, <1>8, <1>9, <1>10, <1>11 DEF Next
-----------------------------------------------------------------------------
(* Somebody is about to tell dnsmasq                                       *)
LEMMA ServesStep == TypeOK /\ ServesTheFile /\ [Next]_vars => ServesTheFile'
<1> SUFFICES ASSUME TypeOK, ServesTheFile, [Next]_vars PROVE ServesTheFile'
  OBVIOUS
<1> DEFINE Telling == \E h \in Handlers : At(h, "rewrite") \/ At(h, "reload")
<1>1. ASSUME NEW h \in Handlers, NEW op \in {"create", "delete"},
             NEW pc \in {"append", "truncate", "rewrite", "reload"},
             NEW line \in Line, NEW kept \in Content, Begin(h, op, pc, line, kept)
      PROVE  ServesTheFile'
  <2>1. Telling => Telling'
    BY <1>1, BeginCall DEF At
  <2> QED  BY <1>1, <2>1, BeginCall DEF ServesTheFile
<1>2. ASSUME NEW h \in Handlers, NEW line \in Line, CheckDuplicate(h, line) PROVE ServesTheFile'
  BY <1>1, <1>2, EmptyContent DEF CheckDuplicate
<1>3. ASSUME NEW h \in Handlers, NEW m \in Macs, ReadHosts(h, m) PROVE ServesTheFile'
  <2>1. Kept(m) \in Content
    BY KeptFacts DEF TypeOK
  <2>2. PICK i \in IPs : Begin(h, "delete", "truncate", [mac |-> m, ip |-> i], Kept(m))
    BY <1>3 DEF ReadHosts
  <2>3. [mac |-> m, ip |-> i] \in Line
    BY DEF Line
  <2> QED  BY <1>1, <2>1, <2>2, <2>3
<1>4. ASSUME NEW h \in Handlers, call[h] # Idle, Goto(h, "reload") \/ Goto(h, "rewrite")
      PROVE  Telling'
  BY <1>4, GotoCall DEF At
<1>5. ASSUME NEW h \in Handlers, AppendBinding(h) \/ Truncate(h) \/ Rewrite(h)
      PROVE  ServesTheFile'
  BY <1>4, <1>5 DEF AppendBinding, Truncate, Rewrite, At, ServesTheFile
<1>6. ASSUME NEW h \in Handlers, Reload(h) PROVE ServesTheFile'
  BY <1>6 DEF Reload, ServesTheFile
<1>7. CASE ReadHostsFile
  BY <1>7 DEF ReadHostsFile, ServesTheFile
<1>8. CASE StartDnsmasq
  BY <1>8 DEF StartDnsmasq, ServesTheFile
<1>9. CASE StopDnsmasq
  BY <1>9 DEF StopDnsmasq, ServesTheFile
<1>10. CASE EngineRestart
  BY <1>10 DEF EngineRestart, ServesTheFile
<1>11. CASE UNCHANGED vars
  BY <1>11 DEF vars, ServesTheFile, At
<1> QED  BY <1>2, <1>3, <1>5, <1>6, <1>7, <1>8, <1>9, <1>10, <1>11 DEF Next
-----------------------------------------------------------------------------
(* One line per binding                                                    *)

(* Calls that do not race: creates of different MACs, or one delete.       *)
Apart(g, h) ==
    call[g].op = "create" /\ call[h].op = "create" /\ call[g].line.mac # call[h].line.mac
Alone == \A g, h \in Handlers : g # h /\ call[g] # Idle /\ call[h] # Idle => Apart(g, h)

(* The lines s hold each binding of B once.                                *)
Holds(s, B) == ToSet(s) = B /\ IsInjective(s)
Without(B, m) == {l \in B : l.mac # m}
OnePerMac == \A a, b \in bound : a.mac = b.mac => a = b

(* A create that looked is about to add a MAC that is new; a delete that   *)
(* looked has the other bindings in hand.                                  *)
CreateInv(h) ==
    At(h, "append") => call[h].op = "create" /\ \A l \in bound : l.mac # call[h].line.mac
DeleteInv(h) ==
    At(h, "truncate") \/ At(h, "rewrite") =>
        call[h].op = "delete" /\ Holds(call[h].kept, Without(bound, call[h].line.mac))

Rewriting == \E h \in Handlers : At(h, "rewrite")
FileInv == IF Rewriting THEN file = << >> ELSE Holds(file, bound)

Exact == /\ Alone /\ OnePerMac /\ FileInv
         /\ \A h \in Handlers : CreateInv(h) /\ DeleteInv(h)
ExactInv == ~ raced => Exact

LEMMA ExactInit == Init => ExactInv
<1> SUFFICES ASSUME Init PROVE Exact
  BY DEF ExactInv
<1>1. \A h \in Handlers : call[h] = Idle
  BY DEF Init
<1>2. Holds(<< >>, {})
  BY DEF Holds, ToSet, IsInjective
<1> QED  BY <1>1, <1>2 DEF Init, Exact, Alone, OnePerMac, FileInv, Rewriting, CreateInv, DeleteInv, At

(* A delete in flight is the only call.                                    *)
LEMMA DeleteIsAlone ==
    ASSUME Alone, NEW h \in Handlers, call[h] # Idle, call[h].op = "delete"
    PROVE  \A g \in Handlers : g # h => call[g] = Idle
BY DEF Alone, Apart

(* A call that ends, or goes on to tell dnsmasq, with nothing else changed *)
(* leaves the others as they are.                                          *)
LEMMA CallsApart ==
    ASSUME Alone, NEW h \in Handlers, \A g \in Handlers \ {h} : call'[g] = call[g],
           call'[h] # Idle => call[h] # Idle /\ call'[h].op = call[h].op
                                             /\ call'[h].line = call[h].line
    PROVE  Alone'
BY DEF Alone, Apart

(* A call that begins apart from the others.                               *)
LEMMA BeginApart ==
    ASSUME Alone, NEW h \in Handlers, \A g \in Handlers \ {h} : call'[g] = call[g],
           NEW op \in {"create", "delete"}, NEW m, ~ Conflict(h, op, m),
           \A g \in Handlers : call[g] # Idle => call[g].op \in {"create", "delete"},
           call'[h].op = op, call'[h].line.mac = m
    PROVE  Alone'
BY DEF Alone, Apart, Conflict

LEMMA BeginExact ==
    ASSUME TypeOK, Exact, NEW h \in Handlers, NEW op \in {"create", "delete"},
           NEW line \in Line, NEW kept \in Content,
           ~ Rewriting => IF op = "create" THEN \A l \in bound : l.mac # line.mac
                          ELSE Holds(kept, Without(bound, line.mac)),
           Begin(h, op, IF op = "create" THEN "append" ELSE "truncate", line, kept)
    PROVE  ExactInv'
<1> SUFFICES ASSUME ~ raced' PROVE Exact'
  BY DEF ExactInv
<1> DEFINE pc == IF op = "create" THEN "append" ELSE "truncate"
<1>1. /\ call[h] = Idle /\ call'[h] # Idle /\ call'[h].pc = pc /\ call'[h].op = op
      /\ call'[h].line = line /\ call'[h].kept = kept
      /\ \A g \in Handlers \ {h} : call'[g] = call[g]
      /\ raced' = (raced \/ Conflict(h, op, line.mac))
      /\ UNCHANGED <<file, bound>>
  BY BeginCall
<1>2. ~ Conflict(h, op, line.mac)
  BY <1>1
<1>3. \A g \in Handlers : call[g] # Idle => call[g].op \in {"create", "delete"}
  BY DEF TypeOK, Call
<1>4. ~ Rewriting
  BY <1>1, <1>2 DEF Rewriting, Conflict, At, Exact, DeleteInv
<1>5. Alone'
  BY <1>1, <1>2, <1>3, BeginApart DEF Exact
<1>6. ~ Rewriting'
  BY <1>1, <1>4 DEF Rewriting, At
<1>7. FileInv' /\ OnePerMac'
  BY <1>1, <1>4, <1>6 DEF Exact, FileInv, OnePerMac
<1>8. ASSUME NEW g \in Handlers PROVE CreateInv(g)' /\ DeleteInv(g)'
  <2>1. CASE g = h
    BY <1>1, <1>4, <2>1 DEF CreateInv, DeleteInv, At
  <2>2. CASE g # h
    BY <1>1, <2>2 DEF Exact, CreateInv, DeleteInv, At
  <2> QED  BY <2>1, <2>2
<1> QED  BY <1>5, <1>7, <1>8 DEF Exact

LEMMA CheckDuplicateExact ==
    ASSUME TypeOK, Exact, NEW h \in Handlers, NEW line \in Line, CheckDuplicate(h, line)
    PROVE  ExactInv'
<1>1. Begin(h, "create", "append", line, << >>)
  BY DEF CheckDuplicate
<1>2. ~ Rewriting => \A l \in bound : l.mac # line.mac
  BY DEF CheckDuplicate, Names, Exact, FileInv, Holds, TypeOK
<1> QED  BY <1>1, <1>2, BeginExact, EmptyContent

LEMMA ReadHostsExact ==
    ASSUME TypeOK, Exact, NEW h \in Handlers, NEW m \in Macs, ReadHosts(h, m)
    PROVE  ExactInv'
<1>1. PICK i \in IPs : Begin(h, "delete", "truncate", [mac |-> m, ip |-> i], Kept(m))
  BY DEF ReadHosts
<1> DEFINE line == [mac |-> m, ip |-> i]
<1>2. line \in Line /\ line.mac = m
  BY DEF Line
<1>3. Kept(m) \in Content
  BY KeptFacts DEF TypeOK
<1>4. ~ Rewriting => Holds(Kept(m), Without(bound, m))
  <2> SUFFICES ASSUME ~ Rewriting PROVE Holds(Kept(m), Without(bound, m))
    OBVIOUS
  <2>1. ToSet(file) = bound /\ IsInjective(file)
    BY DEF Exact, FileInv, Holds
  <2>2. ToSet(Kept(m)) = {l \in bound : ~ Skipped(m, l)} /\ IsInjective(Kept(m))
    BY <2>1, KeptFacts DEF TypeOK
  <2>3. \A l \in bound : Skipped(m, l) <=> l.mac = m
    BY DEF TypeOK, Skipped
  <2> QED  BY <2>2, <2>3 DEF Holds, Without
<1> HIDE DEF line
<1> QED  BY <1>1, <1>2, <1>3, <1>4, BeginExact DEF line

LEMMA AppendExact ==
    ASSUME TypeOK, Exact, NEW h \in Handlers, AppendBinding(h)
    PROVE  Exact'
<1> DEFINE line == call[h].line
<1>1. /\ call[h] # Idle /\ line \in Line /\ call[h].op = "create"
      /\ \A l \in bound : l.mac # line.mac
      /\ file' = Append(file, line) /\ bound' = bound \cup {line} /\ Goto(h, "reload")
  BY DEF AppendBinding, At, TypeOK, Call, Exact, CreateInv
<1>2. /\ call'[h] # Idle /\ call'[h].pc = "reload" /\ call'[h].op = call[h].op
      /\ call'[h].line = line /\ call'[h].kept = call[h].kept
      /\ \A g \in Handlers \ {h} : call'[g] = call[g]
  BY <1>1, GotoCall
<1>3. Alone'
  BY <1>1, <1>2, CallsApart DEF Exact
<1>4. ASSUME NEW g \in Handlers, call[g] # Idle, g # h
      PROVE  call[g].op = "create" /\ call[g].line.mac # line.mac
  BY <1>1, <1>4 DEF Exact, Alone, Apart
<1>5. ~ Rewriting /\ ~ Rewriting'
  BY <1>1, <1>2, <1>4 DEF Rewriting, At, Exact, DeleteInv
<1>6. OnePerMac'
  BY <1>1 DEF Exact, OnePerMac
<1>7. FileInv'
  <2>1. ToSet(file) = bound /\ IsInjective(file) /\ line \notin bound
    BY <1>1, <1>5 DEF Exact, FileInv, Holds
  <2>2. file \in Seq(Line \cup {Fragment}) /\ line \in Line \cup {Fragment}
    BY <1>1 DEF TypeOK, Content
  <2>3. ToSet(Append(file, line)) = ToSet(file) \cup {line} /\ IsInjective(Append(file, line))
    BY <2>1, <2>2, AppendFacts
  <2> QED  BY <1>1, <1>5, <2>1, <2>3 DEF FileInv, Holds
<1>8. ASSUME NEW g \in Handlers PROVE CreateInv(g)' /\ DeleteInv(g)'
  <2>1. CASE g = h
    BY <1>2, <2>1 DEF CreateInv, DeleteInv, At
  <2>2. CASE g # h
    BY <1>1, <1>2, <1>4, <2>2 DEF Exact, CreateInv, DeleteInv, At
  <2> QED  BY <2>1, <2>2
<1> QED  BY <1>3, <1>6, <1>7, <1>8 DEF Exact

LEMMA TruncateExact ==
    ASSUME TypeOK, Exact, NEW h \in Handlers, Truncate(h)
    PROVE  Exact'
<1>1. /\ call[h] # Idle /\ call[h].op = "delete"
      /\ Holds(call[h].kept, Without(bound, call[h].line.mac))
      /\ file' = << >> /\ bound' = bound /\ Goto(h, "rewrite")
  BY DEF Truncate, At, Exact, DeleteInv
<1>2. /\ call'[h] # Idle /\ call'[h].pc = "rewrite" /\ call'[h].op = call[h].op
      /\ call'[h].line = call[h].line /\ call'[h].kept = call[h].kept
      /\ \A g \in Handlers \ {h} : call'[g] = call[g]
  BY <1>1, GotoCall
<1>3. Alone'
  BY <1>1, <1>2, CallsApart DEF Exact
<1>4. FileInv' /\ OnePerMac'
  BY <1>1, <1>2 DEF Exact, FileInv, OnePerMac, Rewriting, At
<1>5. ASSUME NEW g \in Handlers PROVE CreateInv(g)' /\ DeleteInv(g)'
  <2>1. CASE g = h
    BY <1>1, <1>2, <2>1 DEF CreateInv, DeleteInv, At
  <2>2. CASE g # h
    BY <1>1, <1>2, <2>2 DEF Exact, CreateInv, DeleteInv, At
  <2> QED  BY <2>1, <2>2
<1> QED  BY <1>3, <1>4, <1>5 DEF Exact

LEMMA RewriteExact ==
    ASSUME TypeOK, Exact, NEW h \in Handlers, Rewrite(h)
    PROVE  Exact'
<1>1. /\ call[h] # Idle /\ call[h].op = "delete" /\ call[h].kept \in Content
      /\ Holds(call[h].kept, Without(bound, call[h].line.mac))
      /\ bound' = Without(bound, call[h].line.mac) /\ Goto(h, "reload")
  BY DEF Rewrite, At, Exact, DeleteInv, TypeOK, Call, Without
<1>2. /\ call'[h] # Idle /\ call'[h].pc = "reload" /\ call'[h].op = call[h].op
      /\ call'[h].line = call[h].line /\ call'[h].kept = call[h].kept
      /\ \A g \in Handlers \ {h} : call'[g] = call[g]
  BY <1>1, GotoCall
<1>3. \A g \in Handlers : g # h => call[g] = Idle
  BY <1>1, DeleteIsAlone DEF Exact
<1>4. Alone'
  BY <1>1, <1>2, CallsApart DEF Exact
<1>5. file' = call[h].kept
  <2>1. file = << >>
    BY DEF Rewrite, Exact, FileInv, Rewriting
  <2> QED  BY <1>1, <2>1, OverwrittenEmpty DEF Rewrite
<1>6. ~ Rewriting'
  BY <1>2, <1>3 DEF Rewriting, At
<1>7. FileInv'
  BY <1>1, <1>5, <1>6 DEF FileInv
<1>8. OnePerMac'
  BY <1>1 DEF Exact, OnePerMac, Without
<1>9. ASSUME NEW g \in Handlers PROVE CreateInv(g)' /\ DeleteInv(g)'
  BY <1>2, <1>3 DEF CreateInv, DeleteInv, At
<1> QED  BY <1>4, <1>7, <1>8, <1>9 DEF Exact

(* A call that ends after it told dnsmasq was not rewriting.               *)
LEMMA ReloadExact ==
    ASSUME TypeOK, Exact, NEW h \in Handlers, Reload(h)
    PROVE  Exact'
<1>1. /\ call'[h] = Idle /\ \A g \in Handlers \ {h} : call'[g] = call[g]
      /\ call[h] # Idle /\ call[h].pc = "reload" /\ UNCHANGED <<file, bound>>
  BY DEF Reload, At, TypeOK
<1>2. Alone'
  BY <1>1, CallsApart DEF Exact
<1>3. Rewriting' = Rewriting
  BY <1>1 DEF Rewriting, At
<1>4. FileInv' /\ OnePerMac'
  BY <1>1, <1>3 DEF Exact, FileInv, OnePerMac
<1>5. ASSUME NEW g \in Handlers PROVE CreateInv(g)' /\ DeleteInv(g)'
  BY <1>1 DEF Exact, CreateInv, DeleteInv, At
<1> QED  BY <1>2, <1>4, <1>5 DEF Exact

LEMMA RestartExact ==
    ASSUME TypeOK, Exact, EngineRestart
    PROVE  ExactInv'
<1> SUFFICES ASSUME ~ raced' PROVE Exact'
  BY DEF ExactInv
<1>1. ~ Rewriting /\ UNCHANGED <<file, bound>> /\ \A h \in Handlers : call'[h] = Idle
  BY DEF EngineRestart, Rewriting
<1>2. ~ Rewriting'
  BY <1>1 DEF Rewriting, At
<1> QED
  BY <1>1, <1>2 DEF Exact, Alone, OnePerMac, FileInv, CreateInv, DeleteInv, At

LEMMA ExactStep == TypeOK /\ ExactInv /\ [Next]_vars => ExactInv'
<1> SUFFICES ASSUME TypeOK, ExactInv, [Next]_vars, ~ raced' PROVE ExactInv'
  BY DEF ExactInv
<1>1. ~ raced
  BY DEF Next, vars, CheckDuplicate, ReadHosts, Begin, AppendBinding, Truncate, Rewrite, Reload,
         ReadHostsFile, StartDnsmasq, StopDnsmasq, EngineRestart
<1>2. Exact
  BY <1>1 DEF ExactInv
<1>3. ASSUME NEW h \in Handlers, AppendBinding(h) \/ Truncate(h) \/ Rewrite(h) \/ Reload(h)
      PROVE  ExactInv'
  BY <1>2, <1>3, AppendExact, TruncateExact, RewriteExact, ReloadExact DEF ExactInv
<1>4. CASE ReadHostsFile \/ StartDnsmasq \/ StopDnsmasq \/ UNCHANGED vars
  <2>1. UNCHANGED <<file, call, bound>>
    BY <1>4 DEF ReadHostsFile, StartDnsmasq, StopDnsmasq, vars
  <2> QED
    BY <1>2, <2>1
    DEF ExactInv, Exact, Alone, Apart, OnePerMac, FileInv, Rewriting, CreateInv, DeleteInv, At
<1> QED
  BY <1>2, <1>3, <1>4, CheckDuplicateExact, ReadHostsExact, RestartExact DEF Next
-----------------------------------------------------------------------------
Inv == TypeOK /\ ServesTheFile /\ ExactInv

LEMMA Invariance == Spec => []Inv
<1>1. Init => Inv
  <2>1. Init => ServesTheFile
    BY DEF Init, ServesTheFile
  <2> QED  BY <2>1, TypeInit, ExactInit DEF Inv
<1>2. Inv /\ [Next]_vars => Inv'
  BY TypeStep, ServesStep, ExactStep DEF Inv
<1> QED  BY <1>1, <1>2, PTL DEF Spec

(* The file, what dnsmasq read of it and the calls keep their types.       *)
THEOREM BindingTypes == Spec => []TypeOK
<1>1. Inv => TypeOK  BY DEF Inv
<1> QED  BY <1>1, Invariance, PTL

(* Unless a delete overlaps another call, two creates of one MAC overlap,  *)
(* or a rewrite is cut short, the file holds each binding once, one per    *)
(* MAC, and no other line: for any number of handlers and addresses.       *)
THEOREM TheTableIsExact == Spec => []TableIsExact
<1>1. Inv => TableIsExact
  BY DEF Inv, ExactInv, Exact, OnePerMac, FileInv, Rewriting, Holds, TableIsExact
<1> QED  BY <1>1, Invariance, PTL

(* dnsmasq serves another table than the file holds only while somebody is *)
(* about to tell it, or after the engine died before it did.               *)
THEOREM DnsmasqServesTheFile == Spec => []ServesTheFile
<1>1. Inv => ServesTheFile  BY DEF Inv
<1> QED  BY <1>1, Invariance, PTL
-----------------------------------------------------------------------------
(* The table that requests change at once                                  *)

USE RequestAssumption

DoingNow == [h \in Handlers |-> Doing(h)]
Mapped == <<Bindings, ToSet(loaded), DoingNow, raced>>

(* A delete that looked found its MAC, and it is still there.              *)
FoundInv == ~ raced => \A h \in Handlers : At(h, "truncate") => \E l \in bound : l.mac = call[h].line.mac

LEMMA FoundStep == ASSUME Inv, FoundInv, [Next]_vars PROVE FoundInv'
<1> SUFFICES ASSUME ~ raced', NEW g \in Handlers, At(g, "truncate")'
             PROVE  \E l \in bound' : l.mac = call'[g].line.mac
  BY DEF FoundInv
<1>1. ~ raced
  BY DEF Next, vars, CheckDuplicate, ReadHosts, Begin, AppendBinding, Truncate, Rewrite, Reload,
         ReadHostsFile, StartDnsmasq, StopDnsmasq, EngineRestart
<1>2. TypeOK /\ Exact /\ (At(g, "truncate") => \E l \in bound : l.mac = call[g].line.mac)
  BY <1>1 DEF Inv, ExactInv, FoundInv
<1>3. ASSUME NEW h \in Handlers, NEW line \in Line, CheckDuplicate(h, line)
      PROVE  \E l \in bound' : l.mac = call'[g].line.mac
  <2>1. Begin(h, "create", "append", line, << >>)
    BY <1>3 DEF CheckDuplicate
  <2>2. call'[h].pc = "append" /\ bound' = bound /\ \A k \in Handlers \ {h} : call'[k] = call[k]
    BY <1>2, <2>1, BeginCall, EmptyContent
  <2> QED  BY <1>2, <2>2 DEF At
<1>4. ASSUME NEW h \in Handlers, NEW m \in Macs, ReadHosts(h, m)
      PROVE  \E l \in bound' : l.mac = call'[g].line.mac
  <2>1. PICK i \in IPs : Begin(h, "delete", "truncate", [mac |-> m, ip |-> i], Kept(m))
    BY <1>4 DEF ReadHosts
  <2> DEFINE line == [mac |-> m, ip |-> i]
  <2>2. line \in Line /\ line.mac = m /\ Kept(m) \in Content
    BY <1>2, KeptFacts DEF Line, TypeOK
  <2> HIDE DEF line
  <2>3. /\ call[h] = Idle /\ call'[h].line = line /\ bound' = bound /\ \A k \in Handlers \ {h} : call'[k] = call[k]
        /\ raced' = (raced \/ Conflict(h, "delete", line.mac))
    <3>1. Begin(h, "delete", "truncate", line, Kept(m))
      BY <2>1 DEF line
    <3> QED  BY <1>2, <2>2, <3>1, BeginCall
  <2>4. ~ Rewriting
    BY <2>3 DEF Conflict, Rewriting, At
  <2>5. \E l \in bound : l.mac = m
    BY <1>2, <1>4, <2>4 DEF ReadHosts, Names, Exact, FileInv, Holds
  <2> QED  BY <1>2, <2>2, <2>3, <2>5 DEF At
<1>5. ASSUME NEW h \in Handlers, NEW pc \in {"reload", "rewrite"}, call[h] # Idle, Goto(h, pc)
      PROVE  At(g, "truncate") /\ call'[g] = call[g] /\ g # h
  BY <1>2, <1>5, GotoCall DEF At
<1>6. ASSUME NEW h \in Handlers, AppendBinding(h) \/ Truncate(h)
      PROVE  \E l \in bound' : l.mac = call'[g].line.mac
  BY <1>2, <1>5, <1>6 DEF AppendBinding, Truncate, At
<1>7. ASSUME NEW h \in Handlers, Rewrite(h) PROVE \E l \in bound' : l.mac = call'[g].line.mac
  <2>1. At(g, "truncate") /\ g # h /\ call[h] # Idle /\ call[h].op = "delete"
    BY <1>2, <1>5, <1>7 DEF Rewrite, At, Exact, DeleteInv
  <2> QED  BY <1>2, <2>1, DeleteIsAlone DEF Exact, At
<1>8. ASSUME NEW h \in Handlers, Reload(h) PROVE \E l \in bound' : l.mac = call'[g].line.mac
  BY <1>2, <1>8 DEF Reload, At, TypeOK
<1>9. CASE EngineRestart
  BY <1>9 DEF EngineRestart, At
<1>10. CASE ReadHostsFile \/ StartDnsmasq \/ StopDnsmasq \/ UNCHANGED vars
  BY <1>2, <1>10 DEF ReadHostsFile, StartDnsmasq, StopDnsmasq, vars, At
<1> QED  BY <1>3, <1>4, <1>6, <1>7, <1>8, <1>9, <1>10 DEF Next

(* The table is what is bound; while a delete rewrites the file, what it   *)
(* has in hand.                                                            *)
LEMMA BindingsAre ==
    ASSUME TypeOK, Exact
    PROVE  /\ ~ Rewriting => Rewriters = {} /\ Bindings = ToSet(file) /\ Bindings = bound
           /\ \A h \in Handlers : At(h, "rewrite") =>
                 Rewriters = {h} /\ Bindings = ToSet(call[h].kept)
<1>1. CASE ~ Rewriting
  BY <1>1 DEF Rewriting, Rewriters, Bindings, Exact, FileInv, Holds
<1>2. ASSUME NEW h \in Handlers, At(h, "rewrite")
      PROVE  Rewriters = {h} /\ Bindings = ToSet(call[h].kept)
  <2>1. \A g \in Handlers : g # h => call[g] = Idle
    BY <1>2, DeleteIsAlone DEF Exact, DeleteInv, At
  <2>2. Rewriters = {h}
    BY <1>2, <2>1 DEF Rewriters, At
  <2>3. UNION {ToSet(call[k].kept) : k \in {h}} = ToSet(call[h].kept)
    OBVIOUS
  <2> QED  BY <2>2, <2>3 DEF Bindings
<1> QED  BY <1>1, <1>2 DEF Rewriting

(* A goroutine goes on, and the others stay where they are.                *)
LEMMA DoingStep ==
    ASSUME NEW h \in Handlers, \A g \in Handlers \ {h} : call'[g] = call[g],
           NEW d, Doing(h)' = d
    PROVE  DoingNow' = [DoingNow EXCEPT ![h] = d]
BY DEF DoingNow, Doing

LEMMA DoingRequest ==
    ASSUME TypeOK, NEW h \in Handlers, call[h] # Idle
    PROVE  /\ Doing(h) = [op |-> call[h].op, line |-> call[h].line,
                          done |-> call[h].pc \in {"rewrite", "reload"}]
           /\ Doing(h) # Idle /\ DoingNow[h] = Doing(h)
<1>1. call[h].op \in {"create", "delete"} /\ call[h].line \in Table!Binding
  BY DEF TypeOK, Call, Line, Table!Binding
<1>2. Doing(h) = [op |-> call[h].op, line |-> call[h].line,
                  done |-> call[h].pc \in {"rewrite", "reload"}]
  BY DEF Doing
<1>3. Doing(h) \in Table!Request
  BY <1>1, <1>2 DEF Table!Request
<1> QED  BY <1>2, <1>3 DEF DoingNow

LEMMA BeginMaps ==
    ASSUME TypeOK, Exact, Exact', NEW h \in Handlers, NEW op \in {"create", "delete"},
           NEW pc, pc = IF op = "create" THEN "append" ELSE "truncate",
           NEW line \in Line, NEW kept \in Content, Begin(h, op, pc, line, kept),
           ~ raced, ~ raced'
    PROVE  Table!Begin(h, op, line)
<1>1. /\ call[h] = Idle /\ call'[h] # Idle /\ call'[h].pc = pc /\ call'[h].op = op
      /\ call'[h].line = line /\ \A g \in Handlers \ {h} : call'[g] = call[g]
      /\ raced' = (raced \/ Conflict(h, op, line.mac)) /\ UNCHANGED <<file, loaded, bound>>
      /\ TypeOK'
  BY BeginCall
<1>2. ~ Rewriting
  BY <1>1 DEF Rewriting, Conflict, At, Exact, DeleteInv
<1>3. ~ Rewriting'
  BY <1>1, <1>2 DEF Rewriting, At
<1>4. Bindings' = Bindings
  <2>1. Rewriters = {} /\ Rewriters' = {}
    BY <1>2, <1>3 DEF Rewriters, Rewriting
  <2> QED  BY <1>1, <2>1 DEF Bindings
<1>5. Doing(h)' = [op |-> op, line |-> line, done |-> FALSE]
  <2>1. (call'[h].pc \in {"rewrite", "reload"}) = FALSE
    BY <1>1
  <2> QED  BY <1>1, <2>1 DEF Doing
<1>6. DoingNow' = [DoingNow EXCEPT ![h] = [op |-> op, line |-> line, done |-> FALSE]]
  BY <1>1, <1>5, DoingStep
<1>7. DoingNow[h] = Idle
  BY <1>1 DEF DoingNow, Doing
<1>8. raced' = raced
  BY <1>1 DEF TypeOK
<1> QED  BY <1>1, <1>4, <1>6, <1>7, <1>8 DEF Table!Begin, DoingNow

(* A request that takes effect.                                            *)
LEMMA EffectMaps ==
    ASSUME TypeOK, NEW h \in Handlers, call[h] # Idle, call[h].pc \in {"append", "truncate"},
           NEW pc \in {"rewrite", "reload"}, Goto(h, pc), UNCHANGED <<loaded, raced>>
    PROVE  /\ Table!TakesEffect(h, call[h].op) /\ DoingNow[h].line = call[h].line
<1>1. /\ call'[h] # Idle /\ call'[h].pc = pc /\ call'[h].op = call[h].op
      /\ call'[h].line = call[h].line /\ \A g \in Handlers \ {h} : call'[g] = call[g]
  BY GotoCall
<1> DEFINE c == [op |-> call[h].op, line |-> call[h].line, done |-> FALSE]
           d == [op |-> call[h].op, line |-> call[h].line, done |-> TRUE]
<1>2. DoingNow[h] = c /\ DoingNow[h] # Idle
  <2>1. (call[h].pc \in {"rewrite", "reload"}) = FALSE
    OBVIOUS
  <2> QED  BY <2>1, DoingRequest
<1>3. Doing(h)' = d
  BY <1>1 DEF Doing
<1>4. DoingNow' = [DoingNow EXCEPT ![h] = d]
  BY <1>1, <1>3, DoingStep
<1>5. ~ DoingNow[h].done /\ DoingNow[h].op = call[h].op /\ DoingNow[h].line = call[h].line
  BY <1>2
<1> HIDE DEF c
<1> QED  BY <1>2, <1>4, <1>5 DEF Table!TakesEffect, DoingNow

LEMMA AppendMaps ==
    ASSUME TypeOK, Exact, Exact', TypeOK', NEW h \in Handlers, AppendBinding(h)
    PROVE  Table!Create(h)
<1> DEFINE line == call[h].line
<1>1. /\ call[h] # Idle /\ call[h].pc = "append" /\ call[h].op = "create" /\ line \in Line
      /\ \A l \in bound : l.mac # line.mac
      /\ file' = Append(file, line) /\ Goto(h, "reload") /\ UNCHANGED <<loaded, raced>>
  BY DEF AppendBinding, At, Exact, CreateInv, TypeOK, Call
<1>2. call'[h].pc = "reload" /\ \A g \in Handlers \ {h} : call'[g] = call[g]
  BY <1>1, GotoCall
<1>3. ~ Rewriting
  BY <1>1, DeleteIsAlone DEF Rewriting, At, Exact, DeleteInv
<1>4. ~ Rewriting'
  BY <1>2, <1>3 DEF Rewriting, At
<1>5. Bindings = bound /\ Bindings' = bound'
  BY <1>3, <1>4, BindingsAre DEF Rewriting, Rewriters, Bindings, Exact, FileInv, Holds
<1>6. bound' = bound \cup {line}
  BY DEF AppendBinding
<1>7. Table!TakesEffect(h, "create") /\ DoingNow[h].line = line
  BY <1>1, EffectMaps
<1> QED  BY <1>1, <1>5, <1>6, <1>7 DEF Table!Create, DoingNow

LEMMA TruncateMaps ==
    ASSUME TypeOK, Exact, Exact', TypeOK', NEW h \in Handlers, Truncate(h),
           \E l \in bound : l.mac = call[h].line.mac
    PROVE  Table!Delete(h)
<1> DEFINE m == call[h].line.mac
<1>1. /\ call[h] # Idle /\ call[h].pc = "truncate" /\ call[h].op = "delete"
      /\ Holds(call[h].kept, Without(bound, m))
      /\ Goto(h, "rewrite") /\ UNCHANGED <<loaded, raced>>
  BY DEF Truncate, At, Exact, DeleteInv
<1>2. /\ call'[h] # Idle /\ call'[h].pc = "rewrite" /\ call'[h].kept = call[h].kept
      /\ \A g \in Handlers \ {h} : call'[g] = call[g]
  BY <1>1, GotoCall
<1>3. ~ Rewriting
  BY <1>1, DeleteIsAlone DEF Rewriting, At, Exact
<1>4. Bindings = bound
  BY <1>3, BindingsAre
<1>5. Bindings' = ToSet(call[h].kept)
  <2>1. Rewriters' = {h}
    BY <1>2, <1>3 DEF Rewriters, Rewriting, At
  <2>2. UNION {ToSet(call'[g].kept) : g \in {h}} = ToSet(call'[h].kept)
    OBVIOUS
  <2> QED  BY <1>2, <2>1, <2>2 DEF Bindings
<1>6. Bindings' = {k \in bound : k.mac # m}
  BY <1>1, <1>5 DEF Holds, Without
<1>7. Table!TakesEffect(h, "delete") /\ DoingNow[h].line = call[h].line
  BY <1>1, EffectMaps
<1> QED  BY <1>4, <1>6, <1>7 DEF Table!Delete, DoingNow

LEMMA RewriteMaps ==
    ASSUME TypeOK, Exact, Exact', TypeOK', NEW h \in Handlers, Rewrite(h)
    PROVE  UNCHANGED Mapped
<1>1. /\ call[h] # Idle /\ call[h].pc = "rewrite" /\ call[h].op = "delete" /\ call[h].kept \in Content
      /\ Goto(h, "reload") /\ UNCHANGED <<loaded, raced>>
  BY DEF Rewrite, At, Exact, DeleteInv, TypeOK, Call
<1>2. /\ call'[h] # Idle /\ call'[h].pc = "reload" /\ call'[h].op = call[h].op
      /\ call'[h].line = call[h].line /\ \A g \in Handlers \ {h} : call'[g] = call[g]
  BY <1>1, GotoCall
<1>3. Bindings = ToSet(call[h].kept)
  BY <1>1, BindingsAre DEF At
<1>4. file' = call[h].kept
  <2>1. file = << >>
    BY <1>1 DEF Exact, FileInv, Rewriting, At
  <2> QED  BY <1>1, <2>1, OverwrittenEmpty DEF Rewrite
<1>5. Rewriters' = {}
  BY <1>1, <1>2, DeleteIsAlone DEF Rewriters, At, Exact
<1>6. Bindings' = Bindings
  BY <1>3, <1>4, <1>5 DEF Bindings
<1>7. DoingNow' = DoingNow
  BY <1>1, <1>2 DEF DoingNow, Doing
<1> QED  BY <1>1, <1>6, <1>7 DEF Mapped

LEMMA ReloadMaps ==
    ASSUME TypeOK, Exact, NEW h \in Handlers, Reload(h) PROVE Table!Answer(h)
<1>1. /\ call[h] # Idle /\ call[h].pc = "reload" /\ call'[h] = Idle
      /\ \A g \in Handlers \ {h} : call'[g] = call[g]
      /\ UNCHANGED <<file, loaded, raced>>
  BY DEF Reload, At, TypeOK
<1>2. Bindings' = Bindings
  <2>1. Rewriters' = Rewriters /\ h \notin Rewriters
    BY <1>1 DEF Rewriters, At
  <2>2. \A g \in Rewriters : call'[g] = call[g]
    BY <1>1, <2>1 DEF Rewriters
  <2>3. {ToSet(call'[g].kept) : g \in Rewriters} = {ToSet(call[g].kept) : g \in Rewriters}
    BY <2>2
  <2> QED  BY <1>1, <2>1, <2>3 DEF Bindings
<1>3. DoingNow' = [DoingNow EXCEPT ![h] = Idle]
  <2>1. Doing(h)' = Idle
    BY <1>1 DEF Doing
  <2> QED  BY <1>1, <2>1, DoingStep
<1>4. DoingNow[h] # Idle /\ DoingNow[h].done
  <2>1. DoingNow[h] # Idle /\ DoingNow[h] = Doing(h)
    BY <1>1, DoingRequest
  <2>2. Doing(h) = [op |-> call[h].op, line |-> call[h].line, done |-> call[h].pc \in {"rewrite", "reload"}]
    BY <1>1, DoingRequest
  <2>3. Doing(h).done = (call[h].pc \in {"rewrite", "reload"})
    BY <2>2
  <2>4. call[h].pc \in {"rewrite", "reload"}
    BY <1>1
  <2> QED  BY <2>1, <2>3, <2>4, Zenon
<1> QED  BY <1>1, <1>2, <1>3, <1>4 DEF Table!Answer, DoingNow

(* dnsmasq reads the file: all of the table, or nothing while it is being  *)
(* rewritten.                                                              *)
LEMMA ServeMaps ==
    ASSUME TypeOK, Exact, loaded' = file, UNCHANGED <<file, call, raced>>
    PROVE  Table!Serve
<1>1. Bindings' = Bindings /\ DoingNow' = DoingNow
  BY DEF Bindings, Rewriters, At, DoingNow, Doing
<1>2. CASE ~ Rewriting
  BY <1>1, <1>2, BindingsAre DEF Table!Serve, DoingNow
<1>3. CASE Rewriting
  <2>1. PICK h \in Handlers : At(h, "rewrite")
    BY <1>3 DEF Rewriting
  <2>2. DoingNow[h] # Idle /\ DoingNow[h].op = "delete"
    BY <2>1, DoingRequest DEF At, Exact, DeleteInv
  <2>3. ToSet(file) = {}
    BY <1>3 DEF Exact, FileInv, ToSet
  <2> QED  BY <1>1, <2>2, <2>3 DEF Table!Serve, Table!Deleting, DoingNow
<1> QED  BY <1>2, <1>3

LEMMA RestartMaps ==
    ASSUME TypeOK, Exact, ~ raced, ~ raced', EngineRestart PROVE Table!Die
<1>1. /\ call' = [h \in Handlers |-> Idle] /\ UNCHANGED <<file, loaded, raced>>
      /\ Rewriters = {}
  BY DEF EngineRestart, Rewriters, TypeOK
<1>2. Rewriters' = {}
  BY <1>1 DEF Rewriters, At
<1>3. Bindings' = Bindings
  BY <1>1, <1>2 DEF Bindings
<1>4. DoingNow' = [h \in Handlers |-> Idle]
  BY <1>1 DEF DoingNow, Doing
<1> QED  BY <1>1, <1>3, <1>4 DEF Table!Die, DoingNow

LEMMA TableInit == Init => Table!BInit /\ FoundInv
<1> SUFFICES ASSUME Init PROVE Table!BInit /\ FoundInv
  OBVIOUS
<1>1. file = << >> /\ loaded = << >> /\ raced = FALSE /\ \A h \in Handlers : call[h] = Idle
  BY DEF Init
<1>2. Bindings = {} /\ ToSet(loaded) = {}
  BY <1>1 DEF Bindings, Rewriters, At, ToSet
<1>3. DoingNow = [h \in Handlers |-> Idle]
  BY <1>1 DEF DoingNow, Doing
<1>4. FoundInv
  BY <1>1 DEF FoundInv, At
<1> QED  BY <1>1, <1>2, <1>3, <1>4 DEF Table!BInit, DoingNow

LEMMA TableStep == ASSUME Inv, Inv', FoundInv, [Next]_vars PROVE [Table!BNext]_(Table!bvars)
<1>1. CASE raced'
  BY <1>1 DEF Table!BNext
<1>2. CASE ~ raced'
  <2>1. ~ raced
    BY <1>2 DEF Next, vars, CheckDuplicate, ReadHosts, Begin, AppendBinding, Truncate, Rewrite, Reload,
                ReadHostsFile, StartDnsmasq, StopDnsmasq, EngineRestart
  <2>2. TypeOK /\ TypeOK' /\ Exact /\ Exact'
    BY <1>2, <2>1 DEF Inv, ExactInv
  <2>3. ASSUME NEW h \in Handlers, NEW line \in Line, CheckDuplicate(h, line) PROVE Table!BNext
    <3>1. Table!Begin(h, "create", line)
      BY <1>2, <2>1, <2>2, <2>3, BeginMaps, EmptyContent DEF CheckDuplicate
    <3> QED  BY <3>1 DEF Table!BNext, Table!Binding, Line
  <2>4. ASSUME NEW h \in Handlers, NEW m \in Macs, ReadHosts(h, m) PROVE Table!BNext
    <3>1. PICK i \in IPs : Begin(h, "delete", "truncate", [mac |-> m, ip |-> i], Kept(m))
      BY <2>4 DEF ReadHosts
    <3>2. [mac |-> m, ip |-> i] \in Line /\ Kept(m) \in Content
      BY <2>2, KeptFacts DEF Line, TypeOK
    <3>3. Table!Begin(h, "delete", [mac |-> m, ip |-> i])
      BY <1>2, <2>1, <2>2, <3>1, <3>2, BeginMaps
    <3> QED  BY <3>2, <3>3 DEF Table!BNext, Table!Binding, Line
  <2>5. ASSUME NEW h \in Handlers, AppendBinding(h) PROVE Table!BNext
    BY <2>2, <2>5, AppendMaps DEF Table!BNext
  <2>6. ASSUME NEW h \in Handlers, Truncate(h) PROVE Table!BNext
    BY <2>1, <2>2, <2>6, TruncateMaps DEF Table!BNext, FoundInv, Truncate
  <2>7. ASSUME NEW h \in Handlers, Rewrite(h) PROVE UNCHANGED Table!bvars
    BY <2>2, <2>7, RewriteMaps DEF Mapped, DoingNow, Table!bvars
  <2>8. ASSUME NEW h \in Handlers, Reload(h) PROVE Table!BNext
    BY <2>2, <2>8, ReloadMaps DEF Table!BNext
  <2>9. CASE ReadHostsFile \/ StartDnsmasq
    BY <2>2, <2>9, ServeMaps DEF Table!BNext, ReadHostsFile, StartDnsmasq
  <2>10. CASE EngineRestart
    BY <1>2, <2>1, <2>2, <2>10, RestartMaps DEF Table!BNext
  <2>11. CASE StopDnsmasq \/ UNCHANGED vars
    <3>1. UNCHANGED <<file, loaded, call, raced>>
      BY <2>11 DEF StopDnsmasq, vars
    <3>2. UNCHANGED Mapped
      BY <3>1 DEF Mapped, Bindings, Rewriters, At, DoingNow, Doing
    <3> QED  BY <3>2 DEF Mapped, DoingNow, Table!bvars
  <2> QED  BY <2>3, <2>4, <2>5, <2>6, <2>7, <2>8, <2>9, <2>10, <2>11 DEF Next
<1> QED  BY <1>1, <1>2

(* For any number of MACs, handlers, requests and deaths, the handlers and *)
(* the file implement a table of bindings that each request changes at     *)
(* once and dnsmasq serves, up to the overlaps that the code does nothing  *)
(* against: the refinement that bindings_safety checks for three handlers. *)
THEOREM BindingsAreATable == Spec => ImplementsTable
<1>1. Init => Table!BInit /\ FoundInv
  BY TableInit
<1>2. Inv /\ FoundInv /\ [Next]_vars => FoundInv'
  BY FoundStep
<1>3. Inv /\ Inv' /\ FoundInv /\ [Next]_vars => [Table!BNext]_(Table!bvars)
  BY TableStep
<1> QED  BY <1>1, <1>2, <1>3, Invariance, PTL DEF Spec, ImplementsTable, Table!BSpec
=============================================================================

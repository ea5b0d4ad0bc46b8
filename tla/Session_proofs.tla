---------------------------- MODULE Session_proofs ----------------------------
(***************************************************************************)
(* Proofs about Session, for every set of sessions and prompts, every      *)
(* environment, threshold and number of crashes: IInv is inductive, so     *)
(* transcripts are what the model saw and whole, answered prompts stay     *)
(* stored, and the store never goes back.                                  *)
(***************************************************************************)
EXTENDS Session, SequenceTheorems, TLAPS

-----------------------------------------------------------------------------
(* Transcripts: what compacting, cutting and extending one leave of it. *)

\* Markers are messages; no transcript is the absence of one.
LEMMA Messaging ==
  /\ Summary \in Entries /\ Summary.by = None /\ Summary.kind = "marker"
  /\ Absent \notin Seq(Entries)
<1>1. Summary \in Entries /\ Summary.by = None /\ Summary.kind = "marker"
  BY DEF Summary, Entry, Entries
<1>2. ASSUME Absent \in Seq(Entries) PROVE FALSE
  <2>1. Len(Absent) = 1 /\ Absent[1].kind = "absent" BY DEF Absent, Entry
  <2>2. 1 \in 1 .. Len(Absent) BY <2>1
  <2>3. Absent[1] \in Entries BY <1>2, <2>2, ElementOfSeq
  <2> QED BY <2>1, <2>3 DEF Entries
<1> QED BY <1>1, <1>2

\* o is a marker and what follows the first d + 1 messages of m.
MarkedTail(m, d, o) ==
  /\ o \in Seq(Entries) /\ DOMAIN o = 1 .. Len(o) /\ Len(o) \in Nat /\ Len(o) = Len(m) - d
  /\ DOMAIN m = 1 .. Len(m) /\ Len(m) \in Nat /\ d \in Nat /\ d < Len(m)
  /\ o[1] = Summary /\ Marked(o)
  /\ \A k \in 2 .. Len(o) : k + d \in 2 .. Len(m) /\ o[k] = m[k + d]

\* That is what a compaction makes of a transcript.
LEMMA Tailed ==
  ASSUME NEW m \in Seq(Entries), NEW c \in 1 .. Len(m), NEW o,
         o = <<Summary>> \o SubSeq(m, c + 1, Len(m))
  PROVE  MarkedTail(m, c - 1, o)
<1> DEFINE s == SubSeq(m, c + 1, Len(m))
<1>1. Len(m) \in Nat /\ c \in Nat BY LenProperties
<1>2. \A i \in c + 1 .. Len(m) : m[i] \in Entries
  <2>1. \A i \in c + 1 .. Len(m) : i \in 1 .. Len(m) BY <1>1
  <2> QED BY <2>1, ElementOfSeq
<1>3. /\ s \in Seq(Entries) /\ Len(s) = Len(m) - c
      /\ \A i \in 1 .. Len(m) - c : s[i] = m[i + c]
  <2>1. /\ s \in Seq(Entries)
        /\ Len(s) = IF c + 1 <= Len(m) THEN Len(m) - (c + 1) + 1 ELSE 0
        /\ \A i \in 1 .. Len(m) - (c + 1) + 1 : s[i] = m[(c + 1) + i - 1]
    BY <1>1, <1>2, SubSeqProperties
  <2>2. Len(s) = Len(m) - c BY <1>1, <2>1
  <2>3. \A i \in 1 .. Len(m) - c : s[i] = m[i + c]
    <3> SUFFICES ASSUME NEW i \in 1 .. Len(m) - c PROVE s[i] = m[i + c] OBVIOUS
    <3>1. i \in 1 .. Len(m) - (c + 1) + 1 /\ (c + 1) + i - 1 = i + c BY <1>1
    <3> QED BY <2>1, <3>1
  <2> QED BY <2>1, <2>2, <2>3
<1> HIDE DEF s
<1>4. <<Summary>> \in Seq(Entries) /\ Len(<<Summary>>) = 1 /\ <<Summary>>[1] = Summary BY Messaging
<1>5. /\ o \in Seq(Entries) /\ Len(o) = 1 + Len(s)
      /\ \A i \in 1 .. 1 + Len(s) : o[i] = IF i <= 1 THEN <<Summary>>[i] ELSE s[i - 1]
  BY <1>3, <1>4, ConcatProperties DEF s
<1>6. Len(o) = Len(m) - c + 1 /\ o[1] = Summary BY <1>1, <1>3, <1>4, <1>5
<1>7. \A k \in 2 .. Len(o) : k + c - 1 \in c + 1 .. Len(m) /\ o[k] = m[k + c - 1]
  <2> SUFFICES ASSUME NEW k \in 2 .. Len(o)
               PROVE  k + c - 1 \in c + 1 .. Len(m) /\ o[k] = m[k + c - 1]
    OBVIOUS
  <2>1. o[k] = s[k - 1] /\ k - 1 \in 1 .. Len(m) - c BY <1>1, <1>3, <1>5, <1>6
  <2> QED BY <1>1, <1>3, <2>1
<1>8. o # <<>> /\ Head(o) = o[1] BY <1>1, <1>5, <1>6, EmptySeq
<1>9. \A k \in 2 .. Len(o) : k + (c - 1) \in 2 .. Len(m) /\ o[k] = m[k + (c - 1)]
  <2> SUFFICES ASSUME NEW k \in 2 .. Len(o)
               PROVE  k + (c - 1) \in 2 .. Len(m) /\ o[k] = m[k + (c - 1)]
    OBVIOUS
  <2>1. k + (c - 1) = k + c - 1 BY <1>1
  <2>2. k + c - 1 \in 2 .. Len(m) BY <1>1, <1>7
  <2> QED BY <1>7, <2>1, <2>2
<1>10. /\ DOMAIN o = 1 .. Len(o) /\ Len(o) \in Nat /\ DOMAIN m = 1 .. Len(m)
       /\ c - 1 \in Nat /\ c - 1 < Len(m) /\ Len(o) = Len(m) - (c - 1)
  BY <1>1, <1>5, <1>6, LenProperties
<1> QED BY <1>1, <1>5, <1>6, <1>8, <1>9, <1>10 DEF Marked, MarkedTail

\* o is the first n messages of m.
Prefix(m, n, o) ==
  /\ o \in Seq(Entries) /\ DOMAIN o = 1 .. n /\ Len(o) = n /\ n \in Nat
  /\ DOMAIN m = 1 .. Len(m) /\ Len(m) \in Nat /\ n <= Len(m)
  /\ \A k \in 1 .. n : o[k] = m[k]

\* That is what a fork copies.
LEMMA Cut ==
  ASSUME NEW m \in Seq(Entries), NEW n \in 0 .. Len(m)
  PROVE  Prefix(m, n, SubSeq(m, 1, n))
<1>1. Len(m) \in Nat /\ n \in Nat BY LenProperties
<1>2. \A i \in 1 .. n : m[i] \in Entries
  <2>1. \A i \in 1 .. n : i \in 1 .. Len(m) BY <1>1
  <2> QED BY <2>1, ElementOfSeq
<1>3. /\ SubSeq(m, 1, n) \in Seq(Entries)
      /\ Len(SubSeq(m, 1, n)) = IF 1 <= n THEN n - 1 + 1 ELSE 0
      /\ \A i \in 1 .. n - 1 + 1 : SubSeq(m, 1, n)[i] = m[1 + i - 1]
  BY <1>1, <1>2, SubSeqProperties
<1>4. \A k \in 1 .. n : k \in 1 .. n - 1 + 1 /\ 1 + k - 1 = k BY <1>1
<1>5. /\ SubSeq(m, 1, n) \in Seq(Entries) /\ Len(SubSeq(m, 1, n)) = n
      /\ \A k \in 1 .. n : SubSeq(m, 1, n)[k] = m[k]
  BY <1>1, <1>3, <1>4
<1>6. DOMAIN SubSeq(m, 1, n) = 1 .. Len(SubSeq(m, 1, n)) /\ DOMAIN m = 1 .. Len(m)
  BY <1>5, LenProperties
<1>7. n <= Len(m) BY <1>1
<1> QED BY <1>1, <1>5, <1>6, <1>7 DEF Prefix

\* What a prompt adds: the block it shows, if any, then what it asks, then the answer.
Addition(e, p, b) ==
  /\ e \in Seq(Entries)
  /\ \A k \in 1 .. Len(e) :
       /\ e[k].by = p /\ e[k].kind # "marker"
       /\ e[k].kind = "env" => k = 1 /\ e[k].tag = b /\ b # NoBlock
       /\ e[k].kind = "user" => \A j \in 1 .. k - 1 : e[j].kind = "env"

\* Short sequences put together.
LEMMA Joined ==
  ASSUME NEW S, NEW x \in S, NEW y \in S, NEW z \in S
  PROVE  /\ <<>> \o <<x>> = <<x>> /\ <<x>> \o <<>> = <<x>> /\ <<x, y>> \o <<>> = <<x, y>>
         /\ <<x>> \o <<y>> = <<x, y>> /\ <<x, y>> \o <<z>> = <<x, y, z>>
<1>1. <<x>> \in Seq(S) /\ <<x, y>> \in Seq(S) OBVIOUS
<1>2. <<>> \o <<x>> = <<x>> /\ <<x>> \o <<>> = <<x>> /\ <<x, y>> \o <<>> = <<x, y>>
  BY <1>1, ConcatEmptySeq
<1>3. Append(<<x>>, y) = <<x, y>>
  <2> DEFINE s == Append(<<x>>, y)
             t == <<x, y>>
  <2>1. s \in Seq(S) /\ Len(s) = 2 /\ s[1] = x /\ s[2] = y
    <3>1. /\ s \in Seq(S) /\ Len(s) = Len(<<x>>) + 1
          /\ \A i \in 1 .. Len(<<x>>) : s[i] = <<x>>[i]
          /\ s[Len(<<x>>) + 1] = y
      BY <1>1, AppendProperties
    <3>2. Len(<<x>>) = 1 /\ <<x>>[1] = x OBVIOUS
    <3> QED BY <3>1, <3>2
  <2>2. t \in Seq(S) /\ Len(t) = 2 /\ t[1] = x /\ t[2] = y OBVIOUS
  <2> HIDE DEF s, t
  <2>3. s = t BY <2>1, <2>2, SeqEqual
  <2> QED BY <2>3 DEF s, t
<1>4. Append(<<x, y>>, z) = <<x, y, z>>
  <2> DEFINE s == Append(<<x, y>>, z)
             t == <<x, y, z>>
  <2>1. s \in Seq(S) /\ Len(s) = 3 /\ s[1] = x /\ s[2] = y /\ s[3] = z
    <3>1. /\ s \in Seq(S) /\ Len(s) = Len(<<x, y>>) + 1
          /\ \A i \in 1 .. Len(<<x, y>>) : s[i] = <<x, y>>[i]
          /\ s[Len(<<x, y>>) + 1] = z
      BY <1>1, AppendProperties
    <3>2. Len(<<x, y>>) = 2 /\ <<x, y>>[1] = x /\ <<x, y>>[2] = y OBVIOUS
    <3> QED BY <3>1, <3>2
  <2>2. t \in Seq(S) /\ Len(t) = 3 /\ t[1] = x /\ t[2] = y /\ t[3] = z OBVIOUS
  <2> HIDE DEF s, t
  <2>3. s = t BY <2>1, <2>2, SeqEqual
  <2> QED BY <2>3 DEF s, t
<1>5. Append(<<x>>, y) = <<x>> \o <<y>> /\ Append(<<x, y>>, z) = <<x, y>> \o <<z>>
  BY <1>1, AppendIsConcat
<1> QED BY <1>2, <1>3, <1>4, <1>5

\* Prompt adds that much and no more, and its pieces can be added one by one.
LEMMA Adds ==
  ASSUME NEW p \in Prompts, StateInv, NEW new \in Runs(p)
  PROVE  /\ Addition(Asked(p) \o new, p, job[p].block)
         /\ Asked(p) \in Seq(Entries) /\ new \in Seq(Entries)
         /\ \A m \in Seq(Entries) : (m \o Asked(p)) \o new = m \o (Asked(p) \o new)
<1>1. job[p].block \in Blocks /\ job[p].attempt \in {"first", "second"} BY DEF StateInv, Jobs
<1> DEFINE u == Entry(p, "user", None)
           b == Entry(p, "env", job[p].block)
           r == Reply(p)
           e == Asked(p) \o new
<1>2. /\ u \in Entries /\ u.by = p /\ u.kind = "user"
      /\ b \in Entries /\ b.by = p /\ b.kind = "env" /\ b.tag = job[p].block
      /\ r \in Entries /\ r.by = p /\ r.kind = "reply"
  BY <1>1 DEF Entry, Entries, Reply
<1> HIDE DEF u, b, r
<1>3. Asked(p) = IF job[p].block = NoBlock THEN <<u>> ELSE <<b, u>>
  <2>1. Asked(p) = (IF job[p].block = NoBlock THEN <<>> ELSE <<b>>) \o <<u>> BY DEF Asked, u, b
  <2>2. CASE job[p].block = NoBlock BY <1>2, <2>1, <2>2, Joined
  <2>3. CASE job[p].block # NoBlock BY <1>2, <2>1, <2>3, Joined
  <2> QED BY <2>2, <2>3
<1>4. new = <<>> \/ new = <<r>> BY DEF Runs, r
<1>5. Asked(p) \in Seq(Entries) /\ new \in Seq(Entries)
  <2>1. /\ <<u>> \in Seq(Entries) /\ <<b, u>> \in Seq(Entries) /\ <<r>> \in Seq(Entries)
        /\ <<>> \in Seq(Entries)
    BY <1>2
  <2> QED BY <1>3, <1>4, <2>1
<1>6. \A m \in Seq(Entries) : (m \o Asked(p)) \o new = m \o (Asked(p) \o new)
  BY <1>5, ConcatAssociative
<1>7. \/ e = <<u>>
      \/ e = <<u, r>>
      \/ e = <<b, u>> /\ job[p].block # NoBlock
      \/ e = <<b, u, r>> /\ job[p].block # NoBlock
  <2>1. CASE new = <<>> BY <1>2, <1>3, <2>1, Joined
  <2>2. CASE new = <<r>> BY <1>2, <1>3, <2>2, Joined
  <2> QED BY <1>4, <2>1, <2>2
<1> HIDE DEF e
<1>8. Addition(e, p, job[p].block)
  <2>1. CASE e = <<u>> BY <1>2, <2>1 DEF Addition
  <2>2. CASE e = <<u, r>> BY <1>2, <2>2 DEF Addition
  <2>3. CASE e = <<b, u>> /\ job[p].block # NoBlock BY <1>2, <2>3 DEF Addition
  <2>4. CASE e = <<b, u, r>> /\ job[p].block # NoBlock BY <1>2, <2>4 DEF Addition
  <2> QED BY <1>7, <2>1, <2>2, <2>3, <2>4
<1> QED BY <1>5, <1>6, <1>8 DEF e

Sound(m) == m \in Seq(Entries) /\ WellFormed(m) /\ BlocksDiffer(m) /\ Attributed(m)

Without(m, p) == \A k \in DOMAIN m : m[k].by # p

\* The compaction of a sound transcript is sound and puts no prompt into it.
LEMMA TailedSound ==
  ASSUME NEW m, Sound(m), NEW d, NEW o, MarkedTail(m, d, o)
  PROVE  Sound(o) /\ \A p \in Prompts : Without(m, p) => Without(o, p)
<1>1. /\ o \in Seq(Entries) /\ Len(o) = Len(m) - d /\ DOMAIN o = 1 .. Len(o) /\ o[1] = Summary
      /\ \A k \in 2 .. Len(o) : k + d \in 2 .. Len(m) /\ o[k] = m[k + d]
      /\ DOMAIN m = 1 .. Len(m) /\ Len(m) \in Nat /\ Len(o) \in Nat /\ d \in Nat
  BY DEF MarkedTail
<1>2. WellFormed(m) /\ BlocksDiffer(m) /\ Attributed(m) BY DEF Sound
<1>3. \A k \in 1 .. Len(o) : k = 1 \/ k \in 2 .. Len(o) BY <1>1
<1>4. \A k \in 2 .. Len(o) : o[k].kind # "marker" /\ o[k].by # None
  <2> SUFFICES ASSUME NEW k \in 2 .. Len(o) PROVE o[k].kind # "marker" /\ o[k].by # None OBVIOUS
  <2>1. k + d \in DOMAIN m /\ k + d # 1 /\ o[k] = m[k + d] BY <1>1
  <2> QED BY <1>2, <2>1 DEF WellFormed, Attributed
<1>5. Attributed(o) BY <1>1, <1>3, <1>4, Messaging DEF Attributed
<1>6. ASSUME NEW j \in 1 .. Len(o), NEW k \in 1 .. Len(o), j < k,
             o[j].by = o[k].by \/ (o[j].kind = "env" /\ o[k].kind = "env")
      PROVE  /\ j \in 2 .. Len(o) /\ k \in 2 .. Len(o)
             /\ j + d \in DOMAIN m /\ k + d \in DOMAIN m /\ j + d < k + d
             /\ o[j] = m[j + d] /\ o[k] = m[k + d]
             /\ \A l \in j .. k : l + d \in j + d .. k + d /\ o[l] = m[l + d]
  <2>1. k \in 2 .. Len(o) BY <1>1, <1>6
  <2>2. j # 1
    <3>1. o[1].by = None /\ o[1].kind = "marker" BY <1>1, Messaging
    <3> QED BY <1>4, <1>6, <2>1, <3>1
  <2>3. j \in 2 .. Len(o) BY <1>1, <2>2
  <2>4. \A l \in j .. k : l \in 2 .. Len(o) /\ l + d \in j + d .. k + d BY <1>1, <1>6, <2>3
  <2> QED BY <1>1, <1>6, <2>1, <2>3, <2>4
<1>7. WellFormed(o)
  <2>1. \A k \in DOMAIN o : o[k].kind = "marker" => k = 1 BY <1>1, <1>3, <1>4
  <2>2. ASSUME NEW j \in DOMAIN o, NEW k \in DOMAIN o, j < k, o[j].by = o[k].by
        PROVE  /\ o[k].kind # "env" /\ (o[k].kind = "user" => o[j].kind = "env")
               /\ \A l \in j .. k : o[l].by = o[k].by
    <3>1. /\ j + d \in DOMAIN m /\ k + d \in DOMAIN m /\ j + d < k + d
          /\ o[j] = m[j + d] /\ o[k] = m[k + d]
          /\ \A l \in j .. k : l + d \in j + d .. k + d /\ o[l] = m[l + d]
      BY <1>1, <1>6, <2>2
    <3>2. /\ m[k + d].kind # "env" /\ (m[k + d].kind = "user" => m[j + d].kind = "env")
          /\ \A l \in j + d .. k + d : m[l].by = m[k + d].by
      <4>1. \A x, y \in DOMAIN m : x < y /\ m[x].by = m[y].by =>
              /\ m[y].kind # "env" /\ (m[y].kind = "user" => m[x].kind = "env")
              /\ \A l \in x .. y : m[l].by = m[y].by
        BY <1>2 DEF WellFormed
      <4>2. m[j + d].by = m[k + d].by BY <2>2, <3>1
      <4> QED BY <3>1, <4>1, <4>2
    <3> QED BY <3>1, <3>2
  <2> QED BY <2>1, <2>2 DEF WellFormed
<1>8. BlocksDiffer(o)
  <2>1. ASSUME NEW j \in DOMAIN o, NEW k \in DOMAIN o, j < k, o[j].kind = "env", o[k].kind = "env"
        PROVE  o[j].tag # o[k].tag \/ \E l \in j + 1 .. k - 1 : o[l].kind = "env"
    <3>1. /\ j \in 2 .. Len(o) /\ k \in 2 .. Len(o) /\ j + d \in DOMAIN m /\ k + d \in DOMAIN m
          /\ j + d < k + d /\ o[j] = m[j + d] /\ o[k] = m[k + d]
          /\ \A l \in j .. k : o[l] = m[l + d]
      BY <1>1, <1>6, <2>1
    <3>2. m[j + d].tag # m[k + d].tag \/ \E l \in j + d + 1 .. k + d - 1 : m[l].kind = "env"
      <4>1. \A x, y \in DOMAIN m : x < y /\ m[x].kind = "env" /\ m[y].kind = "env" =>
              m[x].tag # m[y].tag \/ \E l \in x + 1 .. y - 1 : m[l].kind = "env"
        BY <1>2 DEF BlocksDiffer
      <4>2. PICK x, y : x = j + d /\ y = k + d OBVIOUS
      <4>3. x \in DOMAIN m /\ y \in DOMAIN m /\ x < y /\ m[x].kind = "env" /\ m[y].kind = "env"
        BY <2>1, <3>1, <4>2
      <4>4. m[x].tag # m[y].tag \/ \E l \in x + 1 .. y - 1 : m[l].kind = "env" BY <4>1, <4>3
      <4>5. j \in Int /\ k \in Int /\ d \in Int BY <1>1, <3>1
      <4> QED BY <4>2, <4>4, <4>5
    <3>3. ASSUME NEW l \in j + d + 1 .. k + d - 1, m[l].kind = "env"
          PROVE  \E i \in j + 1 .. k - 1 : o[i].kind = "env"
      <4>0. j \in Int /\ k \in Int /\ d \in Int BY <1>1, <3>1
      <4>1. l - d \in j + 1 .. k - 1 /\ l - d \in j .. k /\ (l - d) + d = l BY <4>0
      <4> QED BY <3>1, <3>3, <4>1
    <3> QED BY <3>1, <3>2, <3>3
  <2> QED BY <2>1 DEF BlocksDiffer
<1>9. ASSUME NEW p \in Prompts, Without(m, p) PROVE Without(o, p)
  <2>1. o[1].by # p BY <1>1, SessionAssumption, Messaging
  <2>2. \A k \in 2 .. Len(o) : o[k].by # p
    <3>1. \A k \in DOMAIN m : m[k].by # p BY <1>9 DEF Without
    <3>2. \A k \in 2 .. Len(o) : k + d \in DOMAIN m /\ o[k] = m[k + d] BY <1>1
    <3> QED BY <3>1, <3>2
  <2> QED BY <1>1, <1>3, <2>1, <2>2 DEF Without
<1> QED BY <1>1, <1>5, <1>7, <1>8, <1>9 DEF Sound

\* So is what a fork copies.
LEMMA CutSound ==
  ASSUME NEW m, Sound(m), NEW n, NEW o, Prefix(m, n, o)
  PROVE  Sound(o) /\ \A p \in Prompts : Without(m, p) => Without(o, p)
<1>1. /\ o \in Seq(Entries) /\ DOMAIN o = 1 .. n /\ \A k \in 1 .. n : o[k] = m[k]
      /\ DOMAIN m = 1 .. Len(m) /\ Len(m) \in Nat /\ n \in Nat /\ n <= Len(m)
  BY DEF Prefix
<1>2. WellFormed(m) /\ BlocksDiffer(m) /\ Attributed(m) BY DEF Sound
<1>3. \A k \in 1 .. n : k \in 1 .. Len(m) BY <1>1
<1>4. \A j, k \in 1 .. n : \A l \in j .. k : l \in 1 .. n BY <1>1
<1>5. Attributed(o) BY <1>1, <1>2, <1>3 DEF Attributed
<1>6. WellFormed(o) BY <1>1, <1>2, <1>3, <1>4 DEF WellFormed
<1>7. BlocksDiffer(o)
  <2>1. \A j, k \in 1 .. n : \A l \in j + 1 .. k - 1 : l \in 1 .. n BY <1>1
  <2> QED BY <1>1, <1>2, <1>3, <2>1 DEF BlocksDiffer
<1>8. \A p \in Prompts : Without(m, p) => Without(o, p) BY <1>1, <1>3 DEF Without
<1> QED BY <1>1, <1>5, <1>6, <1>7, <1>8 DEF Sound

\* What extending a transcript leaves of it.
LEMMA Extended ==
  ASSUME NEW m \in Seq(Entries), NEW p, NEW b, NEW e, Addition(e, p, b)
  PROVE  /\ m \o e \in Seq(Entries) /\ DOMAIN (m \o e) = 1 .. Len(m \o e)
         /\ Len(m \o e) = Len(m) + Len(e) /\ Len(m) \in Nat /\ Len(e) \in Nat
         /\ DOMAIN m = 1 .. Len(m)
         /\ \A k \in 1 .. Len(m) : k \in 1 .. Len(m \o e) /\ (m \o e)[k] = m[k]
         /\ \A k \in 1 .. Len(m \o e) : k \in 1 .. Len(m) \/ k \in Len(m) + 1 .. Len(m \o e)
         /\ \A k \in Len(m) + 1 .. Len(m \o e) : k - Len(m) \in 1 .. Len(e)
                                                /\ (m \o e)[k] = e[k - Len(m)]
<1>1. e \in Seq(Entries) /\ Len(e) \in Nat /\ Len(m) \in Nat /\ DOMAIN m = 1 .. Len(m)
  BY LenProperties DEF Addition
<1>2. /\ m \o e \in Seq(Entries) /\ Len(m \o e) = Len(m) + Len(e)
      /\ \A i \in 1 .. Len(m) + Len(e) : (m \o e)[i] = IF i <= Len(m) THEN m[i] ELSE e[i - Len(m)]
  BY <1>1, ConcatProperties
<1>3. DOMAIN (m \o e) = 1 .. Len(m \o e) BY <1>2, LenProperties
<1> DEFINE r == m \o e
<1> HIDE DEF r
<1>4. /\ r \in Seq(Entries) /\ Len(r) = Len(m) + Len(e) /\ DOMAIN r = 1 .. Len(r)
      /\ \A i \in 1 .. Len(m) + Len(e) : r[i] = IF i <= Len(m) THEN m[i] ELSE e[i - Len(m)]
  BY <1>2, <1>3 DEF r
<1>5. /\ \A k \in 1 .. Len(m) : k \in 1 .. Len(r) /\ r[k] = m[k]
      /\ \A k \in 1 .. Len(r) : k \in 1 .. Len(m) \/ k \in Len(m) + 1 .. Len(r)
      /\ \A k \in Len(m) + 1 .. Len(r) : k - Len(m) \in 1 .. Len(e) /\ r[k] = e[k - Len(m)]
  BY <1>1, <1>4
<1> QED BY <1>1, <1>4, <1>5 DEF r

\* And so is a transcript extended by a prompt it had nothing of, if the block of the
\* prompt is not the last one the transcript shows.
LEMMA ExtendedSound ==
  ASSUME NEW m, Sound(m), NEW p \in Prompts, NEW b, NEW e, Addition(e, p, b), Without(m, p),
         b # NoBlock => ShowsOther(m, b)
  PROVE  Sound(m \o e) /\ \A q \in Prompts : q # p /\ Without(m, q) => Without(m \o e, q)
<1> DEFINE r == m \o e
           n == Len(m)
<1>1. /\ r \in Seq(Entries) /\ DOMAIN r = 1 .. Len(r)
      /\ Len(r) = n + Len(e) /\ n \in Nat /\ Len(e) \in Nat /\ Len(r) \in Nat
      /\ DOMAIN m = 1 .. n
      /\ \A k \in 1 .. n : k \in 1 .. Len(r) /\ r[k] = m[k]
      /\ \A k \in 1 .. Len(r) : k \in 1 .. n \/ k \in n + 1 .. Len(r)
      /\ \A k \in n + 1 .. Len(r) : k - n \in 1 .. Len(e) /\ r[k] = e[k - n]
  BY Extended DEF Sound
<1>2. WellFormed(m) /\ BlocksDiffer(m) /\ Attributed(m) /\ p # None
  BY SessionAssumption DEF Sound
<1>3. \A k \in n + 1 .. Len(r) :
        /\ r[k].by = p /\ r[k].kind # "marker"
        /\ r[k].kind = "env" => k = n + 1 /\ r[k].tag = b /\ b # NoBlock
        /\ r[k].kind = "user" => \A j \in n + 1 .. k - 1 : r[j].kind = "env"
  <2> SUFFICES ASSUME NEW k \in n + 1 .. Len(r)
               PROVE  /\ r[k].by = p /\ r[k].kind # "marker"
                      /\ r[k].kind = "env" => k = n + 1 /\ r[k].tag = b /\ b # NoBlock
                      /\ r[k].kind = "user" => \A j \in n + 1 .. k - 1 : r[j].kind = "env"
    OBVIOUS
  <2>1. k - n \in 1 .. Len(e) /\ r[k] = e[k - n] BY <1>1
  <2>2. ASSUME r[k].kind = "user", NEW j \in n + 1 .. k - 1 PROVE r[j].kind = "env"
    <3>1. j \in n + 1 .. Len(r) /\ j - n \in 1 .. (k - n) - 1 BY <1>1
    <3> QED BY <1>1, <2>1, <2>2, <3>1 DEF Addition
  <2>3. r[k].kind = "env" => k = n + 1 /\ r[k].tag = b /\ b # NoBlock
    BY <1>1, <2>1 DEF Addition
  <2> QED BY <2>1, <2>2, <2>3 DEF Addition
<1> HIDE DEF r
<1>4. Attributed(r) BY <1>1, <1>2, <1>3 DEF Attributed
<1>5. WellFormed(r)
  <2>1. \A k \in DOMAIN r : r[k].kind = "marker" => k = 1 BY <1>1, <1>2, <1>3 DEF WellFormed
  <2>2. ASSUME NEW j \in DOMAIN r, NEW k \in DOMAIN r, j < k, r[j].by = r[k].by
        PROVE  /\ r[k].kind # "env" /\ (r[k].kind = "user" => r[j].kind = "env")
               /\ \A l \in j .. k : r[l].by = r[k].by
    <3>1. CASE k \in 1 .. n
      <4>1. j \in 1 .. n /\ \A l \in j .. k : l \in 1 .. n BY <1>1, <2>2, <3>1
      <4> QED BY <1>1, <1>2, <2>2, <3>1, <4>1 DEF WellFormed
    <3>2. CASE k \in n + 1 .. Len(r)
      <4>1. r[k].by = p BY <1>3, <3>2
      <4>2. j \notin 1 .. n BY <1>1, <2>2, <4>1 DEF Without
      <4>3. j \in n + 1 .. Len(r) /\ j \in n + 1 .. k - 1 /\ \A l \in j .. k : l \in n + 1 .. Len(r)
        BY <1>1, <2>2, <3>2, <4>2
      <4>4. k # n + 1 BY <1>1, <4>3
      <4> QED BY <1>3, <3>2, <4>1, <4>3, <4>4
    <3> QED BY <1>1, <3>1, <3>2
  <2> QED BY <2>1, <2>2 DEF WellFormed
<1>6. BlocksDiffer(r)
  <2>1. ASSUME NEW j \in DOMAIN r, NEW k \in DOMAIN r, j < k, r[j].kind = "env", r[k].kind = "env"
        PROVE  r[j].tag # r[k].tag \/ \E l \in j + 1 .. k - 1 : r[l].kind = "env"
    <3>1. CASE k \in 1 .. n
      <4>1. j \in 1 .. n /\ \A l \in j + 1 .. k - 1 : l \in 1 .. n BY <1>1, <2>1, <3>1
      <4> QED BY <1>1, <1>2, <2>1, <3>1, <4>1 DEF BlocksDiffer
    <3>2. CASE k \in n + 1 .. Len(r)
      <4>1. k = n + 1 /\ r[k].tag = b /\ b # NoBlock BY <1>3, <2>1, <3>2
      <4>2. j \in 1 .. n BY <1>1, <2>1, <4>1
      <4>3. CASE \E l \in DOMAIN m : l > j /\ m[l].kind = "env"
        <5>1. PICK l \in 1 .. n : l > j /\ m[l].kind = "env" BY <1>1, <4>3
        <5>2. l \in j + 1 .. k - 1 /\ r[l].kind = "env" BY <1>1, <4>1, <4>2, <5>1
        <5> QED BY <5>2
      <4>4. CASE \A l \in DOMAIN m : l > j => m[l].kind # "env"
        <5>1. m[j].tag # b BY <1>1, <2>1, <4>1, <4>2, <4>4 DEF ShowsOther
        <5> QED BY <1>1, <4>1, <4>2, <5>1
      <4> QED BY <4>3, <4>4
    <3> QED BY <1>1, <3>1, <3>2
  <2> QED BY <2>1 DEF BlocksDiffer
<1>7. ASSUME NEW q \in Prompts, q # p, Without(m, q) PROVE Without(r, q)
  BY <1>1, <1>3, <1>7 DEF Without
<1> QED BY <1>1, <1>4, <1>5, <1>6, <1>7 DEF Sound, r

\* A compaction spares the last messages of a prompt, if any.
LEMMA KeepsTailed ==
  ASSUME NEW m, NEW d, NEW o, MarkedTail(m, d, o), NEW p \in Prompts, NEW all, Len(all) \in Nat,
         Keeps(m, p, all)
  PROVE  Keeps(o, p, all)
<1> DEFINE At(x, a, n) == /\ {k \in DOMAIN x : x[k].by = p} = a + 1 .. a + n
                          /\ \A l \in 1 .. n : x[a + l] = all[Len(all) - n + l]
<1>1. /\ Len(o) = Len(m) - d /\ DOMAIN o = 1 .. Len(o) /\ o[1] = Summary /\ Marked(o)
      /\ \A k \in 2 .. Len(o) : k + d \in 2 .. Len(m) /\ o[k] = m[k + d]
      /\ DOMAIN m = 1 .. Len(m) /\ Len(m) \in Nat /\ Len(o) \in Nat /\ d \in Nat /\ d < Len(m)
  BY DEF MarkedTail
<1>2. PICK a \in 0 .. Len(m), n \in 0 .. Len(all) :
        At(m, a, n) /\ (n = Len(all) \/ (Marked(m) /\ (n > 0 => a = 1)))
  BY DEF Keeps
<1>3. \A k \in 1 .. Len(m) : m[k].by = p <=> k \in a + 1 .. a + n BY <1>1, <1>2
<1>4. o[1].by # p BY <1>1, SessionAssumption, Messaging
<1>5. \A k \in 2 .. Len(o) : o[k].by = p <=> k + d \in a + 1 .. a + n
  <2> SUFFICES ASSUME NEW k \in 2 .. Len(o) PROVE o[k].by = p <=> k + d \in a + 1 .. a + n OBVIOUS
  <2>1. k + d \in 1 .. Len(m) /\ o[k] = m[k + d] BY <1>1
  <2> QED BY <1>3, <2>1
<1>6. a + n <= Len(m)
  <2>1. CASE n = 0 BY <1>1, <2>1
  <2>2. CASE n # 0
    <3>1. a + n \in a + 1 .. a + n BY <1>1, <2>2
    <3>2. a + n \in DOMAIN m BY <1>2, <3>1
    <3> QED BY <1>1, <3>2
  <2> QED BY <2>1, <2>2
<1>7. \A l \in 1 .. n : m[a + l] = all[Len(all) - n + l] BY <1>2
<1>8. n = Len(all) \/ (n > 0 => a = 1) BY <1>2
<1>9. a \in Nat /\ n \in Nat /\ n <= Len(all) BY <1>1
<1> HIDE DEF At
<1>10. ASSUME NEW x \in Nat, NEW y \in Nat, x <= Len(o), y <= n,
              \A k \in 2 .. Len(o) : k + d \in a + 1 .. a + n <=> k \in x + 1 .. x + y,
              y > 0 => x >= 1 /\ x + y <= Len(o) /\ x + y + d = a + n,
              y = Len(all) \/ (y > 0 => x = 1)
       PROVE  Keeps(o, p, all)
  <2>1. {k \in DOMAIN o : o[k].by = p} = x + 1 .. x + y
    <3>1. \A k \in DOMAIN o : k = 1 \/ k \in 2 .. Len(o) BY <1>1
    <3>2. \A k \in DOMAIN o : o[k].by = p => k \in x + 1 .. x + y BY <1>4, <1>5, <1>10, <3>1
    <3>3. \A k \in x + 1 .. x + y : k \in 2 .. Len(o) /\ k \in DOMAIN o BY <1>1, <1>10
    <3>4. \A k \in x + 1 .. x + y : o[k].by = p BY <1>5, <1>10, <3>3
    <3> QED BY <3>2, <3>3, <3>4
  <2>2. \A l \in 1 .. y : o[x + l] = all[Len(all) - y + l]
    <3> SUFFICES ASSUME NEW l \in 1 .. y PROVE o[x + l] = all[Len(all) - y + l] OBVIOUS
    <3>1. x + l \in 2 .. Len(o) BY <1>1, <1>10
    <3>2. o[x + l] = m[(x + l) + d] BY <1>1, <3>1
    <3>3. PICK i : i = n - y + l OBVIOUS
    <3>4. i \in 1 .. n /\ (x + l) + d = a + i BY <1>1, <1>9, <1>10, <3>3
    <3>5. Len(all) - n + i = Len(all) - y + l BY <1>9, <1>10, <3>3
    <3> QED BY <1>7, <3>2, <3>4, <3>5
  <2>3. x \in 0 .. Len(o) /\ y \in 0 .. Len(all) BY <1>1, <1>9, <1>10
  <2> QED BY <1>1, <1>10, <2>1, <2>2, <2>3 DEF Keeps
<1>11. CASE a >= d + 1 /\ n > 0
  <2>0. PICK x : x = a - d OBVIOUS
  <2>1. x \in Nat /\ x <= Len(o) /\ x >= 1 /\ x + n <= Len(o) /\ x + n + d = a + n /\ n <= n
    BY <1>1, <1>6, <1>9, <1>11, <2>0
  <2>2. \A k \in 2 .. Len(o) : k + d \in a + 1 .. a + n <=> k \in x + 1 .. x + n
    BY <1>1, <1>9, <1>11, <2>0
  <2>3. n = Len(all) \/ (n > 0 => x = 1) BY <1>1, <1>8, <1>9, <1>11, <2>0
  <2> QED BY <1>9, <1>10, <2>1, <2>2, <2>3
<1>12. CASE a < d + 1 /\ a + n > d + 1
  <2>0. PICK x, y : x = 1 /\ y = a + n - d - 1 OBVIOUS
  <2>1. x \in Nat /\ y \in Nat /\ y <= n /\ x <= Len(o) /\ x >= 1 /\ x + y <= Len(o) /\ x + y + d = a + n
    BY <1>1, <1>6, <1>9, <1>12, <2>0
  <2>2. \A k \in 2 .. Len(o) : k + d \in a + 1 .. a + n <=> k \in x + 1 .. x + y
    BY <1>1, <1>9, <1>12, <2>0
  <2>3. y > 0 => x = 1 BY <2>0
  <2> QED BY <1>10, <2>1, <2>2, <2>3
<1>13. CASE n = 0 \/ a + n <= d + 1
  <2>0. PICK x, y : x = 0 /\ y = 0 OBVIOUS
  <2>1. \A k \in 2 .. Len(o) : k + d \in a + 1 .. a + n <=> k \in x + 1 .. x + y
    BY <1>1, <1>9, <1>13, <2>0
  <2>2. x \in Nat /\ y \in Nat /\ y <= n /\ x <= Len(o) /\ ~(y > 0) BY <1>1, <1>9, <2>0
  <2> QED BY <1>10, <2>1, <2>2
<1> QED BY <1>1, <1>9, <1>11, <1>12, <1>13

\* What was kept is kept when another prompt is added, and what is added is whole.
LEMMA KeepsExtended ==
  ASSUME NEW m \in Seq(Entries), NEW p \in Prompts, NEW b, NEW e, Addition(e, p, b)
  PROVE  /\ \A q, all : q # p /\ Len(all) \in Nat /\ Keeps(m, q, all) => Keeps(m \o e, q, all)
         /\ Without(m, p) => Keeps(m \o e, p, e)
         /\ Marked(m) => Marked(m \o e)
<1> DEFINE r == m \o e
           n == Len(m)
<1>1. /\ r \in Seq(Entries) /\ DOMAIN r = 1 .. Len(r)
      /\ Len(r) = n + Len(e) /\ n \in Nat /\ Len(e) \in Nat /\ Len(r) \in Nat
      /\ DOMAIN m = 1 .. n
      /\ \A k \in 1 .. n : k \in 1 .. Len(r) /\ r[k] = m[k]
      /\ \A k \in 1 .. Len(r) : k \in 1 .. n \/ k \in n + 1 .. Len(r)
      /\ \A k \in n + 1 .. Len(r) : k - n \in 1 .. Len(e) /\ r[k] = e[k - n]
  BY Extended
<1> HIDE DEF r
<1>2. \A k \in n + 1 .. Len(r) : r[k].by = p BY <1>1 DEF Addition
<1>3. ASSUME Marked(m) PROVE Marked(r)
  <2>1. 1 \in 1 .. n BY <1>1, <1>3, EmptySeq DEF Marked
  <2>2. r # <<>> /\ Head(r) = r[1] /\ Head(m) = m[1] BY <1>1, <1>3, <2>1, EmptySeq DEF Marked
  <2> QED BY <1>1, <1>3, <2>1, <2>2 DEF Marked
<1>4. ASSUME NEW q, NEW all, q # p, Len(all) \in Nat, Keeps(m, q, all) PROVE Keeps(r, q, all)
  <2>1. PICK a \in 0 .. n, c \in 0 .. Len(all) :
          /\ {k \in DOMAIN m : m[k].by = q} = a + 1 .. a + c
          /\ \A l \in 1 .. c : m[a + l] = all[Len(all) - c + l]
          /\ c = Len(all) \/ (Marked(m) /\ (c > 0 => a = 1))
    BY <1>4 DEF Keeps
  <2>2. {k \in DOMAIN r : r[k].by = q} = a + 1 .. a + c
    <3>1. \A k \in DOMAIN r : r[k].by = q <=> k \in DOMAIN m /\ m[k].by = q BY <1>1, <1>2, <1>4
    <3>2. \A k \in DOMAIN m : k \in DOMAIN r BY <1>1
    <3> QED BY <2>1, <3>1, <3>2
  <2>3. \A l \in 1 .. c : r[a + l] = all[Len(all) - c + l]
    <3> SUFFICES ASSUME NEW l \in 1 .. c PROVE r[a + l] = all[Len(all) - c + l] OBVIOUS
    <3>1. a + l \in a + 1 .. a + c BY <1>1
    <3>2. a + l \in 1 .. n BY <1>1, <2>1, <3>1
    <3> QED BY <1>1, <2>1, <3>2
  <2>4. a \in 0 .. Len(r) BY <1>1
  <2> QED BY <1>3, <2>1, <2>2, <2>3, <2>4 DEF Keeps
<1>5. ASSUME Without(m, p) PROVE Keeps(r, p, e)
  <2>1. {k \in DOMAIN r : r[k].by = p} = n + 1 .. n + Len(e)
    <3>1. \A k \in DOMAIN r : r[k].by = p <=> k \in n + 1 .. Len(r)
      <4>1. \A k \in 1 .. n : r[k].by # p /\ k \notin n + 1 .. Len(r) BY <1>1, <1>5 DEF Without
      <4> QED BY <1>1, <1>2, <4>1
    <3>2. n + 1 .. Len(r) \subseteq DOMAIN r BY <1>1
    <3> QED BY <1>1, <3>1, <3>2
  <2>2. \A l \in 1 .. Len(e) : r[n + l] = e[Len(e) - Len(e) + l]
    <3> SUFFICES ASSUME NEW l \in 1 .. Len(e) PROVE r[n + l] = e[Len(e) - Len(e) + l] OBVIOUS
    <3>1. n + l \in n + 1 .. Len(r) /\ (n + l) - n = l /\ Len(e) - Len(e) + l = l BY <1>1
    <3> QED BY <1>1, <3>1
  <2>3. n \in 0 .. Len(r) /\ Len(e) \in 0 .. Len(e) BY <1>1
  <2> QED BY <2>1, <2>2, <2>3 DEF Keeps
<1> QED BY <1>3, <1>4, <1>5 DEF r

\* A prefix of a transcript is one of what extends it.
LEMMA PrefixExtended ==
  ASSUME NEW d \in Seq(Entries), NEW m \in Seq(Entries), NEW e \in Seq(Entries), IsPrefix(d, m)
  PROVE  IsPrefix(d, m \o e)
<1>1. Len(d) \in Nat /\ Len(m) \in Nat /\ Len(e) \in Nat /\ Len(m \o e) = Len(m) + Len(e)
  BY LenProperties, ConcatProperties
<1>2. Len(d) <= Len(m) /\ SubSeq(d, 1, Len(d)) = SubSeq(m, 1, Len(d)) BY DEF IsPrefix
<1>3. SubSeq(m \o e, 1, Len(d)) = SubSeq(m, 1, Len(d))
  <2>1. CASE Len(d) = 0 BY <1>1, <2>1, SubSeqEmpty
  <2>2. CASE Len(d) # 0
    <3>1. 1 \in 1 .. Len(m) /\ Len(d) \in 1 .. Len(m) BY <1>1, <1>2, <2>2
    <3> QED BY <3>1, SubSeqOfConcat1
  <2> QED BY <2>1, <2>2
<1>4. Len(d) <= Len(m \o e) BY <1>1, <1>2
<1> QED BY <1>2, <1>3, <1>4 DEF IsPrefix

\* A compaction shows no block as the last one that the transcript did not.
LEMMA ShowsOtherTailed ==
  ASSUME NEW m, NEW d, NEW o, MarkedTail(m, d, o), NEW b, ShowsOther(m, b)
  PROVE  ShowsOther(o, b)
<1>1. /\ Len(o) = Len(m) - d /\ DOMAIN o = 1 .. Len(o) /\ o[1] = Summary
      /\ \A k \in 2 .. Len(o) : k + d \in 2 .. Len(m) /\ o[k] = m[k + d]
      /\ DOMAIN m = 1 .. Len(m) /\ Len(m) \in Nat /\ Len(o) \in Nat /\ d \in Nat
  BY DEF MarkedTail
<1> SUFFICES ASSUME NEW k \in DOMAIN o, o[k].kind = "env",
                    \A j \in DOMAIN o : j > k => o[j].kind # "env"
             PROVE  o[k].tag # b
  BY DEF ShowsOther
<1>2. k # 1 BY <1>1, Messaging
<1>3. k \in 2 .. Len(o) BY <1>1, <1>2
<1>4. k + d \in DOMAIN m /\ o[k] = m[k + d] BY <1>1, <1>3
<1>5. ASSUME NEW j \in DOMAIN m, j > k + d PROVE m[j].kind # "env"
  <2>1. j - d \in 2 .. Len(o) /\ j - d > k /\ (j - d) + d = j BY <1>1, <1>3, <1>5
  <2>2. o[j - d] = m[j] /\ j - d \in DOMAIN o BY <1>1, <2>1
  <2> QED BY <2>1, <2>2
<1> QED BY <1>4, <1>5 DEF ShowsOther

\* A fresh rendering is not the one a transcript shows last (lastEnvContextText,
\* session.go:33).
LEMMA FreshIsOther ==
  ASSUME NEW m \in Seq(Entries), NEW b, Fresh(m, b)
  PROVE  ShowsOther(m, b)
<1> DEFINE at == {k \in DOMAIN m : m[k].kind = "env"}
           last == CHOOSE k \in at : \A j \in at : j <= k
<1>1. DOMAIN m \subseteq Nat BY LenProperties
<1> SUFFICES ASSUME NEW k \in at, \A j \in DOMAIN m : j > k => m[j].kind # "env"
             PROVE  m[k].tag # b
  BY DEF ShowsOther
<1>2. \A j \in at : j <= k BY <1>1
<1>3. last \in at /\ \A j \in at : j <= last BY <1>2
<1>4. last = k
  <2>1. last <= k /\ k <= last BY <1>2, <1>3
  <2> QED BY <1>1, <1>3, <2>1
<1>5. LastBlock(m) = m[last].tag
  <2>1. at # {} OBVIOUS
  <2> QED BY <2>1 DEF LastBlock
<1> QED BY <1>4, <1>5 DEF Fresh

\* A compaction leaves a transcript alone or makes it a marked tail.
LEMMA Compacted ==
  ASSUME NEW m \in Seq(Entries), NEW o
  PROVE  /\ o \in Compactions(m) => o = m \/ \E d : MarkedTail(m, d, o)
         /\ o \in Threshed(m) => o = m \/ \E d : MarkedTail(m, d, o)
<1>1. ASSUME o \in Compactions(m), o # m PROVE \E d : MarkedTail(m, d, o)
  <2>1. PICK c \in 1 .. Len(m) : o = <<Summary>> \o SubSeq(m, c + 1, Len(m))
    BY <1>1 DEF Compactions
  <2>2. MarkedTail(m, c - 1, o) BY <2>1, Tailed
  <2> QED BY <2>2
<1>2. o \in Threshed(m) => o = m \/ o \in Compactions(m) BY DEF Threshed
<1> QED BY <1>1, <1>2

\* A transcript nobody has written in.
LEMMA EmptySound == Sound(<<>>) /\ \A p : Without(<<>>, p)
<1>1. DOMAIN <<>> = {} /\ <<>> \in Seq(Entries) OBVIOUS
<1> QED BY <1>1 DEF Sound, Without, WellFormed, BlocksDiffer, Attributed

\* Every transcript extends itself.
LEMMA PrefixOfItself ==
  ASSUME NEW m \in Seq(Entries)
  PROVE  IsPrefix(m, m)
<1>1. Len(m) \in Nat BY LenProperties
<1> QED BY <1>1 DEF IsPrefix

-----------------------------------------------------------------------------
(* Steps keep the types, and runMu with the prompt that took it. *)

\* The messages of a prompt are a sequence.
LEMMA AskedTyped ==
  ASSUME StateInv, NEW p \in Prompts
  PROVE  Asked(p) \o job[p].new \in Seq(Entries) /\ Len(Asked(p) \o job[p].new) \in Nat
<1>1. Asked(p) \in Seq(Entries)
  <2>1. <<>> \in Runs(p) BY DEF Runs
  <2> QED BY <2>1, Adds
<1>2. job[p].new \in Seq(Entries) BY DEF StateInv, Jobs
<1>3. Asked(p) \o job[p].new \in Seq(Entries) BY <1>1, <1>2, ConcatProperties
<1> QED BY <1>3, LenProperties

\* What a step does to the records of the prompts, and the lock it may take or free.
Moves(p, at) ==
  /\ job' \in [Prompts -> Jobs] /\ \A q \in Prompts \ {p} : job'[q] = job[q]
  /\ job'[p].at = at /\ job'[p].id = job[p].id

LEMMA Moved ==
  ASSUME StateInv, NEW p \in Prompts
  PROVE  /\ Lock(p) => /\ Moves(p, "held") /\ job[p].at = "queued"
                       /\ holder' = [holder EXCEPT ![job[p].id] = p] /\ holder[job[p].id] = None
         /\ \A at \in Stages : Return(p, at) => /\ Moves(p, at) /\ job'[p] = [job[p] EXCEPT !.at = at]
                                                /\ holder' = [holder EXCEPT ![job[p].id] = None]
<1>1. job \in [Prompts -> Jobs] /\ job[p] \in Jobs BY DEF StateInv
<1>2. ASSUME NEW at \in Stages, job' = [job EXCEPT ![p].at = at]
      PROVE  Moves(p, at) /\ job'[p] = [job[p] EXCEPT !.at = at]
  <2>1. job'[p] = [job[p] EXCEPT !.at = at] /\ \A q \in Prompts \ {p} : job'[q] = job[q]
    BY <1>1, <1>2
  <2>2. job' = [job EXCEPT ![p] = [job[p] EXCEPT !.at = at]] BY <1>1, <1>2
  <2>3. [job[p] EXCEPT !.at = at] \in Jobs BY <1>1 DEF Jobs
  <2>4. job' \in [Prompts -> Jobs] BY <1>1, <2>2, <2>3
  <2>5. job'[p].at = at /\ job'[p].id = job[p].id BY <1>1, <2>1 DEF Jobs
  <2> QED BY <2>1, <2>4, <2>5 DEF Moves
<1>3. "held" \in Stages BY DEF Stages
<1> QED BY <1>2, <1>3 DEF Lock, Return

\* A prompt is prepared on its transcript, which compaction may have shortened, and
\* with a block that transcript does not show (maybeCompact, withEnvContext).
LEMMA Prepared ==
  ASSUME StateInv, env \in Blocks, NEW p \in Prompts, job[p].id \in Ids, Prepare(p)
  PROVE  /\ job[p].at = "held" /\ UNCHANGED <<live, disk, env, compacting, compacted, crashes>>
         /\ \/ /\ Moves(p, "error") /\ mem' = mem
               /\ holder' = [holder EXCEPT ![job[p].id] = None]
            \/ \E b \in Seq(Entries) :
                 /\ b = mem[job[p].id] \/ \E d : MarkedTail(mem[job[p].id], d, b)
                 /\ Moves(p, "run") /\ mem' = [mem EXCEPT ![job[p].id] = b] /\ holder' = holder
                 /\ job'[p].base = b
                 /\ job'[p].block # NoBlock => Fresh(b, job'[p].block)
<1>1. job \in [Prompts -> Jobs] /\ job[p] \in Jobs /\ mem[job[p].id] \in Seq(Entries)
  BY DEF StateInv
<1>2. job[p].at = "held" /\ UNCHANGED <<live, disk, env, compacting, compacted, crashes>>
  BY DEF Prepare
<1>3. CASE Return(p, "error") /\ UNCHANGED mem
  <2>1. "error" \in Stages BY DEF Stages
  <2>2. Moves(p, "error") /\ holder' = [holder EXCEPT ![job[p].id] = None] BY <1>3, <2>1, Moved
  <2> QED BY <1>3, <1>2, <2>2
<1>4. ASSUME NEW b \in Threshed(mem[job[p].id]),
             mem' = [mem EXCEPT ![job[p].id] = b],
             job' = [job EXCEPT ![p].at = "run", ![p].base = b,
                                ![p].block = IF Fresh(b, env) THEN env ELSE NoBlock],
             UNCHANGED holder
      PROVE  /\ b \in Seq(Entries)
             /\ b = mem[job[p].id] \/ \E d : MarkedTail(mem[job[p].id], d, b)
             /\ Moves(p, "run") /\ job'[p].base = b
             /\ job'[p].block # NoBlock => Fresh(b, job'[p].block)
  <2>1. b = mem[job[p].id] \/ \E d : MarkedTail(mem[job[p].id], d, b) BY <1>1, Compacted
  <2>2. b \in Seq(Entries) BY <1>1, <2>1 DEF MarkedTail
  <2> DEFINE block == IF Fresh(b, env) THEN env ELSE NoBlock
             j == [job[p] EXCEPT !.at = "run", !.base = b, !.block = block]
  <2>3. job' = [job EXCEPT ![p] = j] BY <1>1, <1>4
  <2>4. block \in Blocks BY SessionAssumption
  <2>5. block # NoBlock => Fresh(b, block) OBVIOUS
  <2> HIDE DEF block
  <2>6. "run" \in Stages BY DEF Stages
  <2>7. j \in Jobs /\ j.at = "run" /\ j.base = b /\ j.block = block /\ j.id = job[p].id
    BY <1>1, <2>2, <2>4, <2>6 DEF Jobs
  <2> HIDE DEF j
  <2>8. job' \in [Prompts -> Jobs] /\ job'[p] = j /\ \A q \in Prompts \ {p} : job'[q] = job[q]
    BY <1>1, <2>3, <2>7
  <2>9. Moves(p, "run") BY <2>7, <2>8 DEF Moves
  <2> QED BY <2>1, <2>2, <2>5, <2>7, <2>8, <2>9
<1>5. \/ Return(p, "error") /\ UNCHANGED mem
      \/ \E b \in Threshed(mem[job[p].id]) :
           /\ mem' = [mem EXCEPT ![job[p].id] = b] /\ UNCHANGED holder
           /\ job' = [job EXCEPT ![p].at = "run", ![p].base = b,
                                ![p].block = IF Fresh(b, env) THEN env ELSE NoBlock]
  BY DEF Prepare
<1>6. CASE ~(Return(p, "error") /\ UNCHANGED mem)
  <2>1. PICK b \in Threshed(mem[job[p].id]) :
           /\ mem' = [mem EXCEPT ![job[p].id] = b] /\ UNCHANGED holder
           /\ job' = [job EXCEPT ![p].at = "run", ![p].base = b,
                                ![p].block = IF Fresh(b, env) THEN env ELSE NoBlock]
    BY <1>5, <1>6
  <2>2. /\ b \in Seq(Entries)
        /\ b = mem[job[p].id] \/ \E d : MarkedTail(mem[job[p].id], d, b)
        /\ Moves(p, "run") /\ job'[p].base = b
        /\ job'[p].block # NoBlock => Fresh(b, job'[p].block)
    BY <1>4, <2>1
  <2> QED BY <1>2, <2>1, <2>2
<1> QED BY <1>3, <1>6

\* A run adds what the prompt asked and the answer, in memory and in what is to be
\* saved (session.go, Prompt after the loop).
LEMMA Ran ==
  ASSUME StateInv, NEW p \in Prompts, job[p].id \in Ids, RunReturns(p)
  PROVE  /\ job[p].at = "run" /\ UNCHANGED <<live, disk, holder, env, compacting, compacted, crashes>>
         /\ Moves(p, "save") /\ Asked(p)' = Asked(p)
         /\ job'[p].base = job[p].base /\ job'[p].new \in Runs(p)
         /\ mem' = [mem EXCEPT ![job[p].id] = mem[job[p].id] \o (Asked(p) \o job'[p].new)]
         /\ job'[p].state = mem'[job[p].id]
<1>1. job \in [Prompts -> Jobs] /\ job[p] \in Jobs /\ mem[job[p].id] \in Seq(Entries)
      /\ mem \in [Ids -> Seq(Entries)]
  BY DEF StateInv
<1>2. job[p].at = "run" /\ UNCHANGED <<live, disk, holder, env, compacting, compacted, crashes>>
  BY DEF RunReturns
<1>3. PICK new \in Runs(p), ok \in BOOLEAN : Appends(p, new, ok) BY DEF RunReturns
<1>4. /\ Addition(Asked(p) \o new, p, job[p].block)
      /\ new \in Seq(Entries)
      /\ (mem[job[p].id] \o Asked(p)) \o new = mem[job[p].id] \o (Asked(p) \o new)
  BY <1>1, Adds
<1> DEFINE m == mem[job[p].id] \o (Asked(p) \o new)
<1>5. mem' = [mem EXCEPT ![job[p].id] = m] BY <1>3, <1>4 DEF Appends
<1>6. m \in Seq(Entries) BY <1>1, <1>4, ConcatProperties DEF Addition
<1> HIDE DEF m
<1>7. mem'[job[p].id] = m BY <1>1, <1>5
<1>8. job[p].emitted \o new \in Seq(Entries)
  <2>1. job[p].emitted \in Seq(Entries) BY <1>1 DEF Jobs
  <2> QED BY <1>4, <2>1, ConcatProperties
<1> DEFINE f == ~ok
           e == job[p].emitted \o new
           j == [job[p] EXCEPT !.at = "save", !.new = new, !.failed = f, !.emitted = e, !.state = m]
<1>9. job' = [job EXCEPT ![p] = j] BY <1>1, <1>3, <1>7 DEF Appends
<1>10. f \in BOOLEAN /\ e \in Seq(Entries) BY <1>8
<1> HIDE DEF f, e
<1>11. "save" \in Stages BY DEF Stages
<1>12. /\ j \in Jobs /\ j.at = "save" /\ j.base = job[p].base /\ j.block = job[p].block
       /\ j.id = job[p].id /\ j.new = new /\ j.state = m
  BY <1>1, <1>4, <1>6, <1>10, <1>11 DEF Jobs
<1> HIDE DEF j
<1>13. job' \in [Prompts -> Jobs] /\ job'[p] = j /\ \A q \in Prompts \ {p} : job'[q] = job[q]
  BY <1>1, <1>9, <1>12
<1>14. Moves(p, "save") BY <1>12, <1>13 DEF Moves
<1>15. Asked(p)' = Asked(p) BY <1>12, <1>13 DEF Asked
<1>16. job'[p].new = new BY <1>12, <1>13
<1> QED BY <1>2, <1>5, <1>7, <1>12, <1>13, <1>14, <1>15, <1>16 DEF m

\* After an overflow the prompt works on a compaction of its base, in memory too
\* (session.go, the retry of Prompt).
LEMMA Overflowed ==
  ASSUME StateInv, NEW p \in Prompts, job[p].id \in Ids, Overflows(p)
  PROVE  /\ job[p].at = "run" /\ UNCHANGED <<live, disk, holder, env, compacting, compacted, crashes>>
         /\ Moves(p, "run") /\ job'[p].block = job[p].block
         /\ \E o \in Seq(Entries) : \E d :
              /\ MarkedTail(job[p].base, d, o)
              /\ mem' = [mem EXCEPT ![job[p].id] = o] /\ job'[p].base = o
<1>1. job \in [Prompts -> Jobs] /\ job[p] \in Jobs /\ job[p].base \in Seq(Entries)
  BY DEF StateInv, Jobs
<1>2. job[p].at = "run" /\ UNCHANGED <<live, disk, holder, env, compacting, compacted, crashes>>
  BY DEF Overflows
<1>3. PICK new \in Runs(p), o \in Compactions(job[p].base) :
        /\ Len(o) \in 1 .. Len(job[p].base) - 1
        /\ mem' = [mem EXCEPT ![job[p].id] = o]
        /\ job' = [job EXCEPT ![p].base = o, ![p].attempt = "second", ![p].emitted = new]
  BY DEF Overflows
<1>4. PICK d : MarkedTail(job[p].base, d, o)
  <2>1. o # job[p].base
    <3>1. Len(job[p].base) \in Nat BY <1>1, LenProperties
    <3>2. Len(job[p].base) \notin 1 .. Len(job[p].base) - 1 BY <3>1
    <3> QED BY <1>3, <3>2
  <2> QED BY <1>1, <2>1, Compacted
<1>5. o \in Seq(Entries) BY <1>4 DEF MarkedTail
<1>6. new \in Seq(Entries) BY Adds
<1> DEFINE j == [job[p] EXCEPT !.base = o, !.attempt = "second", !.emitted = new]
<1>7. job' = [job EXCEPT ![p] = j] BY <1>1, <1>3
<1>8. /\ j \in Jobs /\ j.at = "run" /\ j.base = o /\ j.block = job[p].block /\ j.id = job[p].id
  BY <1>1, <1>2, <1>5, <1>6 DEF Jobs
<1> HIDE DEF j
<1>9. job' \in [Prompts -> Jobs] /\ job'[p] = j /\ \A q \in Prompts \ {p} : job'[q] = job[q]
  BY <1>1, <1>7, <1>8
<1>10. Moves(p, "run") BY <1>8, <1>9 DEF Moves
<1> QED BY <1>2, <1>3, <1>4, <1>5, <1>8, <1>9, <1>10

\* The lock of a session is held by the prompt that works on it.
Locks ==
  /\ holder \in [Ids -> Prompts \cup {None}]
  /\ \A p \in Prompts, i \in Ids :
       holder[i] = p <=> job[p].id = i /\ job[p].at \in {"held", "run", "save"}

\* It is, step after step.
LEMMA LocksKept ==
  ASSUME Locks, NEW p \in Prompts, job[p].id \in Ids, NEW at, Moves(p, at)
  PROVE  /\ holder' = [holder EXCEPT ![job[p].id] = p] /\ holder[job[p].id] = None /\ at = "held"
              => Locks'
         /\ holder' = [holder EXCEPT ![job[p].id] = None] /\ job[p].at \in {"held", "save"}
            /\ at \in {"ok", "error"} => Locks'
         /\ holder' = holder /\ job[p].at \in {"held", "run"} /\ at \in {"run", "save"} => Locks'
<1>1. /\ holder \in [Ids -> Prompts \cup {None}] /\ None \notin Prompts
      /\ \A q \in Prompts, i \in Ids :
           holder[i] = q <=> job[q].id = i /\ job[q].at \in {"held", "run", "save"}
  BY SessionAssumption DEF Locks
<1>2. job'[p].at = at /\ job'[p].id = job[p].id /\ \A q \in Prompts \ {p} : job'[q] = job[q]
  BY DEF Moves
<1>3. ASSUME holder' = [holder EXCEPT ![job[p].id] = p], holder[job[p].id] = None, at = "held"
      PROVE  Locks'
  <2>1. holder' \in [Ids -> Prompts \cup {None}] BY <1>1, <1>3
  <2>2. ASSUME NEW q \in Prompts, NEW i \in Ids
        PROVE  holder'[i] = q <=> job'[q].id = i /\ job'[q].at \in {"held", "run", "save"}
    <3>1. CASE i = job[p].id BY <1>1, <1>2, <1>3, <3>1
    <3>2. CASE i # job[p].id BY <1>1, <1>2, <1>3, <3>2
    <3> QED BY <3>1, <3>2
  <2> QED BY <2>1, <2>2 DEF Locks
<1>4. ASSUME holder' = [holder EXCEPT ![job[p].id] = None], job[p].at \in {"held", "save"},
             at \in {"ok", "error"}
      PROVE  Locks'
  <2>1. holder' \in [Ids -> Prompts \cup {None}] BY <1>1, <1>4
  <2>2. ASSUME NEW q \in Prompts, NEW i \in Ids
        PROVE  holder'[i] = q <=> job'[q].id = i /\ job'[q].at \in {"held", "run", "save"}
    <3>1. CASE i = job[p].id BY <1>1, <1>2, <1>4, <3>1
    <3>2. CASE i # job[p].id BY <1>1, <1>2, <1>4, <3>2
    <3> QED BY <3>1, <3>2
  <2> QED BY <2>1, <2>2 DEF Locks
<1>5. ASSUME holder' = holder, job[p].at \in {"held", "run"}, at \in {"run", "save"}
      PROVE  Locks'
  BY <1>1, <1>2, <1>5 DEF Locks
<1> QED BY <1>3, <1>4, <1>5

\* A step takes a prompt, a session or a place through one of the actions.
LEMMA Steps ==
  ASSUME [Next]_vars
  PROVE  \/ \E i \in Ids : Open(i)
         \/ \E i \in Ids : StartCompact(i)
         \/ \E p \in Prompts : \E i \in Ids : CallPrompt(p, i)
         \/ \E p \in Prompts : Lock(p)
         \/ \E p \in Prompts : Prepare(p)
         \/ \E p \in Prompts : RunReturns(p)
         \/ \E p \in Prompts : Overflows(p)
         \/ \E p \in Prompts : Save(p)
         \/ \E i, new \in Ids : Fork(i, new)
         \/ EnvChanges \/ Crash \/ SaveCompact \/ UNCHANGED vars
BY DEF Next, Step

\* The types, and nothing else.
Typed ==
  /\ StateInv /\ Locks
  /\ live \subseteq Ids /\ compacted \subseteq Ids /\ env \in Blocks /\ crashes \in 0 .. MaxCrashes

LEMMA TypedIsTypeOK == StateInv => (Typed <=> TypeOK)
<1> SUFFICES ASSUME StateInv PROVE Typed <=> TypeOK OBVIOUS
<1>1. /\ \A i \in Ids : mem[i] \in Seq(Entries) /\ disk[i] \in Seq(Entries) \cup {Absent}
      /\ \A p \in Prompts : job[p].at \in Stages /\ job[p].id \in Ids \cup {None}
  BY DEF StateInv, Jobs
<1> QED BY <1>1 DEF Typed, TypeOK, Locks

\* The prompts with a session of their own are those of the agent that runs.
LEMMA TypedStep ==
  ASSUME Typed, TurnInv, [Next]_vars
  PROVE  Typed'
<1>1. /\ mem \in [Ids -> Seq(Entries)] /\ disk \in [Ids -> Seq(Entries) \cup {Absent}]
      /\ job \in [Prompts -> Jobs]
      /\ compacting \in [id : Ids \cup {None}, out : Seq(Entries)]
      /\ compacting # NoCompaction => compacting.id \in Ids /\ Marked(compacting.out)
      /\ StateInv /\ Locks
      /\ live \subseteq Ids /\ compacted \subseteq Ids /\ env \in Blocks /\ crashes \in 0 .. MaxCrashes
  BY DEF Typed, StateInv
<1>2. \A p \in Prompts : job[p].at # "idle" => job[p].id \in Ids BY DEF TurnInv
<1>3. <<>> \in Seq(Entries) /\ NoCompaction \in [id : Ids \cup {None}, out : Seq(Entries)]
  BY DEF NoCompaction
<1>4. ASSUME NEW at \in Stages, NEW i \in Ids \cup {None} PROVE Job(at, i) \in Jobs
  BY <1>3, SessionAssumption DEF Job, Jobs
<1>5. CASE UNCHANGED <<mem, disk, job, compacting, holder, live, compacted, crashes>> /\ env' \in Blocks
  BY <1>1, <1>5 DEF Typed, StateInv, Locks
<1>6. ASSUME NEW i \in Ids, Open(i) PROVE Typed'
  <2>1. mem' \in [Ids -> Seq(Entries)] BY <1>1, <1>3, <1>6 DEF Open
  <2>2. UNCHANGED <<disk, job, compacting, holder, compacted, crashes, env>> /\ live' \subseteq Ids
    BY <1>1, <1>6 DEF Open
  <2> QED BY <1>1, <2>1, <2>2 DEF Typed, StateInv, Locks
<1>7. ASSUME NEW i \in Ids, StartCompact(i) PROVE Typed'
  <2>1. UNCHANGED <<mem, disk, job, holder, live, compacted, crashes, env>> BY <1>7 DEF StartCompact
  <2>2. PICK o \in Compactions(mem[i]) : Len(o) < Len(mem[i]) /\ compacting' = [id |-> i, out |-> o]
    BY <1>7 DEF StartCompact
  <2>3. o # mem[i]
    <3>1. Len(mem[i]) \in Nat BY <1>1, LenProperties
    <3> QED BY <2>2, <3>1
  <2>4. PICK d : MarkedTail(mem[i], d, o) BY <1>1, <2>3, Compacted
  <2>5. o \in Seq(Entries) /\ Marked(o) BY <2>4 DEF MarkedTail
  <2> QED BY <1>1, <2>1, <2>2, <2>5 DEF Typed, StateInv, Locks
<1>8. ASSUME NEW p \in Prompts, NEW i \in Ids, CallPrompt(p, i) PROVE Typed'
  <2>1. UNCHANGED <<mem, disk, compacting, holder, live, compacted, crashes, env>> BY <1>8 DEF CallPrompt
  <2>2. job' = [job EXCEPT ![p] = Job("queued", i)] /\ job[p].at = "idle" BY <1>8 DEF CallPrompt
  <2>3. "queued" \in Stages BY DEF Stages
  <2>4. job' \in [Prompts -> Jobs] BY <1>1, <1>4, <2>2, <2>3
  <2>5. job'[p].at = "queued" /\ \A q \in Prompts \ {p} : job'[q] = job[q] BY <1>1, <2>2 DEF Job
  <2>6. Locks' BY <1>1, <2>1, <2>2, <2>5 DEF Locks
  <2> QED BY <1>1, <2>1, <2>4, <2>6 DEF Typed, StateInv
<1>9. ASSUME NEW p \in Prompts, Lock(p) PROVE Typed'
  <2>1. UNCHANGED <<mem, disk, compacting, live, compacted, crashes, env>> BY <1>9 DEF Lock
  <2>2. /\ Moves(p, "held") /\ job[p].at = "queued" /\ holder[job[p].id] = None
        /\ holder' = [holder EXCEPT ![job[p].id] = p]
    BY <1>1, <1>9, Moved
  <2>3. job[p].id \in Ids BY <1>2, <2>2
  <2>4. Locks' BY <1>1, <2>2, <2>3, LocksKept
  <2>5. job' \in [Prompts -> Jobs] BY <2>2 DEF Moves
  <2> QED BY <1>1, <2>1, <2>4, <2>5 DEF Typed, StateInv
<1>10. ASSUME NEW p \in Prompts, Prepare(p) PROVE Typed'
  <2>1. job[p].at = "held" BY <1>10 DEF Prepare
  <2>2. job[p].id \in Ids BY <1>2, <2>1
  <2>3. UNCHANGED <<live, disk, env, compacting, compacted, crashes>> BY <1>10 DEF Prepare
  <2>4. \/ /\ Moves(p, "error") /\ mem' = mem
           /\ holder' = [holder EXCEPT ![job[p].id] = None]
        \/ \E b \in Seq(Entries) :
             Moves(p, "run") /\ mem' = [mem EXCEPT ![job[p].id] = b] /\ holder' = holder
    BY <1>1, <1>10, <2>2, Prepared
  <2>5. Locks' BY <1>1, <2>1, <2>2, <2>4, LocksKept
  <2>6. mem' \in [Ids -> Seq(Entries)] BY <1>1, <2>4
  <2>7. job' \in [Prompts -> Jobs] BY <2>4 DEF Moves
  <2> QED BY <1>1, <2>3, <2>5, <2>6, <2>7 DEF Typed, StateInv
<1>11. ASSUME NEW p \in Prompts, RunReturns(p) PROVE Typed'
  <2>1. job[p].at = "run" BY <1>11 DEF RunReturns
  <2>2. job[p].id \in Ids BY <1>2, <2>1
  <2>3. /\ UNCHANGED <<live, disk, holder, env, compacting, compacted, crashes>>
        /\ Moves(p, "save") /\ job'[p].state = mem'[job[p].id]
        /\ mem' = [mem EXCEPT ![job[p].id] = mem[job[p].id] \o (Asked(p) \o job'[p].new)]
    BY <1>1, <1>11, <2>2, Ran
  <2>4. Locks' BY <1>1, <2>1, <2>2, <2>3, LocksKept
  <2>5. job' \in [Prompts -> Jobs] BY <2>3 DEF Moves
  <2>6. job'[p].state \in Seq(Entries) BY <2>5 DEF Jobs
  <2> DEFINE x == mem[job[p].id] \o (Asked(p) \o job'[p].new)
  <2>7. mem'[job[p].id] = x /\ mem' = [mem EXCEPT ![job[p].id] = x] BY <1>1, <2>2, <2>3
  <2> HIDE DEF x
  <2>8. mem' \in [Ids -> Seq(Entries)] BY <1>1, <2>3, <2>6, <2>7
  <2> QED BY <1>1, <2>3, <2>4, <2>5, <2>8 DEF Typed, StateInv
<1>12. ASSUME NEW p \in Prompts, Overflows(p) PROVE Typed'
  <2>1. job[p].at = "run" BY <1>12 DEF Overflows
  <2>2. job[p].id \in Ids BY <1>2, <2>1
  <2>3. UNCHANGED <<live, disk, holder, env, compacting, compacted, crashes>> BY <1>12 DEF Overflows
  <2>4. Moves(p, "run") /\ \E o \in Seq(Entries) : mem' = [mem EXCEPT ![job[p].id] = o]
    BY <1>1, <1>12, <2>2, Overflowed
  <2>5. Locks' BY <1>1, <2>1, <2>2, <2>3, <2>4, LocksKept
  <2>6. mem' \in [Ids -> Seq(Entries)] BY <1>1, <2>4
  <2>7. job' \in [Prompts -> Jobs] BY <2>4 DEF Moves
  <2> QED BY <1>1, <2>3, <2>5, <2>6, <2>7 DEF Typed, StateInv
<1>13. ASSUME NEW p \in Prompts, Save(p) PROVE Typed'
  <2>1. job[p].at = "save" BY <1>13 DEF Save
  <2>2. job[p].id \in Ids /\ job[p].state \in Seq(Entries) BY <1>1, <1>2, <2>1 DEF Jobs
  <2>3. UNCHANGED <<live, mem, env, compacting, compacted, crashes>> BY <1>13 DEF Save
  <2>4. disk' = disk \/ disk' = [disk EXCEPT ![job[p].id] = job[p].state] BY <1>13 DEF Save
  <2>5. disk' \in [Ids -> Seq(Entries) \cup {Absent}] BY <1>1, <2>2, <2>4
  <2>6. PICK at \in {"ok", "error"} : Return(p, at) BY <1>13 DEF Save
  <2>7. at \in Stages BY DEF Stages
  <2>8. Moves(p, at) /\ holder' = [holder EXCEPT ![job[p].id] = None] BY <1>1, <2>6, <2>7, Moved
  <2>9. Locks' BY <1>1, <2>1, <2>2, <2>8, LocksKept
  <2>10. job' \in [Prompts -> Jobs] BY <2>8 DEF Moves
  <2> QED BY <1>1, <2>3, <2>5, <2>9, <2>10 DEF Typed, StateInv
<1>14. ASSUME NEW i \in Ids, NEW new \in Ids, Fork(i, new) PROVE Typed'
  <2>1. UNCHANGED <<live, mem, holder, job, env, compacting, compacted, crashes>> BY <1>14 DEF Fork
  <2>2. PICK n \in 0 .. Len(disk[i]) : disk' = [disk EXCEPT ![new] = SubSeq(disk[i], 1, n)]
    BY <1>14 DEF Fork
  <2>3. disk[i] \in Seq(Entries) BY <1>1, <1>14 DEF Fork
  <2>4. n \in 0 .. Len(disk[i]) BY <2>2
  <2>5. SubSeq(disk[i], 1, n) \in Seq(Entries) BY <2>3, <2>4, Cut DEF Prefix
  <2>6. disk' \in [Ids -> Seq(Entries) \cup {Absent}] BY <1>1, <2>2, <2>5
  <2> QED BY <1>1, <2>1, <2>6 DEF Typed, StateInv, Locks
<1>15. CASE Crash
  <2>1. mem' \in [Ids -> Seq(Entries)] /\ live' \subseteq Ids /\ compacting' = NoCompaction
    BY <1>3, <1>15 DEF Crash
  <2>2. crashes' \in 0 .. MaxCrashes /\ UNCHANGED <<disk, env, compacted>>
    BY <1>1, <1>15, SessionAssumption DEF Crash
  <2>3. /\ job' = [p \in Prompts |-> IF Active(p) THEN Job("lost", job[p].id) ELSE job[p]]
        /\ holder' = [i \in Ids |-> None]
    BY <1>15 DEF Crash
  <2>4. job' \in [Prompts -> Jobs]
    <3>1. \A p \in Prompts : job[p].id \in Ids \cup {None} BY <1>1 DEF Jobs
    <3>2. "lost" \in Stages BY DEF Stages
    <3>3. \A p \in Prompts : Job("lost", job[p].id) \in Jobs BY <1>4, <3>1, <3>2
    <3> QED BY <1>1, <2>3, <3>3
  <2>5. \A p \in Prompts : job'[p].at \notin {"held", "run", "save"} BY <2>3 DEF Active, Job
  <2>6. Locks' BY <2>3, <2>5, SessionAssumption DEF Locks
  <2> QED BY <1>1, <1>3, <2>1, <2>2, <2>4, <2>6 DEF Typed, StateInv
<1>16. CASE SaveCompact
  <2>1. UNCHANGED <<live, mem, holder, job, env, crashes>> /\ compacting' = NoCompaction
    BY <1>16 DEF SaveCompact
  <2>2. compacting.id \in Ids /\ compacting.out \in Seq(Entries) BY <1>1, <1>16 DEF SaveCompact
  <2>3. disk' \in [Ids -> Seq(Entries) \cup {Absent}] BY <1>1, <1>16, <2>2 DEF SaveCompact
  <2>4. compacted' \subseteq Ids BY <1>1, <1>16, <2>2 DEF SaveCompact
  <2> QED BY <1>1, <1>3, <2>1, <2>3, <2>4 DEF Typed, StateInv, Locks
<1>17. ASSUME EnvChanges \/ UNCHANGED vars PROVE Typed'
  BY <1>1, <1>5, <1>17 DEF EnvChanges, vars
<1> QED
  BY <1>6, <1>7, <1>8, <1>9, <1>10, <1>11, <1>12, <1>13, <1>14, <1>15, <1>16, <1>17, Steps

-----------------------------------------------------------------------------
(* What one step does to one prompt, one transcript, one stored transcript.  *)

LEMMA Progress ==
  ASSUME Typed, TurnInv, [Next]_vars, NEW p \in Prompts
  PROVE  \/ job'[p] = job[p]
         \/ job[p].at = "idle" /\ \E i \in Ids : CallPrompt(p, i) /\ job'[p] = Job("queued", i)
         \/ job[p].at = "queued" /\ Lock(p) /\ Moves(p, "held")
         \/ Prepare(p) \/ RunReturns(p) \/ Overflows(p) \/ Save(p)
         \/ Crash /\ Active(p) /\ job'[p] = Job("lost", job[p].id)
<1>1. job \in [Prompts -> Jobs] /\ StateInv BY DEF Typed, StateInv
<1>2. ASSUME NEW i \in Ids, Open(i) \/ StartCompact(i) PROVE job'[p] = job[p]
  BY <1>2 DEF Open, StartCompact
<1>3. ASSUME NEW q \in Prompts, NEW i \in Ids, CallPrompt(q, i)
      PROVE  \/ job'[p] = job[p]
             \/ job[p].at = "idle" /\ CallPrompt(p, i) /\ job'[p] = Job("queued", i)
  <2>1. job' = [job EXCEPT ![q] = Job("queued", i)] /\ job[q].at = "idle" BY <1>3 DEF CallPrompt
  <2>2. CASE q = p BY <1>1, <1>3, <2>1, <2>2
  <2>3. CASE q # p BY <1>1, <2>1, <2>3
  <2> QED BY <2>2, <2>3
<1>4. ASSUME NEW q \in Prompts, Lock(q)
      PROVE  job'[p] = job[p] \/ (job[p].at = "queued" /\ Lock(p) /\ Moves(p, "held"))
  <2>1. Moves(q, "held") /\ job[q].at = "queued" BY <1>1, <1>4, Moved
  <2> QED BY <1>4, <2>1 DEF Moves
<1>5. ASSUME NEW q \in Prompts, Prepare(q) \/ RunReturns(q) \/ Overflows(q) \/ Save(q)
      PROVE  \/ job'[p] = job[p]
             \/ Prepare(p) \/ RunReturns(p) \/ Overflows(p) \/ Save(p)
  <2>1. job[q].at # "idle" BY <1>5 DEF Prepare, RunReturns, Overflows, Save
  <2>2. job[q].id \in Ids /\ env \in Blocks BY <2>1 DEF TurnInv, Typed
  <2>3. \E at : Moves(q, at)
    <3>1. CASE Prepare(q) BY <1>1, <2>2, <3>1, Prepared
    <3>2. CASE RunReturns(q) BY <1>1, <2>2, <3>2, Ran
    <3>3. CASE Overflows(q) BY <1>1, <2>2, <3>3, Overflowed
    <3>4. CASE Save(q)
      <4>1. PICK at \in {"ok", "error"} : Return(q, at) BY <3>4 DEF Save
      <4>2. at \in Stages BY DEF Stages
      <4> QED BY <1>1, <4>1, <4>2, Moved
    <3> QED BY <1>5, <3>1, <3>2, <3>3, <3>4
  <2>4. p # q => job'[p] = job[p] BY <2>3 DEF Moves
  <2> QED BY <1>5, <2>4
<1>6. ASSUME NEW i \in Ids, NEW new \in Ids, Fork(i, new) PROVE job'[p] = job[p] BY <1>6 DEF Fork
<1>7. ASSUME Crash PROVE job'[p] = job[p] \/ (Crash /\ Active(p) /\ job'[p] = Job("lost", job[p].id))
  BY <1>7 DEF Crash
<1>8. ASSUME EnvChanges \/ SaveCompact \/ UNCHANGED vars PROVE job'[p] = job[p]
  BY <1>8 DEF EnvChanges, SaveCompact, vars
<1> QED BY <1>2, <1>3, <1>4, <1>5, <1>6, <1>7, <1>8, Steps

LEMMA MemStep ==
  ASSUME Typed, TurnInv, [Next]_vars, NEW i \in Ids
  PROVE  \/ mem'[i] = mem[i]
         \/ Open(i) \/ Crash
         \/ \E p \in Prompts :
              /\ job[p].id = i /\ (Prepare(p) \/ Overflows(p))
              /\ \E d : MarkedTail(mem[i], d, mem'[i])
         \/ \E p \in Prompts : job[p].id = i /\ RunReturns(p)
<1>1. mem \in [Ids -> Seq(Entries)] /\ StateInv /\ env \in Blocks BY DEF Typed, StateInv
<1>2. \A p \in Prompts : job[p].at # "idle" => job[p].id \in Ids BY DEF TurnInv
<1>3. ASSUME NEW j \in Ids, Open(j) PROVE mem'[i] = mem[i] \/ Open(i) BY <1>1, <1>3 DEF Open
<1>4. ASSUME NEW p \in Prompts, Prepare(p)
      PROVE  mem'[i] = mem[i] \/ (job[p].id = i /\ \E d : MarkedTail(mem[i], d, mem'[i]))
  <2>1. job[p].id \in Ids BY <1>2, <1>4 DEF Prepare
  <2> DEFINE Becomes(b) == /\ b = mem[job[p].id] \/ \E d : MarkedTail(mem[job[p].id], d, b)
                           /\ mem' = [mem EXCEPT ![job[p].id] = b]
  <2>2. mem' = mem \/ \E b \in Seq(Entries) : Becomes(b) BY <1>1, <1>4, <2>1, Prepared
  <2>3. ASSUME NEW b \in Seq(Entries), Becomes(b)
        PROVE  mem'[i] = mem[i] \/ (job[p].id = i /\ \E d : MarkedTail(mem[i], d, mem'[i]))
    <3>1. CASE job[p].id = i
      <4>1. mem'[i] = b BY <1>1, <2>3, <3>1
      <4> QED BY <2>3, <3>1, <4>1
    <3>2. CASE job[p].id # i BY <1>1, <2>3, <3>2
    <3> QED BY <3>1, <3>2
  <2> HIDE DEF Becomes
  <2> QED BY <2>2, <2>3
<1>5. ASSUME NEW p \in Prompts, Overflows(p)
      PROVE  mem'[i] = mem[i] \/ (job[p].id = i /\ \E d : MarkedTail(mem[i], d, mem'[i]))
  <2>1. job[p].id \in Ids BY <1>2, <1>5 DEF Overflows
  <2>2. job[p].at = "run" BY <1>5 DEF Overflows
  <2>3. mem[job[p].id] = job[p].base BY <2>2 DEF TurnInv
  <2>4. PICK o \in Seq(Entries), d \in Nat :
          MarkedTail(job[p].base, d, o) /\ mem' = [mem EXCEPT ![job[p].id] = o]
    <3>1. \E o \in Seq(Entries) : \E d :
             MarkedTail(job[p].base, d, o) /\ mem' = [mem EXCEPT ![job[p].id] = o]
      BY <1>1, <1>5, <2>1, Overflowed
    <3> QED BY <3>1 DEF MarkedTail
  <2>5. CASE job[p].id = i
    <3>1. mem'[i] = o BY <1>1, <2>4, <2>5
    <3> QED BY <2>3, <2>4, <2>5, <3>1
  <2>6. CASE job[p].id # i BY <1>1, <2>4, <2>6
  <2> QED BY <2>5, <2>6
<1>6. ASSUME NEW p \in Prompts, RunReturns(p) PROVE mem'[i] = mem[i] \/ job[p].id = i
  <2>1. job[p].id \in Ids BY <1>2, <1>6 DEF RunReturns
  <2>2. \E x : mem' = [mem EXCEPT ![job[p].id] = x] BY <1>1, <1>6, <2>1, Ran
  <2> QED BY <1>1, <2>2
<1>7. ASSUME \/ \E j \in Ids : StartCompact(j)
             \/ \E p \in Prompts, j \in Ids : CallPrompt(p, j)
             \/ \E p \in Prompts : Lock(p) \/ Save(p)
             \/ \E j, new \in Ids : Fork(j, new)
             \/ EnvChanges \/ SaveCompact \/ UNCHANGED vars
      PROVE  mem'[i] = mem[i]
  BY <1>7 DEF StartCompact, CallPrompt, Lock, Save, Fork, EnvChanges, SaveCompact, vars
<1> QED BY <1>3, <1>4, <1>5, <1>6, <1>7, Steps

LEMMA DiskStep ==
  ASSUME Typed, TurnInv, [Next]_vars, NEW i \in Ids
  PROVE  \/ disk'[i] = disk[i]
         \/ \E p \in Prompts : Save(p) /\ job[p].id = i /\ disk'[i] = mem[i]
         \/ \E j \in Ids, n \in Nat :
              Fork(j, i) /\ disk[j] \in Seq(Entries) /\ Prefix(disk[j], n, disk'[i])
         \/ SaveCompact /\ compacting.id = i /\ disk'[i] = compacting.out /\ i \in compacted'
<1>1. /\ mem \in [Ids -> Seq(Entries)] /\ disk \in [Ids -> Seq(Entries) \cup {Absent}]
      /\ compacting # NoCompaction => compacting.id \in Ids
  BY DEF Typed, StateInv
<1>2. ASSUME NEW p \in Prompts, Save(p)
      PROVE  disk'[i] = disk[i] \/ (job[p].id = i /\ disk'[i] = mem[i])
  <2>1. job[p].at = "save" BY <1>2 DEF Save
  <2>2. job[p].id \in Ids /\ job[p].state = mem[job[p].id] BY <2>1 DEF TurnInv
  <2>3. disk' = disk \/ disk' = [disk EXCEPT ![job[p].id] = job[p].state] BY <1>2 DEF Save
  <2> QED BY <1>1, <2>2, <2>3
<1>3. ASSUME NEW j \in Ids, NEW new \in Ids, Fork(j, new)
      PROVE  \/ disk'[i] = disk[i]
             \/ new = i /\ \E n \in Nat : disk[j] \in Seq(Entries) /\ Prefix(disk[j], n, disk'[i])
  <2>1. PICK n \in 0 .. Len(disk[j]) : disk' = [disk EXCEPT ![new] = SubSeq(disk[j], 1, n)]
    BY <1>3 DEF Fork
  <2>2. disk[j] \in Seq(Entries) BY <1>1, <1>3 DEF Fork
  <2>3. n \in 0 .. Len(disk[j]) BY <2>1
  <2>4. Prefix(disk[j], n, SubSeq(disk[j], 1, n)) /\ n \in Nat BY <2>2, <2>3, Cut DEF Prefix
  <2> DEFINE o == SubSeq(disk[j], 1, n)
  <2>5. disk' = [disk EXCEPT ![new] = o] BY <2>1
  <2> HIDE DEF o
  <2>6. CASE new = i
    <3>1. disk'[i] = o BY <1>1, <2>5, <2>6
    <3> QED BY <2>2, <2>4, <2>6, <3>1 DEF o
  <2>7. CASE new # i BY <1>1, <2>5, <2>7
  <2> QED BY <2>6, <2>7
<1>4. ASSUME SaveCompact
      PROVE  \/ disk'[i] = disk[i]
             \/ compacting.id = i /\ disk'[i] = compacting.out /\ i \in compacted'
  <2>1. /\ disk' = [disk EXCEPT ![compacting.id] = compacting.out] /\ compacting.id \in Ids
        /\ compacted' = compacted \cup {compacting.id}
    BY <1>1, <1>4 DEF SaveCompact
  <2> QED BY <1>1, <2>1
<1>5. ASSUME \/ \E j \in Ids : Open(j) \/ StartCompact(j)
             \/ \E p \in Prompts, j \in Ids : CallPrompt(p, j)
             \/ \E p \in Prompts : Lock(p) \/ Prepare(p) \/ RunReturns(p) \/ Overflows(p)
             \/ EnvChanges \/ Crash \/ UNCHANGED vars
      PROVE  disk'[i] = disk[i]
  BY <1>5 DEF Open, StartCompact, CallPrompt, Lock, Prepare, RunReturns, Overflows, EnvChanges, Crash, vars
<1> QED BY <1>2, <1>3, <1>4, <1>5, Steps

LEMMA CompactingStep ==
  ASSUME Typed, [Next]_vars
  PROVE  \/ compacting' = compacting
         \/ compacting' = NoCompaction
         \/ \E i \in Ids : UNCHANGED job /\ \E d : MarkedTail(mem[i], d, compacting'.out)
<1>1. mem \in [Ids -> Seq(Entries)] BY DEF Typed, StateInv
<1>2. ASSUME NEW i \in Ids, StartCompact(i)
      PROVE  UNCHANGED job /\ \E d : MarkedTail(mem[i], d, compacting'.out)
  <2>1. PICK o \in Compactions(mem[i]) : Len(o) < Len(mem[i]) /\ compacting' = [id |-> i, out |-> o]
    BY <1>2 DEF StartCompact
  <2>2. o # mem[i]
    <3>1. Len(mem[i]) \in Nat BY <1>1, LenProperties
    <3> QED BY <2>1, <3>1
  <2>3. \E d : MarkedTail(mem[i], d, o) BY <1>1, <2>2, Compacted
  <2>4. compacting'.out = o /\ UNCHANGED job BY <1>2, <2>1 DEF StartCompact
  <2> QED BY <2>3, <2>4
<1>3. ASSUME Crash \/ SaveCompact PROVE compacting' = NoCompaction BY <1>3 DEF Crash, SaveCompact
<1>4. ASSUME \/ \E j \in Ids : Open(j)
             \/ \E p \in Prompts, j \in Ids : CallPrompt(p, j)
             \/ \E p \in Prompts : \/ Lock(p) \/ Prepare(p) \/ RunReturns(p)
                                   \/ Overflows(p) \/ Save(p)
             \/ \E j, new \in Ids : Fork(j, new)
             \/ EnvChanges \/ UNCHANGED vars
      PROVE  compacting' = compacting
  BY <1>4 DEF Open, CallPrompt, Lock, Prepare, RunReturns, Overflows, Save, Fork, EnvChanges, vars
<1> QED BY <1>2, <1>3, <1>4, Steps

-----------------------------------------------------------------------------
(* Every step keeps the strengthening. *)

\* A prompt that has not been run has written nothing yet.
Unasked(p) == job[p].at \in {"idle", "queued", "held", "run"}

\* Every transcript stays what was said in it, and free of the prompts to come.
LEMMA SoundStep ==
  ASSUME Typed, Typed', TurnInv, SoundInv, UnaskedInv, [Next]_vars
  PROVE  SoundInv' /\ UnaskedInv'
<1> DEFINE Clean(m) == Sound(m) /\ \A p \in Prompts : Unasked(p) => Without(m, p)
           Still(m) == Sound(m) /\ \A p \in Prompts : Unasked(p)' => Without(m, p)
<1>1. /\ mem \in [Ids -> Seq(Entries)] /\ disk \in [Ids -> Seq(Entries) \cup {Absent}]
      /\ compacting.out \in Seq(Entries) /\ StateInv
  BY DEF Typed, StateInv
<1>2. /\ \A i \in Ids : mem'[i] \in Seq(Entries) /\ disk'[i] \in Seq(Entries) \cup {Absent}
      /\ compacting'.out \in Seq(Entries)
  BY DEF Typed, StateInv
<1>3. ASSUME NEW m \in Transcripts PROVE Clean(m)
  <2>1. m \in Seq(Entries) BY <1>1 DEF Transcripts
  <2>2. WellFormed(m) /\ BlocksDiffer(m) /\ Attributed(m) BY DEF SoundInv
  <2>3. \A p \in Prompts : Unasked(p) => Without(m, p) BY DEF UnaskedInv, Unasked, Without
  <2> QED BY <2>1, <2>2, <2>3 DEF Sound
<1>4. /\ \A i \in Ids : Clean(mem[i])
      /\ \A i \in Ids : disk[i] \in Seq(Entries) => Clean(disk[i])
      /\ Clean(compacting.out)
  <2>1. /\ \A i \in Ids : mem[i] \in Transcripts
        /\ \A i \in Ids : disk[i] \in Seq(Entries) => disk[i] \in Transcripts
        /\ compacting.out \in Transcripts
    BY <1>1, Messaging DEF Transcripts
  <2> QED BY <1>3, <2>1
<1>5. ASSUME NEW p \in Prompts, Unasked(p)' PROVE Unasked(p) /\ ~RunReturns(p)
  <2>1. job'[p].at \in {"idle", "queued", "held", "run"} BY <1>5 DEF Unasked
  <2>2. CASE RunReturns(p)
    <3>1. job[p].id \in Ids BY <2>2 DEF RunReturns, TurnInv
    <3>2. job'[p].at = "save" BY <1>1, <2>2, <3>1, Ran DEF Moves
    <3> QED BY <2>1, <3>2
  <2>3. CASE job'[p] = job[p] /\ ~RunReturns(p) BY <2>1, <2>3 DEF Unasked
  <2>4. CASE job[p].at \in {"idle", "queued"} BY <2>2, <2>4 DEF Unasked
  <2>5. CASE Prepare(p) \/ Overflows(p) BY <2>2, <2>5 DEF Unasked, Prepare, Overflows
  <2>6. CASE Save(p)
    <3>1. PICK at \in {"ok", "error"} : Return(p, at) BY <2>6 DEF Save
    <3>2. at \in Stages BY DEF Stages
    <3>3. job'[p].at = at BY <1>1, <3>1, <3>2, Moved DEF Moves
    <3> QED BY <2>1, <3>3
  <2>7. CASE job'[p] = Job("lost", job[p].id) BY <2>1, <2>7 DEF Job
  <2> QED BY <2>2, <2>3, <2>4, <2>5, <2>6, <2>7, Progress
<1>6. ASSUME NEW m, Clean(m) PROVE Still(m) BY <1>5, <1>6
<1>7. ASSUME NEW m, Clean(m), NEW d, NEW o, MarkedTail(m, d, o) PROVE Still(o)
  BY <1>6, <1>7, TailedSound
<1>8. ASSUME NEW i \in Ids PROVE Still(mem'[i])
  <2>1. CASE mem'[i] = mem[i] BY <1>4, <1>6, <2>1
  <2>2. CASE Open(i)
    <3>1. mem'[i] = <<>> \/ (mem'[i] = disk[i] /\ disk[i] # Absent) BY <1>1, <2>2 DEF Open
    <3>2. CASE mem'[i] = <<>> BY <3>2, EmptySound
    <3>3. CASE mem'[i] = disk[i] /\ disk[i] # Absent BY <1>1, <1>4, <1>6, <3>3
    <3> QED BY <3>1, <3>2, <3>3
  <2>3. CASE Crash
    <3>1. mem'[i] = <<>> BY <2>3 DEF Crash
    <3> QED BY <3>1, EmptySound
  <2>4. CASE \E d : MarkedTail(mem[i], d, mem'[i]) BY <1>4, <1>7, <2>4
  <2>5. ASSUME NEW p \in Prompts, job[p].id = i, RunReturns(p) PROVE Still(mem'[i])
    <3>1. /\ job[p].at = "run" /\ job'[p].new \in Runs(p)
          /\ mem' = [mem EXCEPT ![i] = mem[i] \o (Asked(p) \o job'[p].new)]
      BY <1>1, <2>5, Ran
    <3> DEFINE e == Asked(p) \o job'[p].new
    <3>2. Addition(e, p, job[p].block) BY <1>1, <3>1, Adds
    <3>3. mem'[i] = mem[i] \o e BY <1>1, <3>1
    <3> HIDE DEF e
    <3>4. Sound(mem[i]) /\ Without(mem[i], p) BY <1>4, <3>1 DEF Unasked
    <3>5. job[p].block # NoBlock => ShowsOther(mem[i], job[p].block) BY <2>5, <3>1 DEF TurnInv
    <3>6. /\ Sound(mem[i] \o e)
          /\ \A q \in Prompts : q # p /\ Without(mem[i], q) => Without(mem[i] \o e, q)
      BY <3>2, <3>4, <3>5, ExtendedSound
    <3>7. \A q \in Prompts : Unasked(q)' => q # p /\ Without(mem[i], q) BY <1>4, <1>5, <2>5
    <3> QED BY <3>3, <3>6, <3>7
  <2> QED BY <2>1, <2>2, <2>3, <2>4, <2>5, MemStep
<1>9. ASSUME NEW i \in Ids, disk'[i] # Absent PROVE Still(disk'[i])
  <2>1. CASE disk'[i] = disk[i] BY <1>1, <1>4, <1>6, <1>9, <2>1
  <2>2. CASE disk'[i] = mem[i] BY <1>4, <1>6, <2>2
  <2>3. ASSUME NEW j \in Ids, NEW n \in Nat, disk[j] \in Seq(Entries), Prefix(disk[j], n, disk'[i])
        PROVE  Still(disk'[i])
    <3>1. Clean(disk[j]) BY <1>4, <2>3
    <3>2. Clean(disk'[i]) BY <2>3, <3>1, CutSound
    <3> QED BY <1>6, <3>2
  <2>4. CASE disk'[i] = compacting.out BY <1>4, <1>6, <2>4
  <2> QED BY <2>1, <2>2, <2>3, <2>4, DiskStep
<1>10. Still(compacting'.out)
  <2>1. CASE compacting' = compacting BY <1>4, <1>6, <2>1
  <2>2. CASE compacting' = NoCompaction BY <2>2, EmptySound DEF NoCompaction
  <2>3. CASE \E i \in Ids : \E d : MarkedTail(mem[i], d, compacting'.out) BY <1>4, <1>7, <2>3
  <2> QED BY <2>1, <2>2, <2>3, CompactingStep
<1> HIDE DEF Still, Clean
<1>11. ASSUME NEW m \in Transcripts' PROVE Still(m)
  <2>1. \/ \E i \in Ids : m = mem'[i]
        \/ \E i \in Ids : m = disk'[i] /\ m # Absent
        \/ m = compacting'.out
    BY DEF Transcripts
  <2> QED BY <1>8, <1>9, <1>10, <2>1
<1>12. SoundInv' BY <1>11 DEF SoundInv, Still, Sound
<1>13. UnaskedInv' BY <1>11 DEF UnaskedInv, Still, Without, Unasked
<1> QED BY <1>12, <1>13

\* A session that is opened was not; a live one stays live until the crash.
LEMMA LiveStep ==
  ASSUME [Next]_vars
  PROVE  /\ Crash \/ live \subseteq live'
         /\ \A i \in live' : i \in live \/ Open(i)
         /\ compacted \subseteq compacted'
         /\ Crash => live' = {} /\ \A p \in Prompts : job'[p].at \notin {"queued", "held", "run", "save"}
<1>1. ASSUME NEW i \in Ids, Open(i)
      PROVE  live' = live \cup {i} /\ compacted' = compacted /\ ~Crash
  <2>1. i \in live' BY <1>1 DEF Open
  <2>2. Crash => live' = {} BY DEF Crash
  <2> QED BY <1>1, <2>1, <2>2 DEF Open
<1>2. ASSUME Crash
      PROVE  /\ live' = {} /\ compacted' = compacted
             /\ \A p \in Prompts : job'[p].at \notin {"queued", "held", "run", "save"}
  BY <1>2 DEF Crash, Active, Job
<1>3. ASSUME SaveCompact PROVE live' = live /\ compacted \subseteq compacted' BY <1>3 DEF SaveCompact
<1>4. ASSUME \/ \E j \in Ids : StartCompact(j)
             \/ \E p \in Prompts, j \in Ids : CallPrompt(p, j)
             \/ \E p \in Prompts : \/ Lock(p) \/ Prepare(p) \/ RunReturns(p)
                                   \/ Overflows(p) \/ Save(p)
             \/ \E j, new \in Ids : Fork(j, new)
             \/ EnvChanges \/ UNCHANGED vars
      PROVE  live' = live /\ compacted' = compacted
  BY <1>4 DEF StartCompact, CallPrompt, Lock, Prepare, RunReturns, Overflows, Save, Fork, EnvChanges, vars
<1> QED BY <1>1, <1>2, <1>3, <1>4, Steps

\* Only the prompt that holds runMu touches the transcript in memory (session.go, Prompt).
LEMMA Alone ==
  ASSUME Typed, TurnInv, [Next]_vars, NEW p \in Prompts, job[p].at \in {"held", "run", "save"},
         ~Crash, ~Prepare(p), ~Overflows(p), ~RunReturns(p)
  PROVE  mem'[job[p].id] = mem[job[p].id]
<1> DEFINE i == job[p].id
<1>1. i \in Ids /\ i \in live BY DEF TurnInv, Active
<1>2. ~Open(i) BY <1>1 DEF Open
<1>3. ASSUME NEW q \in Prompts, job[q].id = i, Prepare(q) \/ Overflows(q) \/ RunReturns(q)
      PROVE  FALSE
  <2>1. job[q].at \in {"held", "run"} BY <1>3 DEF Prepare, Overflows, RunReturns
  <2>2. holder[i] = p /\ holder[i] = q BY <1>1, <1>3, <2>1 DEF Typed, Locks
  <2> QED BY <1>3, <2>2
<1> QED BY <1>1, <1>2, <1>3, MemStep

\* The base a prompt runs on is the transcript in memory, whose block it knows, and
\* what it saves is that transcript.
LEMMA TurnStep ==
  ASSUME Typed, TurnInv, TranscriptIsWhatTheModelSaw, [Next]_vars
  PROVE  TurnInv' /\ TranscriptIsWhatTheModelSaw'
<1> DEFINE Turn(p) ==
             /\ job'[p].at # "idle" => job'[p].id \in Ids
             /\ job'[p].at \in {"queued", "held", "run", "save"} => job'[p].id \in live'
             /\ job'[p].at = "run" =>
                  /\ mem'[job'[p].id] = job'[p].base
                  /\ job'[p].block # NoBlock => ShowsOther(job'[p].base, job'[p].block)
             /\ job'[p].at = "save" => job'[p].state = mem'[job'[p].id]
           Saw(p) == job'[p].at = "save" =>
                       mem'[job'[p].id] = job'[p].base \o Asked(p)' \o job'[p].new
<1>1. /\ mem \in [Ids -> Seq(Entries)] /\ job \in [Prompts -> Jobs] /\ StateInv /\ env \in Blocks
  BY DEF Typed, StateInv
<1>2. ASSUME NEW p \in Prompts
      PROVE  /\ job[p].at # "idle" => job[p].id \in Ids
             /\ job[p].at \in {"queued", "held", "run", "save"} => job[p].id \in live
             /\ job[p].at = "run" =>
                  /\ mem[job[p].id] = job[p].base
                  /\ job[p].block # NoBlock => ShowsOther(job[p].base, job[p].block)
             /\ job[p].at = "save" => job[p].state = mem[job[p].id]
  BY DEF TurnInv, Active
<1>3. ASSUME NEW p \in Prompts PROVE Turn(p) /\ Saw(p)
  <2>1. CASE Prepare(p)
    <3>1. job[p].at = "held" /\ live' = live BY <2>1 DEF Prepare
    <3>2. job[p].id \in Ids /\ job[p].id \in live BY <1>2, <3>1
    <3>3. CASE Moves(p, "error") BY <3>2, <3>3 DEF Moves
    <3>4. CASE ~Moves(p, "error")
      <4>1. PICK b \in Seq(Entries) :
              /\ Moves(p, "run") /\ mem' = [mem EXCEPT ![job[p].id] = b] /\ job'[p].base = b
              /\ job'[p].block # NoBlock => Fresh(b, job'[p].block)
        BY <1>1, <2>1, <3>2, <3>4, Prepared
      <4>2. job'[p].at = "run" /\ job'[p].id = job[p].id BY <4>1 DEF Moves
      <4>3. mem'[job[p].id] = b BY <1>1, <3>2, <4>1
      <4>4. job'[p].block # NoBlock => ShowsOther(b, job'[p].block) BY <4>1, FreshIsOther
      <4> QED BY <3>1, <3>2, <4>1, <4>2, <4>3, <4>4
    <3> QED BY <3>3, <3>4
  <2>2. CASE Overflows(p)
    <3>1. job[p].at = "run" BY <2>2 DEF Overflows
    <3>2. job[p].id \in Ids /\ job[p].id \in live BY <1>2, <3>1
    <3>3. PICK o \in Seq(Entries) : \E d :
            /\ MarkedTail(job[p].base, d, o) /\ live' = live
            /\ Moves(p, "run") /\ mem' = [mem EXCEPT ![job[p].id] = o]
            /\ job'[p].base = o /\ job'[p].block = job[p].block
      BY <1>1, <2>2, <3>2, Overflowed
    <3>4. job'[p].at = "run" /\ job'[p].id = job[p].id BY <3>3 DEF Moves
    <3>5. mem'[job[p].id] = o BY <1>1, <3>2, <3>3
    <3>6. job[p].block # NoBlock => ShowsOther(o, job[p].block)
      BY <1>2, <3>1, <3>3, ShowsOtherTailed
    <3> QED BY <3>2, <3>3, <3>4, <3>5, <3>6
  <2>3. CASE RunReturns(p)
    <3>1. job[p].at = "run" BY <2>3 DEF RunReturns
    <3>2. job[p].id \in Ids /\ job[p].id \in live /\ mem[job[p].id] = job[p].base BY <1>2, <3>1
    <3>3. /\ live' = live /\ Moves(p, "save") /\ Asked(p)' = Asked(p)
          /\ job'[p].base = job[p].base /\ job'[p].new \in Runs(p)
          /\ mem' = [mem EXCEPT ![job[p].id] = mem[job[p].id] \o (Asked(p) \o job'[p].new)]
          /\ job'[p].state = mem'[job[p].id]
      BY <1>1, <2>3, <3>2, Ran
    <3>4. job'[p].at = "save" /\ job'[p].id = job[p].id BY <3>3 DEF Moves
    <3>5. mem'[job[p].id] = mem[job[p].id] \o (Asked(p) \o job'[p].new) BY <1>1, <3>2, <3>3
    <3>6. (mem[job[p].id] \o Asked(p)) \o job'[p].new = mem[job[p].id] \o (Asked(p) \o job'[p].new)
      <4>1. \A m \in Seq(Entries) : (m \o Asked(p)) \o job'[p].new = m \o (Asked(p) \o job'[p].new)
        BY <1>1, <3>3, Adds, Zenon
      <4>2. mem[job[p].id] \in Seq(Entries) BY <1>1, <3>2 DEF StateInv, Jobs
      <4> QED BY <4>1, <4>2, Zenon
    <3>7. Turn(p) BY <3>2, <3>3, <3>4
    <3>8. Saw(p) BY <3>2, <3>3, <3>4, <3>5, <3>6
    <3> QED BY <3>7, <3>8
  <2>4. CASE Save(p)
    <3>1. job[p].at = "save" BY <2>4 DEF Save
    <3>2. job[p].id \in Ids BY <1>2, <3>1
    <3>3. PICK at \in {"ok", "error"} : Return(p, at) BY <2>4 DEF Save
    <3>4. at \in Stages BY DEF Stages
    <3>5. job'[p].at = at /\ job'[p].id = job[p].id BY <1>1, <3>3, <3>4, Moved DEF Moves
    <3> QED BY <3>2, <3>5
  <2>5. CASE job[p].at = "queued" /\ Lock(p) /\ Moves(p, "held")
    <3>1. job'[p].at = "held" /\ job'[p].id = job[p].id /\ live' = live BY <2>5 DEF Moves, Lock
    <3> QED BY <1>2, <2>5, <3>1
  <2>6. ASSUME NEW i \in Ids, CallPrompt(p, i), job'[p] = Job("queued", i) PROVE Turn(p) /\ Saw(p)
    <3>1. job'[p].at = "queued" /\ job'[p].id = i /\ i \in live' BY <2>6 DEF Job, CallPrompt
    <3> QED BY <3>1
  <2>7. CASE job[p].at # "idle" /\ job'[p] = Job("lost", job[p].id)
    <3>1. job'[p].at = "lost" /\ job'[p].id = job[p].id BY <2>7 DEF Job
    <3> QED BY <1>2, <2>7, <3>1
  <2>8. CASE job'[p] = job[p] /\ ~Prepare(p) /\ ~Overflows(p) /\ ~RunReturns(p)
    <3>1. CASE Crash
      <4>1. job'[p].at \notin {"queued", "held", "run", "save"} BY <3>1, LiveStep
      <4> QED BY <1>2, <2>8, <4>1
    <3>2. CASE ~Crash
      <4>1. live \subseteq live' BY <3>2, LiveStep
      <4>2. job[p].at \in {"run", "save"} => mem'[job[p].id] = mem[job[p].id] BY <2>8, <3>2, Alone
      <4>3. Asked(p)' = Asked(p) BY <2>8 DEF Asked
      <4>4. Turn(p) BY <1>2, <2>8, <4>1, <4>2
      <4>5. Saw(p) BY <2>8, <4>2, <4>3 DEF TranscriptIsWhatTheModelSaw
      <4> QED BY <4>4, <4>5
    <3> QED BY <3>1, <3>2
  <2>9. Active(p) => job[p].at # "idle" BY DEF Active
  <2> QED BY <2>1, <2>2, <2>3, <2>4, <2>5, <2>6, <2>7, <2>8, <2>9, Progress
<1>4. TurnInv' BY <1>3 DEF TurnInv, Active
<1>5. TranscriptIsWhatTheModelSaw' BY <1>3 DEF TranscriptIsWhatTheModelSaw
<1> QED BY <1>4, <1>5

\* What a run appends leaves what the transcript was a prefix, and a marker first.
LEMMA RunExtends ==
  ASSUME Typed, TurnInv, NEW p \in Prompts, NEW i \in Ids, job[p].id = i, RunReturns(p)
  PROVE  \E e \in Seq(Entries) :
           /\ mem'[i] = mem[i] \o e /\ e = Asked(p) \o job'[p].new
           /\ Addition(e, p, job[p].block)
           /\ live' = live /\ disk' = disk /\ compacted' = compacted
           /\ Asked(p)' = Asked(p)
<1>1. StateInv /\ mem \in [Ids -> Seq(Entries)] BY DEF Typed, StateInv
<1>2. /\ job'[p].new \in Runs(p) /\ live' = live /\ disk' = disk /\ compacted' = compacted
      /\ mem' = [mem EXCEPT ![i] = mem[i] \o (Asked(p) \o job'[p].new)]
      /\ Asked(p)' = Asked(p)
  BY <1>1, Ran
<1> DEFINE e == Asked(p) \o job'[p].new
<1>3. Addition(e, p, job[p].block) BY <1>1, <1>2, Adds
<1>4. mem'[i] = mem[i] \o e BY <1>1, <1>2
<1>5. e \in Seq(Entries) BY <1>3 DEF Addition
<1> QED BY <1>2, <1>3, <1>4, <1>5

\* Memory never has less than the store, but for a compaction of the two.
LEMMA StoreStep ==
  ASSUME Typed, Typed', TurnInv, StoreInv, [Next]_vars
  PROVE  StoreInv'
<1>1. /\ mem \in [Ids -> Seq(Entries)] /\ disk \in [Ids -> Seq(Entries) \cup {Absent}]
      /\ mem' \in [Ids -> Seq(Entries)] /\ live \subseteq Ids /\ live' \subseteq Ids
  BY DEF Typed, StateInv
<1> SUFFICES ASSUME NEW i \in live', i \notin compacted', disk'[i] # Absent
             PROVE  IsPrefix(disk'[i], mem'[i]) \/ Marked(mem'[i])
  BY DEF StoreInv
<1>2. i \in Ids /\ ~Crash /\ i \notin compacted BY <1>1, LiveStep
<1>3. CASE Open(i)
  <2>1. disk' = disk /\ mem'[i] = disk[i] BY <1>1, <1>2, <1>3 DEF Open
  <2> QED BY <1>1, <1>2, <2>1, PrefixOfItself
<1>4. CASE ~Open(i)
  <2>1. i \in live BY <1>4, LiveStep
  <2>2. disk[i] # Absent => IsPrefix(disk[i], mem[i]) \/ Marked(mem[i]) BY <1>2, <2>1 DEF StoreInv
  <2>3. CASE \E d : MarkedTail(mem[i], d, mem'[i]) BY <2>3 DEF MarkedTail
  <2>4. ASSUME NEW p \in Prompts, job[p].id = i, RunReturns(p)
        PROVE  IsPrefix(disk'[i], mem'[i]) \/ Marked(mem'[i])
    <3>1. PICK e \in Seq(Entries) : /\ mem'[i] = mem[i] \o e /\ Addition(e, p, job[p].block)
                                     /\ disk' = disk
      BY <1>2, <2>4, RunExtends
    <3>2. disk[i] \in Seq(Entries) /\ mem[i] \in Seq(Entries) BY <1>1, <1>2, <3>1
    <3>3. CASE IsPrefix(disk[i], mem[i]) BY <3>1, <3>2, <3>3, PrefixExtended
    <3>4. CASE Marked(mem[i]) BY <3>1, <3>2, <3>4, KeepsExtended
    <3> QED BY <2>2, <3>1, <3>3, <3>4
  <2>5. CASE mem'[i] = mem[i]
    <3>1. CASE disk'[i] = disk[i] BY <2>2, <2>5, <3>1
    <3>2. CASE disk'[i] = mem[i] BY <1>1, <1>2, <2>5, <3>2, PrefixOfItself
    <3>3. ASSUME NEW j \in Ids, Fork(j, i) PROVE FALSE BY <2>1, <3>3 DEF Fork
    <3> QED BY <1>2, <3>1, <3>2, <3>3, DiskStep
  <2> QED BY <1>2, <1>4, <2>3, <2>4, <2>5, MemStep
<1> QED BY <1>3, <1>4

\* A prompt that was answered stays whole, or the suffix a compaction spared, in memory
\* and in the store.
LEMMA AnswerStep ==
  ASSUME Typed, Typed', TurnInv, UnaskedInv, SavedInv, AnswerInv, AnsweredIsStored, [Next]_vars
  PROVE  SavedInv' /\ AnswerInv' /\ AnsweredIsStored'
<1> DEFINE Saved(p) == job'[p].at = "save" =>
                         Keeps(mem'[job'[p].id], p, Asked(p)' \o job'[p].new)
           Answer(p) == job'[p].at = "ok" =>
                          /\ disk'[job'[p].id] # Absent
                          /\ job'[p].id \in live' /\ job'[p].id \notin compacted' =>
                               Keeps(mem'[job'[p].id], p, Asked(p)' \o job'[p].new)
           Stored(p) == job'[p].at = "ok" /\ job'[p].id \notin compacted' =>
                          Keeps(disk'[job'[p].id], p, Asked(p)' \o job'[p].new)
<1>1. /\ mem \in [Ids -> Seq(Entries)] /\ disk \in [Ids -> Seq(Entries) \cup {Absent}]
      /\ job \in [Prompts -> Jobs] /\ StateInv
      /\ compacting.out \in Seq(Entries) /\ Absent \notin Seq(Entries)
  BY Messaging DEF Typed, StateInv
<1>2. ASSUME NEW p \in Prompts PROVE job[p].at # "idle" => job[p].id \in Ids BY DEF TurnInv
<1>3. compacted \subseteq compacted' BY LiveStep
<1>4. ASSUME NEW p \in Prompts, RunReturns(p) PROVE Saved(p) /\ Answer(p) /\ Stored(p)
  <2>1. job[p].at = "run" BY <1>4 DEF RunReturns
  <2>2. job[p].id \in Ids BY <1>2, <2>1
  <2>3. PICK e \in Seq(Entries) :
          /\ mem'[job[p].id] = mem[job[p].id] \o e /\ e = Asked(p) \o job'[p].new
          /\ Addition(e, p, job[p].block) /\ Asked(p)' = Asked(p)
    BY <1>4, <2>2, RunExtends
  <2>4. job'[p].at = "save" /\ job'[p].id = job[p].id BY <1>1, <1>4, <2>2, Ran DEF Moves
  <2>5. Without(mem[job[p].id], p)
    <3>1. mem[job[p].id] \in Transcripts BY <1>1, <2>2 DEF Transcripts
    <3> QED BY <2>1, <3>1 DEF UnaskedInv, Without
  <2>6. mem[job[p].id] \in Seq(Entries) BY <1>1, <2>2
  <2>7. Keeps(mem[job[p].id] \o e, p, e) BY <2>3, <2>5, <2>6, KeepsExtended
  <2> QED BY <2>3, <2>4, <2>7
<1>5. ASSUME NEW p \in Prompts, Save(p) PROVE Saved(p) /\ Answer(p) /\ Stored(p)
  <2>1. job[p].at = "save" /\ mem' = mem BY <1>5 DEF Save
  <2>2. job[p].id \in Ids /\ job[p].state = mem[job[p].id] BY <2>1 DEF TurnInv
  <2>3. Keeps(mem[job[p].id], p, Asked(p) \o job[p].new) BY <2>1 DEF SavedInv
  <2>4. PICK at \in {"ok", "error"} :
          /\ Return(p, at)
          /\ at = "ok" => disk' = [disk EXCEPT ![job[p].id] = job[p].state]
    BY <1>5 DEF Save
  <2>5. at \in Stages BY DEF Stages
  <2>6. /\ job'[p] = [job[p] EXCEPT !.at = at] /\ job'[p].at = at /\ job'[p].id = job[p].id
    BY <1>1, <2>4, <2>5, Moved DEF Moves
  <2>7. job'[p].block = job[p].block /\ job'[p].new = job[p].new BY <1>1, <2>6 DEF Jobs
  <2>8. Asked(p)' = Asked(p) BY <2>7 DEF Asked
  <2>9. at = "ok" => disk'[job[p].id] = mem[job[p].id] BY <1>1, <2>2, <2>4
  <2>10. mem[job[p].id] # Absent BY <1>1, <2>2
  <2> QED BY <2>1, <2>3, <2>6, <2>7, <2>8, <2>9, <2>10
<1>6. ASSUME NEW p \in Prompts, job'[p] = job[p], ~RunReturns(p), ~Save(p)
      PROVE  Saved(p) /\ Answer(p) /\ Stored(p)
  <2> DEFINE i == job[p].id
             all == Asked(p) \o job[p].new
  <2>1. Asked(p)' = Asked(p) BY <1>6 DEF Asked
  <2>2. Len(all) \in Nat BY <1>1, AskedTyped
  <2>3. Asked(p)' \o job'[p].new = all /\ job'[p].id = i BY <1>6, <2>1
  <2> HIDE DEF all
  <2>4. Saved(p)
    <3> SUFFICES ASSUME job[p].at = "save" PROVE Keeps(mem'[i], p, all) BY <1>6, <2>3
    <3>1. Keeps(mem[i], p, all) BY DEF SavedInv, all
    <3>2. ~Prepare(p) /\ ~Overflows(p) BY DEF Prepare, Overflows
    <3>3. ~Crash BY <1>6, LiveStep
    <3> QED BY <1>6, <3>1, <3>2, <3>3, Alone
  <2>5. ASSUME job[p].at = "ok"
        PROVE  /\ i \in Ids /\ disk[i] # Absent /\ disk[i] \in Seq(Entries)
               /\ i \in live /\ i \notin compacted => Keeps(mem[i], p, all)
               /\ i \notin compacted => Keeps(disk[i], p, all)
    BY <1>1, <1>2, <2>5 DEF AnswerInv, AnsweredIsStored, all
  <2>6. ASSUME job[p].at = "ok" PROVE disk'[i] # Absent
    <3>1. CASE disk'[i] = disk[i] BY <2>5, <2>6, <3>1
    <3>2. CASE disk'[i] = mem[i] \/ disk'[i] = compacting.out BY <1>1, <2>5, <2>6, <3>2
    <3>3. ASSUME NEW m, NEW n, Prefix(m, n, disk'[i]) PROVE disk'[i] # Absent
      BY <1>1, <3>3 DEF Prefix
    <3> QED BY <2>5, <2>6, <3>1, <3>2, <3>3, DiskStep
  <2>7. ASSUME job[p].at = "ok", i \in live', i \notin compacted' PROVE Keeps(mem'[i], p, all)
    <3>1. ~Crash /\ i \notin compacted BY <1>3, <2>7, LiveStep
    <3>2. CASE Open(i)
      <4>1. mem'[i] = disk[i] BY <1>1, <2>5, <2>7, <3>2 DEF Open
      <4> QED BY <2>5, <2>7, <3>1, <4>1
    <3>3. CASE ~Open(i)
      <4>1. i \in live BY <2>7, <3>3, LiveStep
      <4>2. Keeps(mem[i], p, all) /\ mem[i] \in Seq(Entries) BY <1>1, <2>5, <2>7, <3>1, <4>1
      <4>3. CASE mem'[i] = mem[i] BY <4>2, <4>3
      <4>4. CASE \E d : MarkedTail(mem[i], d, mem'[i]) BY <2>2, <4>2, <4>4, KeepsTailed
      <4>5. ASSUME NEW q \in Prompts, job[q].id = i, RunReturns(q) PROVE Keeps(mem'[i], p, all)
        <5>1. q # p BY <1>6, <4>5
        <5>2. PICK e \in Seq(Entries) : mem'[i] = mem[i] \o e /\ Addition(e, q, job[q].block)
          BY <2>5, <2>7, <4>5, RunExtends
        <5> QED BY <2>2, <4>2, <5>1, <5>2, KeepsExtended
      <4> QED BY <2>5, <2>7, <3>1, <3>3, <4>3, <4>4, <4>5, MemStep
    <3> QED BY <3>2, <3>3
  <2>8. ASSUME job[p].at = "ok", i \notin compacted' PROVE Keeps(disk'[i], p, all)
    <3>1. i \in Ids /\ i \notin compacted /\ Keeps(disk[i], p, all) BY <1>3, <2>5, <2>8
    <3>2. CASE disk'[i] = disk[i] BY <3>1, <3>2
    <3>3. ASSUME NEW q \in Prompts, Save(q), job[q].id = i, disk'[i] = mem[i]
          PROVE  Keeps(disk'[i], p, all)
      <4>1. job[q].at = "save" BY <3>3 DEF Save
      <4>2. i \in live BY <3>3, <4>1 DEF TurnInv, Active
      <4> QED BY <2>5, <2>8, <3>1, <3>3, <4>2
    <3>4. ASSUME NEW j \in Ids, Fork(j, i) PROVE FALSE BY <2>5, <2>8, <3>4 DEF Fork
    <3> QED BY <2>8, <3>1, <3>2, <3>3, <3>4, DiskStep
  <2> QED BY <1>6, <2>3, <2>4, <2>6, <2>7, <2>8
<1>7. ASSUME NEW p \in Prompts, job'[p].at \notin {"save", "ok"}
      PROVE  Saved(p) /\ Answer(p) /\ Stored(p)
  BY <1>7
<1>8. ASSUME NEW p \in Prompts PROVE Saved(p) /\ Answer(p) /\ Stored(p)
  <2>1. CASE Prepare(p)
    <3>1. job[p].id \in Ids BY <1>2, <2>1 DEF Prepare
    <3>2. env \in Blocks BY DEF Typed
    <3>3. job'[p].at \in {"run", "error"} BY <1>1, <2>1, <3>1, <3>2, Prepared DEF Moves
    <3> QED BY <1>7, <3>3
  <2>2. CASE Overflows(p)
    <3>1. job[p].id \in Ids BY <1>2, <2>2 DEF Overflows
    <3>2. job'[p].at = "run" BY <1>1, <2>2, <3>1, Overflowed DEF Moves
    <3> QED BY <1>7, <3>2
  <2>3. CASE Moves(p, "held")
    <3>1. job'[p].at = "held" BY <2>3 DEF Moves
    <3> QED BY <1>7, <3>1
  <2>4. CASE \E i \in Ids : job'[p] = Job("queued", i)
    <3>1. job'[p].at = "queued" BY <2>4 DEF Job
    <3> QED BY <1>7, <3>1
  <2>5. CASE job'[p] = Job("lost", job[p].id)
    <3>1. job'[p].at = "lost" BY <2>5 DEF Job
    <3> QED BY <1>7, <3>1
  <2> HIDE DEF Saved, Answer, Stored
  <2> QED BY <1>4, <1>5, <1>6, <2>1, <2>2, <2>3, <2>4, <2>5, Progress
<1>9. SavedInv' BY <1>8 DEF SavedInv
<1>10. AnswerInv' BY <1>8 DEF AnswerInv
<1>11. AnsweredIsStored' BY <1>8 DEF AnsweredIsStored
<1> QED BY <1>9, <1>10, <1>11

-----------------------------------------------------------------------------
(* The theorems. *)

LEMMA Start == Init => IInv
<1> SUFFICES ASSUME Init PROVE IInv OBVIOUS
<1>1. /\ live = {} /\ mem = [i \in Ids |-> <<>>] /\ disk = [i \in Ids |-> Absent]
      /\ holder = [i \in Ids |-> None] /\ job = [p \in Prompts |-> Job("idle", None)]
      /\ env \in Blocks /\ compacting = NoCompaction /\ compacted = {} /\ crashes = 0
  BY DEF Init
<1>2. <<>> \in Seq(Entries) /\ "idle" \in Stages BY DEF Stages
<1>3. Job("idle", None) \in Jobs BY <1>2, SessionAssumption DEF Job, Jobs
<1>4. StateInv
  <2>1. NoCompaction \in [id : Ids \cup {None}, out : Seq(Entries)] BY <1>2 DEF NoCompaction
  <2> QED BY <1>1, <1>2, <1>3, <2>1 DEF StateInv
<1>5. \A p \in Prompts : job[p].at = "idle" BY <1>1 DEF Job
<1>6. Locks BY <1>1, <1>5, SessionAssumption DEF Locks
<1>7. TypeOK BY <1>1, <1>4, <1>6, SessionAssumption, TypedIsTypeOK DEF Typed
<1>8. \A m \in Transcripts : m = <<>> BY <1>1 DEF Transcripts, NoCompaction
<1>9. SoundInv BY <1>8, EmptySound DEF SoundInv, Sound
<1>10. UnaskedInv BY <1>8, EmptySound DEF UnaskedInv, Without
<1>11. TurnInv /\ StoreInv /\ AnswerInv /\ SavedInv /\ TranscriptIsWhatTheModelSaw /\ AnsweredIsStored
  BY <1>1, <1>5 DEF TurnInv, Active, StoreInv, AnswerInv, SavedInv, TranscriptIsWhatTheModelSaw,
                    AnsweredIsStored
<1> QED BY <1>4, <1>7, <1>9, <1>10, <1>11 DEF IInv

LEMMA EveryStep == IInv /\ [Next]_vars => IInv'
<1> SUFFICES ASSUME IInv, [Next]_vars PROVE IInv' OBVIOUS
<1>1. Typed /\ TurnInv /\ SoundInv /\ UnaskedInv /\ StoreInv /\ SavedInv /\ AnswerInv
      /\ TranscriptIsWhatTheModelSaw /\ AnsweredIsStored
  BY TypedIsTypeOK DEF IInv
<1>2. Typed' BY <1>1, TypedStep
<1>3. StateInv' /\ TypeOK'
  <2>1. StateInv' /\ Locks' /\ live' \subseteq Ids /\ compacted' \subseteq Ids /\ env' \in Blocks
        /\ crashes' \in 0 .. MaxCrashes
    BY <1>2 DEF Typed
  <2>2. /\ \A i \in Ids : mem'[i] \in Seq(Entries) /\ disk'[i] \in Seq(Entries) \cup {Absent}
        /\ \A p \in Prompts : job'[p].at \in Stages /\ job'[p].id \in Ids \cup {None}
    BY <2>1 DEF StateInv, Jobs
  <2> QED BY <2>1, <2>2 DEF TypeOK, Locks
<1>4. SoundInv' /\ UnaskedInv' BY <1>1, <1>2, SoundStep
<1>5. TurnInv' /\ TranscriptIsWhatTheModelSaw' BY <1>1, TurnStep
<1>6. StoreInv' BY <1>1, <1>2, StoreStep
<1>7. SavedInv' /\ AnswerInv' /\ AnsweredIsStored' BY <1>1, <1>2, AnswerStep
<1> QED BY <1>3, <1>4, <1>5, <1>6, <1>7 DEF IInv

\* The strengthening holds throughout: whatever prompts, crashes, forks and compactions
\* interleave, every transcript kept anywhere is whole and free of prompts to come
\* (session.go, Session.Prompt under runMu).
THEOREM SessionInductive == Spec => []IInv
<1>1. Init => IInv BY Start
<1>2. IInv /\ [Next]_vars => IInv' BY EveryStep
<1> QED BY <1>1, <1>2, PTL DEF Spec

\* What a session keeps is what was said in it: the transcript saved is the base the
\* model was sent and its answer, a prompt's messages stand together behind at most one
\* marker, and consecutive environment blocks differ (session.go, Prompt,
\* lastEnvContextText and maybeCompact).
THEOREM TranscriptsStaySound == Spec => []TranscriptsAreSound
<1>1. IInv => TranscriptsAreSound
  <2> SUFFICES ASSUME IInv PROVE TranscriptsAreSound OBVIOUS
  <2>1. TypeOK /\ TranscriptIsWhatTheModelSaw /\ SoundInv /\ StateInv BY DEF IInv
  <2>2. \A i \in Ids : mem[i] \in Transcripts /\ (disk[i] # Absent => disk[i] \in Transcripts)
    BY <2>1, Messaging DEF StateInv, Transcripts
  <2>3. TranscriptsWellFormed /\ BlocksOnChange
    BY <2>1, <2>2 DEF SoundInv, TranscriptsWellFormed, BlocksOnChange
  <2> QED BY <2>1, <2>3 DEF TranscriptsAreSound
<1> QED BY <1>1, SessionInductive, PTL

\* A prompt that returned without error stays in the store, over restarts, forks and
\* the saves of other prompts, whole or as the suffix a compaction kept; only /compact
\* may write it over (session.go, the Save before Prompt returns).
THEOREM AnswersStayStored == Spec => []AnsweredIsStored
<1>1. IInv => AnsweredIsStored BY DEF IInv
<1> QED BY <1>1, SessionInductive, PTL

\* No save, fork or restart takes the store back: a stored transcript is extended or
\* replaced by a compaction (session.go, the copy of the messages saved under runMu;
\* cmd/glue/tui/tui.go, the fork to an id nobody has used).
THEOREM StoreOnlyGrows == Spec => StoreNeverGoesBack
<1> DEFINE Grows == \A i \in Ids : disk[i] # Absent /\ i \notin compacted =>
                      IsPrefix(disk[i], disk'[i]) \/ Marked(disk'[i])
<1>1. IInv /\ [Next]_vars => [Grows]_vars
  <2> SUFFICES ASSUME IInv, [Next]_vars, NEW i \in Ids, disk[i] # Absent, i \notin compacted
               PROVE  IsPrefix(disk[i], disk'[i]) \/ Marked(disk'[i])
    OBVIOUS
  <2>1. Typed /\ TurnInv /\ StoreInv BY TypedIsTypeOK DEF IInv
  <2>2. disk[i] \in Seq(Entries) BY <2>1 DEF Typed, StateInv
  <2>3. CASE disk'[i] = disk[i] BY <2>2, <2>3, PrefixOfItself
  <2>4. ASSUME NEW p \in Prompts, Save(p), job[p].id = i, disk'[i] = mem[i]
        PROVE  IsPrefix(disk[i], disk'[i]) \/ Marked(disk'[i])
    <3>1. job[p].at = "save" BY <2>4 DEF Save
    <3>2. i \in live BY <2>1, <2>4, <3>1 DEF TurnInv, Active
    <3> QED BY <2>1, <2>4, <3>2 DEF StoreInv
  <2>5. ASSUME NEW j \in Ids, Fork(j, i) PROVE FALSE BY <2>5 DEF Fork
  <2>6. CASE SaveCompact /\ disk'[i] = compacting.out
    <3>1. Marked(compacting.out) BY <2>1, <2>6 DEF Typed, StateInv, SaveCompact
    <3> QED BY <2>6, <3>1
  <2> QED BY <2>1, <2>3, <2>4, <2>5, <2>6, DiskStep
<1>2. Spec => [][Grows]_vars BY <1>1, SessionInductive, PTL DEF Spec
<1> QED BY <1>2 DEF StoreNeverGoesBack
=============================================================================

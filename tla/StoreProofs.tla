------------------------------- MODULE StoreProofs -----------------------------
(***************************************************************************)
(* What is on the disk and in memory is what users were told, through      *)
(* reads and writes that take a line at a time, stops and starts.          *)
(***************************************************************************)
EXTENDS Store, FiniteSetTheorems, WellFoundedInduction, SequenceTheorems, TLAPS

-----------------------------------------------------------------------------
(* The types of all there is. *)

\* Fields of a site: no key is there twice.
Map(s) == \A i, j \in DOMAIN s : s[i].key = s[j].key /\ s[i].key # NoKey => i = j
Fields == {s \in Seq(Slot) : Map(s)}

Held == [tag: 1 .. MaxSites, named: BOOLEAN, extra: Fields]
SiteLine == [tag: 1 .. MaxSites, extra: Fields]
UserLine == Login \cup {Mute}
Line(f) == (IF f = "users" THEN UserLine ELSE SiteLine) \cup {Hole[f]}
FileOf(f) == [there: BOOLEAN, lines: Seq(Line(f))]
WriterOf(f) == [table: {f}, dir: Dir, at: Nat \ {0}, lines: Seq(Line(f))]
File == FileOf("users") \cup FileOf("sites")
Writer == WriterOf("users") \cup WriterOf("sites")

ControlType ==
  /\ pc \in {"down", "settings", "wait", "up"} /\ args \in Arguments
  /\ home \in BOOLEAN /\ where \in Dir /\ saveAll \in BOOLEAN
  /\ port \in {"default", "file"} /\ conf \in [Dir -> {"none", "default", "file"}]
  /\ pc = "settings" => conf[where] # "none"
  /\ starts \in 0 .. MaxStarts
TableType == users \in Seq(Login) /\ sites \in Seq(Held) /\ mute \in BOOLEAN /\ warned \in BOOLEAN
ToldType ==
  /\ cmds \in 0 .. MaxCmds /\ wanted \subseteq 1 .. MaxSites
  /\ \E us \in SUBSET User : passes \in [us -> {"old", "new"}]
OddType == odd \subseteq {"early", "overlap", "torn", "halfway", "moved"}
DiskType ==
  /\ disk \in [Dir -> [Table -> File]]
  /\ \A d \in Dir, f \in Table : disk[d][f] \in FileOf(f)
OpenType ==
  /\ handle \in [Table -> BOOLEAN] /\ reader \in [Table -> [dir: Dir, at: Nat]]
  /\ writers \in Seq(Writer)

TypeInv == ControlType /\ TableType /\ ToldType /\ OddType /\ DiskType /\ OpenType

-----------------------------------------------------------------------------
(* As long as nothing odd has happened. *)

\* The directory that the engine is started in, once it has a home, and the one that
\* has the tables.
Base == IF args.cwd THEN "cwd" ELSE "home"
Data == IF ~home \/ saveAll THEN "cwd" ELSE Base

Book == {<<u, passes[u]>> : u \in DOMAIN passes}
Unlike(t) == \A i, j \in DOMAIN t : t[i][1] = t[j][1] => i = j
GoodUsers(t) == Unlike(t) /\ Passes(t) = Book

Untwined(t) == \A i, j \in DOMAIN t : t[i].tag = t[j].tag => i = j
GoodSites(t) == Untwined(t) /\ {t[i].tag : i \in {j \in DOMAIN t : t[j].named}} = wanted

Before(ls) == [i \in 1 .. Len(ls) - 1 |-> ls[i]]
GoodUserLines(ls) ==
  ls # <<>> /\ Before(ls) \in Seq(Login) /\ GoodUsers(Before(ls)) /\ ls[Len(ls)] = Mute
GoodSiteLines(ls) == ls \in Seq(SiteLine) /\ Untwined(ls) /\ Tags(ls) = wanted

\* engine_workdir, and where the tables are.
ModeInv ==
  /\ (saveAll => pc \in {"settings", "wait"}) /\ (pc = "wait" => saveAll)
  /\ pc # "down" => home /\ where = Data
  /\ home <=> starts # 0
  /\ ~home =>
       /\ pc = "down" /\ ~saveAll
       /\ \A f \in Table : ~disk["home"][f].there
       /\ ~disk["cwd"]["sites"].there => ~disk["cwd"]["users"].there

\* Who has which file open.
Busy(f) == \E i \in DOMAIN writers : writers[i].table = f
OpenInv ==
  /\ ~Runs => writers = <<>> /\ \A f \in Table : ~Reading(f)
  /\ \A i \in DOMAIN writers :
       /\ writers[i].dir = where /\ handle[writers[i].table] /\ ~Reading(writers[i].table)
       /\ \A j \in DOMAIN writers : writers[i].table = writers[j].table => i = j
  /\ \A f \in Table : Reading(f) => handle[f] /\ reader[f].dir = where

\* A file that nobody writes.
UsersKept ==
  IF disk[Data]["users"].there THEN GoodUserLines(disk[Data]["users"].lines)
  ELSE Book = {<<Admin, "old">>}
SitesKept ==
  IF disk[Data]["sites"].there THEN GoodSiteLines(disk[Data]["sites"].lines) ELSE wanted = {}
FileInv ==
  /\ ~Busy("users") => UsersKept
  /\ ~Busy("sites") => SitesKept
  /\ Runs => disk[where]["users"].there

\* One that somebody writes: ls are to be written, and w has come so far with them.
Written(on, w, ls) ==
  /\ on.there /\ Len(on.lines) = w.at - 1 /\ \A j \in DOMAIN on.lines : on.lines[j] = ls[j]
  /\ Len(on.lines) + Len(w.lines) = Len(ls)
  /\ \A j \in DOMAIN w.lines : w.lines[j] = ls[w.at - 1 + j]
LinesOf(f) == IF f = "users" THEN UserLines(users) ELSE SiteLines(sites)
WriterInv ==
  \A i \in DOMAIN writers :
    Written(disk[writers[i].dir][writers[i].table], writers[i], LinesOf(writers[i].table))

\* A table that is being read has the lines read so far, the last of them first.
UsersSoFar(t, ls, at) ==
  /\ at <= Len(ls) + 1
  /\ Len(t) = IF at <= Len(ls) THEN at - 1 ELSE Len(ls) - 1
  /\ \A i \in DOMAIN t : t[i] = ls[Len(t) + 1 - i]
SitesSoFar(t, ls, at) ==
  /\ at <= Len(ls) + 1 /\ Len(t) = at - 1
  /\ \A i \in DOMAIN t : t[i].named /\ t[i].tag = ls[Len(t) + 1 - i].tag
UsersRead ==
  IF Reading("users") THEN UsersSoFar(users, disk[where]["users"].lines, reader["users"].at)
  ELSE GoodUsers(users)
SitesRead ==
  IF Reading("sites")
  THEN disk[where]["sites"].there /\ SitesSoFar(sites, disk[where]["sites"].lines, reader["sites"].at)
  ELSE GoodSites(sites)
ReaderInv == Runs => UsersRead /\ SitesRead

CleanInv == odd = {} => ModeInv /\ OpenInv /\ FileInv /\ WriterInv /\ ReaderInv

-----------------------------------------------------------------------------
(* When the engine died while it wrote, or was started elsewhere. *)

Names(t) == {t[i][1] : i \in DOMAIN t}
AllHere == DOMAIN passes \subseteq Names(users)

\* A file has the first lines of one that has all users.
Torn(ls, us) ==
  \E t \in Seq(Login) :
    /\ Names(t) = us
    /\ Len(ls) <= Len(t) + 1 /\ \A j \in DOMAIN ls : ls[j] = UserLines(t)[j]

\* A table has those before line at, and m says whether the last of all is there.
HalfRead(t, ls, at, m) ==
  /\ at <= Len(ls) + 1
  /\ Names(t) = {ls[j][1] : j \in {k \in 1 .. at - 1 : ls[k] # Mute}}
  /\ m <=> \E k \in 1 .. at - 1 : ls[k] = Mute

\* A first start with -D: the home is used, and at the second start it is not.
MovedInv ==
  /\ starts \in {1, 2} /\ home /\ ~saveAll /\ pc # "wait" /\ args.cwd /\ DOMAIN passes = {Admin}
  /\ starts = 1 =>
       /\ ~disk["cwd"]["users"].there
       /\ \A i \in DOMAIN writers : writers[i].dir = "home"
       /\ pc # "down" => where = "home"
       /\ ~Runs => writers = <<>>
  /\ starts = 2 =>
       /\ pc # "down" => where = "cwd"
       /\ pc = "settings" => ~disk["cwd"]["users"].there
       /\ Runs => ~Reading("users") /\ AllHere

\* The second start after a death.
TornThere ==
  IF disk[Base]["users"].there THEN Torn(disk[Base]["users"].lines, DOMAIN passes)
  ELSE DOMAIN passes = {Admin}
TornRead ==
  IF Reading("users")
  THEN /\ reader["users"].dir = where /\ ~Busy("users")
       /\ Torn(disk[where]["users"].lines, DOMAIN passes)
       /\ HalfRead(users, disk[where]["users"].lines, reader["users"].at, mute)
  ELSE AllHere \/ warned
TornInv ==
  /\ starts \in {1, 2} /\ home /\ ~saveAll /\ pc # "wait"
  /\ starts = 1 => pc = "down"
  /\ starts = 1 \/ pc = "settings" => TornThere
  /\ pc # "down" => where = Base
  /\ ~Runs => writers = <<>>
  /\ Runs => TornRead

WarnInv ==
  odd \subseteq {"torn", "moved"} /\ odd # {} /\ starts <= 2 =>
    IF "moved" \in odd THEN MovedInv ELSE TornInv

-----------------------------------------------------------------------------
(* Sets of positions. *)

\* The subsets of a finite set are those that are reached from smaller ones.
LEMMA SubsetsAll ==
  ASSUME NEW S, IsFiniteSet(S), NEW G \in SUBSET SUBSET S,
         \A T \in SUBSET S : (\A U \in SUBSET T : U # T => U \in G) => T \in G
  PROVE  \A T \in SUBSET S : T \in G
<1> SUFFICES ASSUME (SUBSET S) \ G # {}
             PROVE  FALSE
  OBVIOUS
<1> DEFINE Bad == (SUBSET S) \ G
           Smaller == StrictSubsetOrdering(S)
<1>1. IsWellFoundedOn(Smaller, SUBSET S)
  <2>1. FiniteSubsetsOf(S) = SUBSET S
    BY FS_FiniteSubsetsOfFinite, Zenon
  <2>2. IsWellFoundedOn(Smaller, FiniteSubsetsOf(S))
    BY FS_StrictSubsetOrderingWellFounded, Zenon
  <2> HIDE DEF Smaller
  <2> QED
    BY <2>1, <2>2
<1>2. Bad \subseteq SUBSET S /\ Bad # {}
  OBVIOUS
<1>3. PICK T \in Bad : \A U \in Bad : <<U, T>> \notin Smaller
  <2> HIDE DEF Bad, Smaller
  <2> QED
    BY <1>1, <1>2, WFMin
<1>4. \A U \in SUBSET T : U # T => U \in G
  <2> SUFFICES ASSUME NEW U \in SUBSET T, U # T, U \notin G
               PROVE  FALSE
    OBVIOUS
  <2>1. <<U, T>> \in Smaller
    BY DEF StrictSubsetOrdering
  <2> QED
    BY <1>3, <2>1
<1> QED
  BY <1>3, <1>4

\* Every one of n positions is the nth for one n.
LEMMA NthIs ==
  ASSUME NEW is \in SUBSET Nat, IsFiniteSet(is)
  PROVE  /\ Cardinality(is) \in Nat
         /\ \A n \in 1 .. Cardinality(is) : Nth(is, n) \in is
         /\ \A m, n \in 1 .. Cardinality(is) : Nth(is, m) = Nth(is, n) => m = n
         /\ \A i \in is : \E n \in 1 .. Cardinality(is) : Nth(is, n) = i
<1> DEFINE Below(i) == {j \in is : j < i}
           rank == [i \in is |-> Cardinality(Below(i)) + 1]
           c == Cardinality(is)
<1>1. c \in Nat
  BY FS_CardinalityType
<1>2. \A i \in is : /\ IsFiniteSet(Below(i)) /\ Cardinality(Below(i)) \in Nat
                    /\ Cardinality(Below(i)) + 1 <= c
  <2> TAKE i \in is
  <2>1. IsFiniteSet(is \ {i}) /\ Cardinality(is \ {i}) = c - 1
    BY FS_RemoveElement
  <2>2. Below(i) \in SUBSET (is \ {i})
    OBVIOUS
  <2>3. IsFiniteSet(Below(i)) /\ Cardinality(Below(i)) <= c - 1
    <3> HIDE DEF Below
    <3> QED
      BY <2>1, <2>2, FS_Subset
  <2>4. Cardinality(Below(i)) \in Nat
    <3> HIDE DEF Below
    <3> QED
      BY <2>3, FS_CardinalityType
  <2> QED
    BY <1>1, <2>3, <2>4
<1>3. \A i, k \in is : i < k => Cardinality(Below(i)) < Cardinality(Below(k))
  <2> TAKE i, k \in is
  <2> HAVE i < k
  <2>1. IsFiniteSet(Below(i) \cup {i}) /\ Cardinality(Below(i) \cup {i}) = Cardinality(Below(i)) + 1
    <3>1. i \notin Below(i)
      OBVIOUS
    <3> HIDE DEF Below
    <3> QED
      BY <1>2, <3>1, FS_AddElement
  <2>2. Below(i) \cup {i} \in SUBSET Below(k)
    <3>1. i \in Nat /\ k \in Nat /\ \A j \in is : j \in Nat
      OBVIOUS
    <3> SUFFICES ASSUME NEW j \in is, j < i \/ j = i
                 PROVE  j < k
      OBVIOUS
    <3> QED
      BY <3>1
  <2>3. Cardinality(Below(i) \cup {i}) <= Cardinality(Below(k))
    <3> HIDE DEF Below
    <3> QED
      BY <1>2, <2>2, FS_Subset
  <2> HIDE DEF Below
  <2> QED
    BY <1>2, <2>1, <2>3
<1>4. rank \in Injection(is, 1 .. c)
  <2> HIDE DEF Below
  <2>1. rank \in [is -> 1 .. c]
    BY <1>1, <1>2
  <2>2. \A i, k \in is : rank[i] = rank[k] => i = k
    <3> TAKE i, k \in is
    <3>1. i < k \/ i = k \/ k < i
      OBVIOUS
    <3> QED
      BY <1>2, <1>3, <3>1
  <2> QED
    BY <2>1, <2>2 DEF Injection, IsInjective
<1>5. rank \in Surjection(is, 1 .. c)
  <2>1. IsFiniteSet(1 .. c) /\ Cardinality(1 .. c) = c
    BY <1>1, FS_Interval
  <2> HIDE DEF rank
  <2> QED
    BY <1>4, <2>1, FS_Injection
<1>6. \A n \in 1 .. c : \E i \in is : Cardinality(Below(i)) = n - 1
  <2> TAKE n \in 1 .. c
  <2>1. PICK i \in is : rank[i] = n
    BY <1>5 DEF Surjection
  <2> HIDE DEF Below
  <2>2. Cardinality(Below(i)) = n - 1
    BY <1>1, <1>2, <2>1
  <2> QED
    BY <2>2
<1>7. \A n \in 1 .. c : Nth(is, n) \in is /\ Cardinality(Below(Nth(is, n))) = n - 1
  BY <1>6 DEF Nth
<1>8. \A m, n \in 1 .. c : Nth(is, m) = Nth(is, n) => m = n
  <2> HIDE DEF Below
  <2> QED
    BY <1>1, <1>7
<1>9. ASSUME NEW i \in is
      PROVE  \E n \in 1 .. c : Nth(is, n) = i
  <2> DEFINE n == Cardinality(Below(i)) + 1
  <2>1. n \in 1 .. c /\ n - 1 = Cardinality(Below(i))
    <3> HIDE DEF Below
    <3> QED
      BY <1>1, <1>2
  <2>2. Nth(is, n) \in is /\ Cardinality(Below(Nth(is, n))) = Cardinality(Below(i))
    <3> HIDE DEF n
    <3> QED
      BY <1>7, <2>1
  <2>3. Nth(is, n) = i
    <3> DEFINE k == Nth(is, n)
    <3>1. k \in is /\ Cardinality(Below(k)) = Cardinality(Below(i))
      BY <2>2
    <3> HIDE DEF n, Below, k
    <3>2. i < k \/ i = k \/ k < i
      BY <3>1
    <3>3. k = i
      BY <1>2, <1>3, <3>1, <3>2
    <3> QED
      BY <3>3 DEF k
  <2> QED
    BY <2>1, <2>3
<1> QED
  BY <1>1, <1>7, <1>8, <1>9

\* What is kept of a list is what it has at those positions, each once.
LEMMA KeptIs ==
  ASSUME NEW t, NEW l \in Nat, NEW is \in SUBSET (1 .. l)
  PROVE  /\ Cardinality(is) \in Nat /\ IsFiniteSet(is)
         /\ DOMAIN Kept(t, is) = 1 .. Cardinality(is)
         /\ \A n \in DOMAIN Kept(t, is) : Nth(is, n) \in is /\ Kept(t, is)[n] = t[Nth(is, n)]
         /\ \A m, n \in DOMAIN Kept(t, is) : Nth(is, m) = Nth(is, n) => m = n
         /\ \A i \in is : \E n \in DOMAIN Kept(t, is) : Nth(is, n) = i
<1>1. IsFiniteSet(is)
  <2>1. IsFiniteSet(1 .. l)
    BY FS_Interval
  <2> QED
    BY <2>1, FS_Subset
<1>2. is \in SUBSET Nat
  OBVIOUS
<1>3. DOMAIN Kept(t, is) = 1 .. Cardinality(is)
      /\ \A n \in 1 .. Cardinality(is) : Kept(t, is)[n] = t[Nth(is, n)]
  BY DEF Kept
<1> QED
  BY <1>1, <1>2, <1>3, NthIs

LEMMA KeptType ==
  ASSUME NEW T, NEW t \in Seq(T), NEW is \in SUBSET (1 .. Len(t))
  PROVE  Kept(t, is) \in Seq(T)
<1>1. Len(t) \in Nat /\ \A i \in is : t[i] \in T
  OBVIOUS
<1>2. /\ Cardinality(is) \in Nat /\ DOMAIN Kept(t, is) = 1 .. Cardinality(is)
      /\ \A n \in DOMAIN Kept(t, is) : Nth(is, n) \in is /\ Kept(t, is)[n] = t[Nth(is, n)]
  BY <1>1, KeptIs
<1>3. Kept(t, is) = [n \in 1 .. Cardinality(is) |-> Kept(t, is)[n]]
  BY DEF Kept
<1>4. \A n \in DOMAIN Kept(t, is) : Kept(t, is)[n] \in T
  BY <1>1, <1>2
<1> HIDE DEF Kept
<1> QED
  BY <1>2, <1>3, <1>4

\* Without the slots that are empty a map is a map.
LEMMA KeptFields ==
  ASSUME NEW s \in Fields
  PROVE  Kept(s, {i \in DOMAIN s : s[i].key # NoKey}) \in Fields
<1> DEFINE is == {i \in DOMAIN s : s[i].key # NoKey}
           r == Kept(s, is)
<1>1. s \in Seq(Slot) /\ Map(s) /\ is \in SUBSET (1 .. Len(s)) /\ Len(s) \in Nat
  BY DEF Fields
<1>2. r \in Seq(Slot)
  <2> HIDE DEF is
  <2> QED
    BY <1>1, KeptType
<1>3. /\ DOMAIN r = 1 .. Cardinality(is)
      /\ \A n \in DOMAIN r : Nth(is, n) \in is /\ r[n] = s[Nth(is, n)]
      /\ \A m, n \in DOMAIN r : Nth(is, m) = Nth(is, n) => m = n
  <2> HIDE DEF is
  <2> QED
    BY <1>1, KeptIs
<1>4. Map(r)
  <2> SUFFICES ASSUME NEW m \in DOMAIN r, NEW n \in DOMAIN r, r[m].key = r[n].key, r[m].key # NoKey
               PROVE  m = n
    BY DEF Map
  <2>1. Nth(is, m) \in DOMAIN s /\ Nth(is, n) \in DOMAIN s
    BY <1>3
  <2>2. Nth(is, m) = Nth(is, n)
    <3> HIDE DEF is, r
    <3> QED
      BY <1>1, <1>3, <2>1 DEF Map
  <2> HIDE DEF is, r
  <2> QED
    BY <1>3, <2>2
<1> HIDE DEF r
<1> QED
  BY <1>2, <1>4 DEF Fields, r, is

\* What sites_save writes: a line for each site that has a name.
LEMMA SiteLinesAre ==
  ASSUME NEW t \in Seq(Held)
  PROVE  /\ SiteLines(t) \in Seq(SiteLine)
         /\ Untwined(t) => Untwined(SiteLines(t))
         /\ Tags(SiteLines(t)) = {t[i].tag : i \in {j \in DOMAIN t : t[j].named}}
<1> DEFINE is == {i \in DOMAIN t : t[i].named}
           here == Kept(t, is)
           ls == SiteLines(t)
<1>1. is \in SUBSET (1 .. Len(t)) /\ Len(t) \in Nat
  OBVIOUS
<1>2. here \in Seq(Held)
  <2> HIDE DEF is
  <2> QED
    BY <1>1, KeptType
<1>3. /\ DOMAIN here = 1 .. Cardinality(is) /\ Cardinality(is) \in Nat
      /\ \A n \in DOMAIN here : Nth(is, n) \in is /\ here[n] = t[Nth(is, n)]
      /\ \A m, n \in DOMAIN here : Nth(is, m) = Nth(is, n) => m = n
      /\ \A i \in is : \E n \in DOMAIN here : Nth(is, n) = i
  <2> HIDE DEF is
  <2> QED
    BY <1>1, KeptIs
<1>4. DOMAIN ls = DOMAIN here
      /\ \A n \in DOMAIN here :
           ls[n] = [tag |-> here[n].tag,
                    extra |-> Kept(here[n].extra,
                                   {i \in DOMAIN here[n].extra : here[n].extra[i].key # NoKey})]
  <2> HIDE DEF here
  <2> QED
    BY DEF SiteLines, here, is
<1>5. \A n \in DOMAIN here : ls[n] \in SiteLine /\ ls[n].tag = here[n].tag
  <2> HIDE DEF here, ls
  <2> TAKE n \in DOMAIN here
  <2>1. here[n] \in Held
    BY <1>2
  <2>2. here[n].extra \in Fields /\ here[n].tag \in 1 .. MaxSites
    BY <2>1 DEF Held
  <2>3. Kept(here[n].extra, {i \in DOMAIN here[n].extra : here[n].extra[i].key # NoKey}) \in Fields
    BY <2>2, KeptFields
  <2> DEFINE fields == Kept(here[n].extra, {i \in DOMAIN here[n].extra : here[n].extra[i].key # NoKey})
  <2>4. ls[n] = [tag |-> here[n].tag, extra |-> fields]
    BY <1>4, Zenon
  <2>5. fields \in Fields
    BY <2>3
  <2> HIDE DEF fields
  <2> QED
    BY <2>2, <2>4, <2>5 DEF SiteLine
<1>6. ls \in Seq(SiteLine)
  <2>1. ls = [n \in 1 .. Cardinality(is) |-> ls[n]]
    <3>1. ls = [n \in DOMAIN here |-> ls[n]]
      BY DEF SiteLines, here, is
    <3> HIDE DEF ls, here, is
    <3> QED
      BY <1>3, <3>1
  <2> HIDE DEF ls, here, is
  <2> QED
    BY <1>3, <1>5, <2>1
<1>7. \A n \in DOMAIN ls : Nth(is, n) \in DOMAIN t /\ ls[n].tag = t[Nth(is, n)].tag
  <2>1. is \subseteq DOMAIN t
    OBVIOUS
  <2> HIDE DEF ls, here, is
  <2> QED
    BY <1>3, <1>4, <1>5, <2>1
<1>8. ASSUME Untwined(t)
      PROVE  Untwined(ls)
  <2> HIDE DEF ls, here, is
  <2> QED
    BY <1>3, <1>4, <1>7, <1>8 DEF Untwined
<1>9. Tags(ls) = {t[i].tag : i \in is}
  <2> HIDE DEF ls, here, is
  <2>1. \A n \in DOMAIN ls : \E i \in is : ls[n].tag = t[i].tag
    BY <1>3, <1>4, <1>7
  <2>2. \A i \in is : \E n \in DOMAIN ls : ls[n].tag = t[i].tag
    BY <1>3, <1>4, <1>7
  <2> QED
    BY <2>1, <2>2 DEF Tags
<1> QED
  BY <1>6, <1>8, <1>9

\* Sequences.
LEMMA SeqIs ==
  ASSUME NEW S, NEW s \in Seq(S)
  PROVE  /\ s = [j \in 1 .. Len(s) |-> s[j]] /\ Len(s) \in Nat /\ DOMAIN s = 1 .. Len(s)
         /\ \A i \in 1 .. Len(s) : s[i] \in S
OBVIOUS

LEMMA AppendIs ==
  ASSUME NEW S, NEW s \in Seq(S), NEW e \in S
  PROVE  /\ Append(s, e) \in Seq(S) /\ Append(s, e) # <<>> /\ Len(Append(s, e)) = Len(s) + 1
         /\ DOMAIN Append(s, e) = 1 .. Len(s) + 1
         /\ \A i \in DOMAIN s : Append(s, e)[i] = s[i]
         /\ Append(s, e)[Len(s) + 1] = e
OBVIOUS

\* The ith from the end.
LEMMA Mirrored ==
  ASSUME NEW n \in Nat
  PROVE  \A i \in 1 .. n : n + 1 - i \in 1 .. n /\ n + 1 - (n + 1 - i) = i
OBVIOUS

\* The same entries, and the same tags.
LEMMA SamePasses ==
  ASSUME NEW s, NEW t, \A i \in DOMAIN s : \E j \in DOMAIN t : s[i] = t[j],
         \A i \in DOMAIN t : \E j \in DOMAIN s : t[i] = s[j]
  PROVE  Passes(s) = Passes(t)
<1>1. \A i \in DOMAIN s : s[i] \in Passes(t)
  BY DEF Passes
<1>2. \A i \in DOMAIN t : t[i] \in Passes(s)
  BY DEF Passes
<1> QED
  BY <1>1, <1>2 DEF Passes

LEMMA SameTags ==
  ASSUME NEW s, NEW t, \A i \in DOMAIN s : \E j \in DOMAIN t : s[i].tag = t[j].tag,
         \A i \in DOMAIN t : \E j \in DOMAIN s : t[i].tag = s[j].tag
  PROVE  Tags(s) = Tags(t)
<1>1. \A i \in DOMAIN s : s[i].tag \in Tags(t)
  BY DEF Tags
<1>2. \A i \in DOMAIN t : t[i].tag \in Tags(s)
  BY DEF Tags
<1> QED
  BY <1>1, <1>2 DEF Tags

\* What is written of a table that is as users were told says so.
LEMMA GoodSitesWritten ==
  ASSUME NEW t \in Seq(Held), GoodSites(t)
  PROVE  GoodSiteLines(SiteLines(t))
BY SiteLinesAre DEF GoodSites, GoodSiteLines

LEMMA TagsCount ==
  ASSUME NEW ls, GoodSiteLines(ls)
  PROVE  Len(ls) = Cardinality(wanted)
<1> DEFINE f == [i \in 1 .. Len(ls) |-> ls[i].tag]
<1>1. /\ Len(ls) \in Nat /\ DOMAIN ls = 1 .. Len(ls) /\ wanted = {ls[i].tag : i \in DOMAIN ls}
      /\ \A i, j \in DOMAIN ls : ls[i].tag = ls[j].tag => i = j
  BY DEF GoodSiteLines, Untwined, Tags
<1>2. f \in Bijection(1 .. Len(ls), wanted)
  BY <1>1 DEF Bijection, Injection, Surjection, IsInjective
<1>3. ExistsBijection(1 .. Len(ls), wanted)
  BY <1>2 DEF ExistsBijection
<1> QED
  BY <1>1, <1>3, FS_CountingElements

LEMMA UserLinesAre ==
  ASSUME NEW t \in Seq(Login)
  PROVE  /\ UserLines(t) \in Seq(UserLine) /\ UserLines(t) # <<>>
         /\ Len(UserLines(t)) = Len(t) + 1 /\ Len(t) \in Nat
         /\ \A i \in DOMAIN t : UserLines(t)[i] = t[i]
         /\ UserLines(t)[Len(t) + 1] = Mute
<1>1. t \in Seq(UserLine) /\ Mute \in UserLine
  BY DEF UserLine
<1>2. Len(t) \in Nat
  OBVIOUS
<1> QED
  BY <1>1, <1>2, AppendIs DEF UserLines

LEMMA GoodUsersWritten ==
  ASSUME NEW t \in Seq(Login), GoodUsers(t)
  PROVE  GoodUserLines(UserLines(t))
<1> DEFINE ls == UserLines(t)
<1>1. /\ Len(ls) = Len(t) + 1 /\ Len(t) \in Nat /\ ls # <<>>
      /\ \A i \in DOMAIN t : ls[i] = t[i]
      /\ ls[Len(t) + 1] = Mute
  BY UserLinesAre
<1>2. Before(ls) = t
  <2>1. t = [i \in 1 .. Len(t) |-> t[i]]
    OBVIOUS
  <2>2. Len(ls) - 1 = Len(t)
    BY <1>1
  <2> HIDE DEF ls
  <2>3. Before(ls) = [i \in 1 .. Len(t) |-> ls[i]]
    BY <2>2 DEF Before
  <2> QED
    BY <1>1, <2>1, <2>3
<1>3. Before(ls) \in Seq(Login) /\ GoodUsers(Before(ls)) /\ ls[Len(ls)] = Mute
  <2> HIDE DEF ls
  <2> QED
    BY <1>1, <1>2
<1> QED
  BY <1>1, <1>3 DEF GoodUserLines

LEMMA PassesWritten ==
  ASSUME NEW ls \in Seq(Line("users")), GoodUserLines(ls)
  PROVE  Passes(ls) = Book \cup {Mute}
<1>1. /\ Len(ls) \in Nat \ {0} /\ DOMAIN ls = 1 .. Len(ls) /\ ls[Len(ls)] = Mute
      /\ Passes(Before(ls)) = Book
  BY DEF GoodUserLines, GoodUsers
<1>2. Passes(Before(ls)) = {ls[i] : i \in 1 .. Len(ls) - 1}
  BY <1>1 DEF Passes, Before
<1>3. 1 .. Len(ls) = (1 .. Len(ls) - 1) \cup {Len(ls)}
  BY <1>1
<1> QED
  BY <1>1, <1>2, <1>3 DEF Passes

\* A table that has been read to its end has the lines in the other order.
LEMMA UsersReversed ==
  ASSUME NEW ls \in Seq(Line("users")), GoodUserLines(ls), NEW t \in Seq(Login),
         Len(t) = Len(ls) - 1, \A i \in DOMAIN t : t[i] = ls[Len(t) + 1 - i]
  PROVE  GoodUsers(t)
<1> DEFINE b == Before(ls)
<1>1. Len(ls) \in Nat \ {0} /\ Len(t) \in Nat /\ DOMAIN t = 1 .. Len(t) /\ GoodUsers(b)
  BY DEF GoodUserLines
<1>2. DOMAIN b = 1 .. Len(t) /\ \A i \in 1 .. Len(t) : b[i] = ls[i]
  BY <1>1 DEF Before
<1> HIDE DEF b
<1>3. \A i \in 1 .. Len(t) : Len(t) + 1 - i \in 1 .. Len(t) /\ Len(t) + 1 - (Len(t) + 1 - i) = i
  BY <1>1, Mirrored
<1>4. \A i \in 1 .. Len(t) : t[i] = b[Len(t) + 1 - i]
  BY <1>1, <1>2, <1>3
<1>5. Unlike(t)
  <2> SUFFICES ASSUME NEW i \in 1 .. Len(t), NEW j \in 1 .. Len(t), t[i][1] = t[j][1]
               PROVE  i = j
    BY <1>1 DEF Unlike
  <2> DEFINE k == Len(t) + 1 - i
             m == Len(t) + 1 - j
  <2>1. k \in 1 .. Len(t) /\ m \in 1 .. Len(t) /\ t[i] = b[k] /\ t[j] = b[m]
    BY <1>3, <1>4
  <2>2. k = m
    <3> HIDE DEF k, m
    <3>1. k \in DOMAIN b /\ m \in DOMAIN b /\ b[k][1] = b[m][1]
      BY <1>2, <2>1
    <3>2. Unlike(b)
      BY <1>1 DEF GoodUsers
    <3> QED
      BY <3>1, <3>2 DEF Unlike
  <2> QED
    BY <1>1, <2>2
<1>6. Passes(t) = Passes(b)
  <2>1. \A i \in 1 .. Len(t) : \E j \in 1 .. Len(t) : t[i] = b[j]
    BY <1>3, <1>4
  <2>2. \A i \in 1 .. Len(t) : \E j \in 1 .. Len(t) : b[i] = t[j]
    <3> TAKE i \in 1 .. Len(t)
    <3>1. Len(t) + 1 - i \in 1 .. Len(t) /\ b[i] = t[Len(t) + 1 - i]
      BY <1>3, <1>4
    <3> QED
      BY <3>1
  <2> QED
    <3>1. \A i \in DOMAIN t : \E j \in DOMAIN b : t[i] = b[j]
      BY <1>1, <1>2, <2>1
    <3>2. \A i \in DOMAIN b : \E j \in DOMAIN t : b[i] = t[j]
      BY <1>1, <1>2, <2>2
    <3> QED
      BY <3>1, <3>2, SamePasses
<1> QED
  BY <1>1, <1>5, <1>6 DEF GoodUsers

LEMMA SitesReversed ==
  ASSUME NEW ls, GoodSiteLines(ls), NEW t \in Seq(Held),
         Len(t) = Len(ls), \A i \in DOMAIN t : t[i].named /\ t[i].tag = ls[Len(t) + 1 - i].tag
  PROVE  GoodSites(t)
<1>1. /\ Len(t) \in Nat /\ DOMAIN t = 1 .. Len(t) /\ DOMAIN ls = 1 .. Len(t)
      /\ Untwined(ls) /\ wanted = {ls[i].tag : i \in 1 .. Len(t)}
  BY DEF GoodSiteLines, Tags
<1>2. \A i \in 1 .. Len(t) : Len(t) + 1 - i \in 1 .. Len(t) /\ Len(t) + 1 - (Len(t) + 1 - i) = i
  BY <1>1, Mirrored
<1>3. \A i \in 1 .. Len(t) : t[i].tag = ls[Len(t) + 1 - i].tag
  BY <1>1
<1>4. Untwined(t)
  <2> SUFFICES ASSUME NEW i \in 1 .. Len(t), NEW j \in 1 .. Len(t), t[i].tag = t[j].tag
               PROVE  i = j
    BY <1>1 DEF Untwined
  <2> DEFINE k == Len(t) + 1 - i
             m == Len(t) + 1 - j
  <2>1. k \in 1 .. Len(t) /\ m \in 1 .. Len(t) /\ t[i].tag = ls[k].tag /\ t[j].tag = ls[m].tag
    BY <1>2, <1>3
  <2>2. k = m
    <3> HIDE DEF k, m
    <3> QED
      BY <1>1, <2>1 DEF Untwined
  <2> QED
    BY <1>1, <2>2
<1>5. {j \in DOMAIN t : t[j].named} = 1 .. Len(t)
  BY <1>1
<1>6. {t[i].tag : i \in 1 .. Len(t)} = wanted
  <2>1. \A i \in 1 .. Len(t) : \E j \in 1 .. Len(t) : t[i].tag = ls[j].tag
    BY <1>2, <1>3
  <2>2. \A i \in 1 .. Len(t) : \E j \in 1 .. Len(t) : ls[i].tag = t[j].tag
    <3> TAKE i \in 1 .. Len(t)
    <3>1. Len(t) + 1 - i \in 1 .. Len(t) /\ ls[i].tag = t[Len(t) + 1 - i].tag
      BY <1>2, <1>3
    <3> QED
      BY <3>1
  <2>3. Tags(t) = Tags(ls)
    <3>1. \A i \in DOMAIN t : \E j \in DOMAIN ls : t[i].tag = ls[j].tag
      BY <1>1, <2>1
    <3>2. \A i \in DOMAIN ls : \E j \in DOMAIN t : ls[i].tag = t[j].tag
      BY <1>1, <2>2
    <3> QED
      BY <3>1, <3>2, SameTags
  <2> QED
    BY <1>1, <2>3 DEF Tags
<1> QED
  BY <1>4, <1>5, <1>6 DEF GoodSites

\* What is written to the end is there.
LEMMA WrittenWhole ==
  ASSUME NEW on, NEW w, NEW S, NEW T, NEW ls \in Seq(S), Written(on, w, ls), w.lines = <<>>,
         on.lines \in Seq(T)
  PROVE  on.there /\ on.lines = ls
<1>1. on.there /\ Len(on.lines) + 0 = Len(ls) /\ \A j \in DOMAIN on.lines : on.lines[j] = ls[j]
  BY DEF Written
<1>2. Len(on.lines) \in Nat /\ Len(ls) \in Nat
  OBVIOUS
<1>3. /\ on.lines = [j \in 1 .. Len(on.lines) |-> on.lines[j]]
      /\ ls = [j \in 1 .. Len(ls) |-> ls[j]]
      /\ DOMAIN on.lines = 1 .. Len(on.lines)
  BY SeqIs
<1> QED
  BY <1>1, <1>2, <1>3

\* A file that has just been emptied for a table.
LEMMA JustOpened ==
  ASSUME NEW f, NEW dir, NEW S, NEW ls \in Seq(S)
  PROVE  Written(Empty, Opened(f, dir, ls), ls)
<1> DEFINE w == Opened(f, dir, ls)
<1>1. w.at = 1 /\ w.lines = ls
  BY DEF Opened
<1>2. Empty.there /\ Empty.lines = <<>> /\ Len(Empty.lines) = 0 /\ DOMAIN Empty.lines = {}
  BY DEF Empty
<1> HIDE DEF w
<1>3. w.at - 1 = 0 /\ Len(ls) \in Nat
  BY <1>1
<1>4. \A j \in DOMAIN w.lines : w.lines[j] = ls[w.at - 1 + j]
  BY <1>1, <1>3
<1> QED
  BY <1>1, <1>2, <1>3, <1>4 DEF Written, w

\* One more line.
LEMMA WrittenMore ==
  ASSUME NEW on, NEW new, NEW w, NEW v, NEW S, NEW ls \in Seq(S), Written(on, w, ls),
         on.lines \in Seq(S), new.lines \in Seq(S), w.lines \in Seq(S), w.lines # <<>>,
         w.at \in Nat \ {0}, new.there = on.there,
         Len(new.lines) = IF w.at > Len(on.lines) THEN w.at ELSE Len(on.lines),
         \A n \in DOMAIN new.lines : new.lines[n] = IF n = w.at THEN Head(w.lines)
                                        ELSE IF n <= Len(on.lines) THEN on.lines[n] ELSE new.lines[n],
         v.at = w.at + 1, v.lines = Tail(w.lines)
  PROVE  Written(new, v, ls)
<1> DEFINE a == on.lines
           b == new.lines
           c == w.lines
           d == v.lines
<1>1. /\ on.there /\ Len(a) = w.at - 1 /\ \A j \in DOMAIN a : a[j] = ls[j]
      /\ Len(a) + Len(c) = Len(ls) /\ \A j \in DOMAIN c : c[j] = ls[w.at - 1 + j]
  BY DEF Written
<1>2. a \in Seq(S) /\ b \in Seq(S) /\ c \in Seq(S) /\ c # <<>> /\ d = Tail(c)
  OBVIOUS
<1> HIDE DEF a, b, c, d
<1>3. /\ Len(a) \in Nat /\ Len(b) \in Nat /\ Len(c) \in Nat \ {0} /\ Len(ls) \in Nat
      /\ DOMAIN a = 1 .. Len(a) /\ DOMAIN b = 1 .. Len(b) /\ DOMAIN c = 1 .. Len(c)
      /\ Head(c) = c[1] /\ d \in Seq(S) /\ Len(d) = Len(c) - 1 /\ DOMAIN d = 1 .. Len(c) - 1
      /\ \A j \in 1 .. Len(c) - 1 : d[j] = c[j + 1]
  BY <1>2
<1>4. w.at = Len(a) + 1
  BY <1>1, <1>3
<1>5. Len(b) = Len(a) + 1
  BY <1>3, <1>4 DEF a, b
<1>6. b[Len(a) + 1] = c[1] /\ \A n \in 1 .. Len(a) : b[n] = a[n]
  <2>1. \A n \in 1 .. Len(a) + 1 : b[n] = IF n = w.at THEN Head(c) ELSE IF n <= Len(a) THEN a[n] ELSE b[n]
    BY <1>3, <1>5 DEF a, b, c
  <2>2. Len(a) + 1 \in 1 .. Len(a) + 1 /\ \A n \in 1 .. Len(a) : n \in 1 .. Len(a) + 1 /\ n <= Len(a) /\ n # Len(a) + 1
    BY <1>3
  <2> QED
    BY <1>3, <1>4, <2>1, <2>2
<1>7. \A j \in 1 .. Len(c) : c[j] = ls[Len(a) + j]
  BY <1>1, <1>3
<1>8. c[1] = ls[Len(a) + 1]
  <2>1. 1 \in 1 .. Len(c)
    BY <1>3
  <2> QED
    BY <1>7, <2>1
<1>9. \A j \in 1 .. Len(b) : b[j] = ls[j]
  <2> TAKE j \in 1 .. Len(b)
  <2>1. j \in 1 .. Len(a) \/ j = Len(a) + 1
    BY <1>3, <1>5
  <2> QED
    BY <1>1, <1>3, <1>6, <1>8, <2>1
<1>10. \A j \in 1 .. Len(c) - 1 : d[j] = ls[w.at + j]
  <2> TAKE j \in 1 .. Len(c) - 1
  <2>1. j + 1 \in 1 .. Len(c) /\ Len(a) + (j + 1) = w.at + j /\ d[j] = c[j + 1]
    BY <1>3, <1>4
  <2>2. c[j + 1] = ls[Len(a) + (j + 1)]
    BY <1>7, <2>1
  <2> QED
    BY <2>1, <2>2
<1>11. v.at - 1 = w.at
  BY <1>3, <1>4
<1> QED
  <2>1. /\ Len(b) = v.at - 1 /\ Len(b) + Len(d) = Len(ls)
    BY <1>1, <1>3, <1>4, <1>5, <1>11
  <2>2. (\A j \in DOMAIN b : b[j] = ls[j]) /\ (\A j \in DOMAIN d : d[j] = ls[v.at - 1 + j])
    BY <1>3, <1>9, <1>10, <1>11
  <2>3. new.there
    BY <1>1
  <2> QED
    BY <2>1, <2>2, <2>3 DEF Written, b, d

-----------------------------------------------------------------------------
(* The fields of a site. *)

LEMMA FirstOfIs ==
  ASSUME NEW is \in SUBSET Nat, is # {}
  PROVE  FirstOf(is) \in is /\ \A j \in is : FirstOf(is) <= j
<1>1. IsWellFoundedOn(OpToRel(<, Nat), Nat)
  BY NatLessThanWellFounded
<1>2. PICK i \in is : \A j \in is : ~ (<<j, i>> \in OpToRel(<, Nat))
  BY <1>1, WFMin
<1>3. \A j \in is : i <= j
  <2> TAKE j \in is
  <2>1. i \in Nat /\ j \in Nat
    OBVIOUS
  <2>2. ~ (j < i)
    BY <1>2, <2>1 DEF OpToRel
  <2> QED
    BY <2>1, <2>2
<1> QED
  BY <1>3 DEF FirstOf

LEMMA FieldsIs ==
  ASSUME NEW s, s \in Fields
  PROVE  s \in Seq(Slot) /\ Map(s) /\ DOMAIN s = 1 .. Len(s) /\ Len(s) \in Nat
<1>1. s \in Seq(Slot) /\ Map(s)
  BY DEF Fields
<1> QED
  BY <1>1

\* Slots that are set.
LEMMA SlotSet ==
  ASSUME NEW S, NEW s, s \in Seq(S), NEW i, i \in DOMAIN s, NEW e, e \in S
  PROVE  LET t == [s EXCEPT ![i] = e]
         IN  /\ t \in Seq(S) /\ DOMAIN t = DOMAIN s /\ t[i] = e /\ t # <<>>
             /\ \A j \in DOMAIN s : j # i => t[j] = s[j]
<1> DEFINE t == [s EXCEPT ![i] = e]
<1>1. t \in Seq(S) /\ DOMAIN t = DOMAIN s /\ t[i] = e /\ \A j \in DOMAIN s : j # i => t[j] = s[j]
  OBVIOUS
<1>2. t # <<>>
  BY <1>1
<1> QED
  BY <1>1, <1>2

\* A key is at one position of a map or at none.
LEMMA ValueIs ==
  ASSUME NEW s \in Fields, NEW k \in Key
  PROVE  /\ k # NoKey
         /\ \A i \in DOMAIN s : s[i].key = k => Value(s, k) = s[i].value /\ FirstOf(Position(s, k)) = i
         /\ (\A i \in DOMAIN s : s[i].key # k) => Value(s, k) = "none" /\ Position(s, k) = {}
         /\ Cardinality(Position(s, k)) <= 1
<1>1. k # NoKey
  BY StoreAssumption
<1>2. s \in Seq(Slot) /\ Map(s) /\ DOMAIN s = 1 .. Len(s) /\ Len(s) \in Nat
  BY FieldsIs
<1>3. ASSUME NEW i \in DOMAIN s, s[i].key = k
      PROVE  /\ Value(s, k) = s[i].value /\ FirstOf(Position(s, k)) = i
             /\ Cardinality(Position(s, k)) <= 1
  <2>1. \A j \in DOMAIN s : s[j].key = k => j = i
    BY <1>1, <1>2, <1>3 DEF Map
  <2>2. Position(s, k) = {i}
    BY <1>3, <2>1 DEF Position
  <2>3. i \in Nat
    BY <1>2
  <2>4. FirstOf({i}) = i
    BY <2>3, FirstOfIs
  <2> QED
    BY <2>2, <2>4, FS_Singleton DEF Value
<1>4. ASSUME \A i \in DOMAIN s : s[i].key # k
      PROVE  /\ Value(s, k) = "none" /\ Position(s, k) = {}
             /\ Cardinality(Position(s, k)) <= 1
  <2>1. Position(s, k) = {}
    BY <1>4 DEF Position
  <2> QED
    BY <2>1, FS_EmptySet DEF Value
<1> QED
  BY <1>1, <1>3, <1>4

\* A field is written to the slot of its key, or to an empty one if there is none.
LEMMA SlotWritten ==
  ASSUME NEW s \in Fields, NEW k \in Key, NEW slot \in Slot, slot.key = k, NEW i \in DOMAIN s,
         s[i].key = k \/ s[i].key = NoKey, \A j \in DOMAIN s : s[j].key = k => j = i,
         NEW t \in Seq(Slot), DOMAIN t = DOMAIN s, t[i] = slot,
         \A j \in DOMAIN s : j # i => t[j] = s[j]
  PROVE  /\ t \in Fields /\ t # <<>> /\ Value(t, k) = slot.value
         /\ \A l \in Key : l # k => Value(t, l) = Value(s, l)
<1>1. s \in Seq(Slot) /\ Map(s) /\ DOMAIN s = 1 .. Len(s) /\ Len(s) \in Nat
  BY FieldsIs
<1>2. slot \in Slot /\ slot.key = k
  OBVIOUS
<1>3. k # NoKey
  BY ValueIs
<1>4. /\ t \in Seq(Slot) /\ DOMAIN t = DOMAIN s /\ t[i] = slot
      /\ \A j \in DOMAIN s : j # i => t[j] = s[j]
  OBVIOUS
<1>5. Map(t)
  BY <1>1, <1>2, <1>3, <1>4 DEF Map
<1>6. t \in Fields
  BY <1>4, <1>5 DEF Fields
<1>7. t # <<>>
  BY <1>4
<1>8. Value(t, k) = slot.value
  <2>1. i \in DOMAIN t /\ t[i].key = k 
    BY <1>2, <1>4
  <2> QED
    BY <1>6, <2>1, ValueIs
<1>9. ASSUME NEW l \in Key, l # k
      PROVE  Value(t, l) = Value(s, l)
  <2>1. l # NoKey
    BY ValueIs
  <2>2. CASE \E j \in DOMAIN s : s[j].key = l
    <3>1. PICK j \in DOMAIN s : s[j].key = l
      BY <2>2
    <3>2. j # i /\ t[j] = s[j]
      BY <1>4, <1>9, <2>1, <3>1
    <3>3. Value(s, l) = s[j].value
      BY <3>1, ValueIs
    <3>4. Value(t, l) = t[j].value
      <4>1. j \in DOMAIN t /\ t[j].key = l
        BY <1>4, <3>1, <3>2
      <4> QED
        BY <1>6, <4>1, ValueIs
    <3> QED
      BY <3>2, <3>3, <3>4
  <2>3. CASE \A j \in DOMAIN s : s[j].key # l
    <3>1. \A j \in DOMAIN t : t[j].key # l
      BY <1>2, <1>4, <1>9, <2>3
    <3> QED
      BY <1>6, <2>3, <3>1, ValueIs
  <2> QED
    BY <2>2, <2>3
<1> QED
  BY <1>6, <1>7, <1>8, <1>9

LEMMA SlotAdded ==
  ASSUME NEW s \in Fields, NEW k \in Key, NEW slot \in Slot, slot.key = k, \A j \in DOMAIN s : s[j].key # k,
         NEW t \in Seq(Slot), DOMAIN t = 1 .. Len(s) + 1, t[Len(s) + 1] = slot, t # <<>>,
         \A j \in DOMAIN s : t[j] = s[j]
  PROVE  /\ t \in Fields /\ t # <<>> /\ Value(t, k) = slot.value
         /\ \A l \in Key : l # k => Value(t, l) = Value(s, l)
<1> DEFINE i == Len(s) + 1
<1>1. s \in Seq(Slot) /\ Map(s) /\ DOMAIN s = 1 .. Len(s) /\ Len(s) \in Nat
  BY FieldsIs
<1>2. slot \in Slot /\ slot.key = k
  OBVIOUS
<1>4. /\ t \in Seq(Slot) /\ DOMAIN t = 1 .. i /\ t[i] = slot /\ t # <<>>
      /\ \A j \in DOMAIN s : t[j] = s[j]
  OBVIOUS
<1>5. DOMAIN t = DOMAIN s \cup {i}
  <2>1. 1 .. Len(s) + 1 = (1 .. Len(s)) \cup {Len(s) + 1}
    BY <1>1
  <2> QED
    BY <1>1, <1>4, <2>1
<1> HIDE DEF i
<1>6. Map(t)
  <2>1. \A m \in DOMAIN t : m = i \/ (m \in DOMAIN s /\ t[m] = s[m])
    BY <1>4, <1>5
  <2>2. \A m \in DOMAIN s : s[m].key # t[i].key
    BY <1>2, <1>4
  <2> SUFFICES ASSUME NEW m \in DOMAIN t, NEW n \in DOMAIN t, t[m].key = t[n].key, t[m].key # NoKey
               PROVE  m = n
    BY DEF Map
  <2> QED
    BY <1>1, <2>1, <2>2 DEF Map
<1>7. t \in Fields
  BY <1>4, <1>6 DEF Fields
<1>8. Value(t, k) = slot.value
  <2>1. i \in DOMAIN t /\ t[i].key = k /\ t[i].value = slot.value
    BY <1>2, <1>4, <1>5
  <2>2. Value(t, k) = t[i].value
    BY <1>7, <2>1, ValueIs
  <2> QED
    BY <2>1, <2>2
<1>9. ASSUME NEW l \in Key, l # k
      PROVE  Value(t, l) = Value(s, l)
  <2>2. CASE \E j \in DOMAIN s : s[j].key = l
    <3>1. PICK j \in DOMAIN s : s[j].key = l
      BY <2>2
    <3>2. j \in DOMAIN t /\ t[j] = s[j]
      BY <1>4, <1>5
    <3>3. Value(s, l) = s[j].value
      BY <3>1, ValueIs
    <3>4. Value(t, l) = t[j].value
      <4>1. j \in DOMAIN t /\ t[j].key = l
        BY <3>1, <3>2
      <4> QED
        BY <1>7, <4>1, ValueIs
    <3> QED
      BY <3>2, <3>3, <3>4
  <2>3. CASE \A j \in DOMAIN s : s[j].key # l
    <3>1. \A j \in DOMAIN t : t[j].key # l
      BY <1>2, <1>4, <1>5, <1>9, <2>3
    <3>2. Value(t, l) = "none"
      BY <1>7, <3>1, ValueIs
    <3>3. Value(s, l) = "none"
      BY <2>3, ValueIs
    <3> QED
      BY <3>2, <3>3
  <2> QED
    BY <2>2, <2>3
<1> QED
  BY <1>4, <1>7, <1>8, <1>9

LEMMA PutIs ==
  ASSUME NEW s \in Fields, NEW k \in Key, NEW v \in Val
  PROVE  /\ Put(s, k, v) \in Fields /\ Put(s, k, v) # <<>> /\ Value(Put(s, k, v), k) = v
         /\ \A l \in Key : l # k => Value(Put(s, k, v), l) = Value(s, l)
<1>1. DOMAIN s \subseteq Nat /\ Map(s) /\ k # NoKey /\ s \in Seq(Slot)
  <2>1. s \in Seq(Slot) /\ Map(s) /\ DOMAIN s = 1 .. Len(s)
    BY FieldsIs
  <2>2. k # NoKey
    BY StoreAssumption
  <2> QED
    BY <2>1, <2>2
<1>2. \A l \in {k, NoKey} : Position(s, l) # {} =>
        FirstOf(Position(s, l)) \in DOMAIN s /\ s[FirstOf(Position(s, l))].key = l
  <2> TAKE l \in {k, NoKey}
  <2>1. Position(s, l) \in SUBSET Nat
    BY <1>1 DEF Position
  <2>2. Position(s, l) # {} => FirstOf(Position(s, l)) \in Position(s, l)
    BY <2>1, FirstOfIs
  <2> QED
    BY <2>2 DEF Position
<1> DEFINE slot == [key |-> k, value |-> v]
           after == Put(s, k, v)
<1>0. slot \in Slot /\ slot.key = k /\ slot.value = v
  BY DEF Slot
<1> SUFFICES /\ after \in Fields /\ after # <<>> /\ Value(after, k) = slot.value
             /\ \A l \in Key : l # k => Value(after, l) = Value(s, l)
  BY <1>0
<1>3. CASE Position(s, k) # {}
  <2> DEFINE i == FirstOf(Position(s, k))
  <2>1. i \in DOMAIN s /\ s[i].key = k
    BY <1>2, <1>3
  <2>2. \A j \in DOMAIN s : s[j].key = k => j = i
    BY <1>1, <2>1 DEF Map
  <2>3. after = [s EXCEPT ![i] = slot]
    BY <1>3 DEF Put
  <2> HIDE DEF i, slot, after
  <2>4. /\ after \in Seq(Slot) /\ DOMAIN after = DOMAIN s /\ after[i] = slot
        /\ \A j \in DOMAIN s : j # i => after[j] = s[j]
    BY <1>0, <1>1, <2>1, <2>3, SlotSet
  <2> QED
    BY <1>0, <2>1, <2>2, <2>4, SlotWritten
<1>4. CASE Position(s, k) = {}
  <2>1. \A j \in DOMAIN s : s[j].key # k
    BY <1>4 DEF Position
  <2>2. CASE Position(s, NoKey) # {}
    <3> DEFINE i == FirstOf(Position(s, NoKey))
    <3>1. i \in DOMAIN s /\ s[i].key = NoKey
      BY <1>2, <2>2
    <3>2. after = [s EXCEPT ![i] = slot]
      BY <1>4, <2>2 DEF Put
    <3>3. \A j \in DOMAIN s : s[j].key = k => j = i
      BY <2>1
    <3> HIDE DEF i, slot, after
    <3>4. /\ after \in Seq(Slot) /\ DOMAIN after = DOMAIN s /\ after[i] = slot
          /\ \A j \in DOMAIN s : j # i => after[j] = s[j]
      BY <1>0, <1>1, <3>1, <3>2, SlotSet
    <3> QED
      BY <1>0, <3>1, <3>3, <3>4, SlotWritten
  <2>3. CASE Position(s, NoKey) = {}
    <3>1. after = Append(s, slot)
      BY <1>4, <2>3 DEF Put
    <3> HIDE DEF slot, after
    <3>2. /\ after \in Seq(Slot) /\ DOMAIN after = 1 .. Len(s) + 1 /\ after[Len(s) + 1] = slot
          /\ after # <<>> /\ \A j \in DOMAIN s : after[j] = s[j]
      BY <1>0, <1>1, <3>1, AppendIs
    <3> QED
      BY <1>0, <2>1, <3>2, SlotAdded
  <2> QED
    BY <2>2, <2>3
<1> QED
  BY <1>3, <1>4

LEMMA DropIs ==
  ASSUME NEW s \in Fields, NEW k \in Key
  PROVE  /\ Drop(s, k) \in Fields /\ Value(Drop(s, k), k) = "none"
         /\ s # <<>> => Drop(s, k) # <<>>
         /\ \A l \in Key : l # k => Value(Drop(s, k), l) = Value(s, l)
<1>1. s \in Seq(Slot) /\ Map(s) /\ DOMAIN s = 1 .. Len(s) /\ Len(s) \in Nat /\ k # NoKey
  BY ValueIs, FieldsIs
<1>2. CASE Position(s, k) = {}
  <2>1. \A j \in DOMAIN s : s[j].key # k
    BY <1>2 DEF Position
  <2>2. Drop(s, k) = s
    BY <1>2 DEF Drop
  <2> QED
    BY <2>1, <2>2, ValueIs
<1>3. CASE Position(s, k) # {}
  <2> DEFINE i == FirstOf(Position(s, k))
             t == [s EXCEPT ![i].key = NoKey]
  <2>1. i \in Position(s, k)
    <3>1. Position(s, k) \in SUBSET Nat
      BY <1>1 DEF Position
    <3> QED
      BY <1>3, <3>1, FirstOfIs
  <2>2. i \in DOMAIN s /\ s[i].key = k
    BY <2>1 DEF Position
  <2>3. Drop(s, k) = t
    BY <1>3 DEF Drop
  <2> HIDE DEF i
  <2>4. s[i] \in Slot /\ [s[i] EXCEPT !.key = NoKey] \in Slot /\ [s[i] EXCEPT !.key = NoKey].key = NoKey
    <3>1. s[i] \in Slot
      BY <1>1, <2>2
    <3> QED
      BY <3>1 DEF Slot
  <2>5. /\ t \in Seq(Slot) /\ DOMAIN t = DOMAIN s /\ t[i].key = NoKey
        /\ \A j \in DOMAIN s : j # i => t[j] = s[j]
    <3> DEFINE slot == [s[i] EXCEPT !.key = NoKey]
    <3>1. t = [s EXCEPT ![i] = slot]
      BY <2>2
    <3> HIDE DEF slot, t
    <3>2. slot \in Slot /\ slot.key = NoKey
      BY <2>4 DEF slot
    <3>3. /\ t \in Seq(Slot) /\ DOMAIN t = DOMAIN s /\ t[i] = slot
          /\ \A j \in DOMAIN s : j # i => t[j] = s[j]
      BY <1>1, <2>2, <3>1, <3>2, SlotSet
    <3> QED
      BY <3>2, <3>3
  <2> HIDE DEF t
  <2>6. Map(t)
    BY <1>1, <2>5 DEF Map
  <2>7. t \in Fields
    BY <2>5, <2>6 DEF Fields
  <2>8. \A j \in DOMAIN s : s[j].key = k => j = i
    BY <1>1, <2>2 DEF Map
  <2>9. Value(t, k) = "none"
    <3>1. \A j \in DOMAIN t : t[j].key # k
      BY <1>1, <2>5, <2>8
    <3> QED
      BY <2>7, <3>1, ValueIs
  <2>10. ASSUME NEW l \in Key, l # k
         PROVE  Value(t, l) = Value(s, l)
    <3>0. l # NoKey
      BY ValueIs
    <3>1. CASE \E j \in DOMAIN s : s[j].key = l
      <4>1. PICK j \in DOMAIN s : s[j].key = l
        BY <3>1
      <4>2. j \in DOMAIN t /\ t[j] = s[j]
        BY <2>2, <2>5, <2>10, <4>1
      <4>3. Value(s, l) = s[j].value
        BY <4>1, ValueIs
      <4>4. Value(t, l) = t[j].value
        <5>1. t[j].key = l
          BY <4>1, <4>2
        <5> QED
          BY <2>7, <4>2, <5>1, ValueIs
      <4> QED
        BY <4>2, <4>3, <4>4
    <3>2. CASE \A j \in DOMAIN s : s[j].key # l
      <4>1. \A j \in DOMAIN t : t[j].key # l
        BY <2>5, <3>0, <3>2
      <4> QED
        BY <2>7, <3>2, <4>1, ValueIs
    <3> QED
      BY <3>1, <3>2
  <2>11. s # <<>> => t # <<>>
    BY <1>1, <2>2, <2>5
  <2> QED
    BY <2>3, <2>7, <2>9, <2>10, <2>11
<1> QED
  BY <1>2, <1>3

-----------------------------------------------------------------------------
(* Folds over the keys that are given. *)

\* There is a function that takes one of the rest after the other.
Chosen(T) == CHOOSE x \in T : TRUE
FoldsTo(g, D, b, h) == \A T \in D : g[T] = IF T = {} THEN b ELSE h[<<Chosen(T), g[T \ {Chosen(T)}]>>]

LEMMA FoldExists ==
  ASSUME NEW S, IsFiniteSet(S), NEW V, NEW b \in V, NEW h \in [S \X V -> V]
  PROVE  \E g \in [SUBSET S -> V] : FoldsTo(g, SUBSET S, b, h)
<1> DEFINE Low(n) == {T \in SUBSET S : Cardinality(T) <= n}
           Good(n) == \E g \in [Low(n) -> V] : FoldsTo(g, Low(n), b, h)
<1>1. \A T \in SUBSET S : IsFiniteSet(T) /\ Cardinality(T) \in Nat
  BY FS_Subset, FS_CardinalityType
<1>2. Good(0)
  <2>1. \A T \in Low(0) : T = {}
    BY <1>1, FS_EmptySet
  <2> DEFINE g == [T \in Low(0) |-> b]
  <2> HIDE DEF Low
  <2>2. g \in [Low(0) -> V] /\ FoldsTo(g, Low(0), b, h)
    BY <2>1 DEF FoldsTo
  <2> QED
    BY <2>2
<1>3. ASSUME NEW n \in Nat, Good(n)
      PROVE  Good(n + 1)
  <2>1. PICK g0 \in [Low(n) -> V] : FoldsTo(g0, Low(n), b, h)
    BY <1>3
  <2>2. \A T \in Low(n + 1) : T # {} =>
          /\ Chosen(T) \in S /\ T \ {Chosen(T)} \in Low(n) /\ T \ {Chosen(T)} \in Low(n + 1)
    <3> SUFFICES ASSUME NEW T \in Low(n + 1), T # {}
                 PROVE  /\ Chosen(T) \in S /\ T \ {Chosen(T)} \in Low(n)
                        /\ T \ {Chosen(T)} \in Low(n + 1)
      OBVIOUS
    <3>1. Chosen(T) \in T
      BY DEF Chosen
    <3>2. IsFiniteSet(T) /\ T \in SUBSET S /\ Cardinality(T) \in Nat /\ Cardinality(T) <= n + 1
      BY <1>1
    <3>3. Cardinality(T \ {Chosen(T)}) = Cardinality(T) - 1
      BY <3>1, <3>2, FS_RemoveElement
    <3> QED
      BY <3>1, <3>2, <3>3
  <2> DEFINE g == [T \in Low(n + 1) |-> IF T \in Low(n) THEN g0[T] ELSE h[<<Chosen(T), g0[T \ {Chosen(T)}]>>]]
  <2>3. {} \in Low(n)
    BY FS_EmptySet
  <2>4. \A T \in Low(n) : T \in Low(n + 1)
    BY <1>1
  <2> HIDE DEF Low
  <2>5. g \in [Low(n + 1) -> V]
    <3> SUFFICES ASSUME NEW T \in Low(n + 1)
                 PROVE  (IF T \in Low(n) THEN g0[T] ELSE h[<<Chosen(T), g0[T \ {Chosen(T)}]>>]) \in V
      OBVIOUS
    <3>1. CASE T \in Low(n)
      BY <3>1
    <3>2. CASE T \notin Low(n)
      <4>1. Chosen(T) \in S /\ g0[T \ {Chosen(T)}] \in V
        BY <2>2, <2>3, <3>2
      <4> QED
        BY <3>2, <4>1
    <3> QED
      BY <3>1, <3>2
  <2>6. ASSUME NEW T \in Low(n + 1)
        PROVE  g[T] = IF T = {} THEN b ELSE h[<<Chosen(T), g[T \ {Chosen(T)}]>>]
    <3>1. CASE T = {}
      BY <2>1, <2>3, <3>1 DEF FoldsTo
    <3>2. CASE T # {}
      <4>1. g[T \ {Chosen(T)}] = g0[T \ {Chosen(T)}]
        BY <2>2, <3>2
      <4>2. T \in Low(n) => g0[T] = h[<<Chosen(T), g0[T \ {Chosen(T)}]>>]
        BY <2>1, <3>2 DEF FoldsTo
      <4>3. g[T] = h[<<Chosen(T), g0[T \ {Chosen(T)}]>>]
        BY <4>2
      <4> QED
        BY <3>2, <4>1, <4>3
    <3> QED
      BY <3>1, <3>2
  <2> HIDE DEF g
  <2>7. FoldsTo(g, Low(n + 1), b, h)
    BY <2>6 DEF FoldsTo
  <2> QED
    BY <2>5, <2>7
<1>4. \A n \in Nat : Good(n)
  <2> SUFFICES ASSUME {n \in Nat : ~ Good(n)} # {}
               PROVE  FALSE
    OBVIOUS
  <2> DEFINE Bad == {n \in Nat : ~ Good(n)}
  <2>1. IsWellFoundedOn(OpToRel(<, Nat), Nat)
    BY NatLessThanWellFounded
  <2>2. Bad \in SUBSET Nat /\ Bad # {} /\ \A n \in Nat : n \in Bad <=> ~ Good(n)
    OBVIOUS
  <2> HIDE DEF Good, Bad
  <2>3. PICK n \in Bad : \A m \in Bad : ~ (<<m, n>> \in OpToRel(<, Nat))
    BY <2>1, <2>2, WFMin
  <2>4. n \in Nat /\ n # 0 /\ ~ Good(n)
    BY <1>2, <2>2
  <2>5. n - 1 \in Nat /\ n - 1 < n /\ (n - 1) + 1 = n
    BY <2>4
  <2>6. <<n - 1, n>> \in OpToRel(<, Nat)
    BY <2>4, <2>5 DEF OpToRel
  <2>7. Good(n - 1)
    BY <2>2, <2>3, <2>5, <2>6
  <2> QED
    BY <1>3, <2>4, <2>5, <2>7
<1>5. Cardinality(S) \in Nat /\ Low(Cardinality(S)) = SUBSET S
  <2>1. \A T \in SUBSET S : Cardinality(T) <= Cardinality(S)
    BY FS_Subset
  <2> QED
    BY <1>1, <2>1
<1> HIDE DEF Low
<1> QED
  BY <1>4, <1>5

\* The keys without a value are deleted, and nothing else changes.
LEMMA Dropped ==
  ASSUME NEW s \in Fields, NEW gone \in SUBSET Key
  PROVE  LET r == FoldSet(LAMBDA k, t : Drop(t, k), s, gone)
         IN  /\ r \in Fields /\ (s # <<>> => r # <<>>)
             /\ \A k \in gone : Value(r, k) = "none"
             /\ \A k \in Key \ gone : Value(r, k) = Value(s, k)
<1> DEFINE h == [p \in gone \X Fields |-> Drop(p[2], p[1])]
           iter == CHOOSE f : f = [T \in SUBSET gone |->
                     IF T = {} THEN s ELSE Drop(f[T \ {Chosen(T)}], Chosen(T))]
<1>1. IsFiniteSet(gone)
  BY StoreAssumption, FS_Subset
<1>2. \A k \in gone : k \in Key
  OBVIOUS
<1>3. h \in [gone \X Fields -> Fields]
  BY <1>2, DropIs
<1>4. \A k \in gone, t \in Fields : h[<<k, t>>] = Drop(t, k)
  OBVIOUS
<1>5. PICK g \in [SUBSET gone -> Fields] : FoldsTo(g, SUBSET gone, s, h)
  <2> HIDE DEF h
  <2> QED
    BY <1>1, <1>3, FoldExists
<1>6. \A T \in SUBSET gone : T # {} => /\ Chosen(T) \in gone /\ Chosen(T) \in T
                                       /\ T \ {Chosen(T)} \in SUBSET T /\ T \ {Chosen(T)} \in SUBSET gone
                                       /\ T \ {Chosen(T)} # T
  <2> SUFFICES ASSUME NEW T \in SUBSET gone, T # {}
               PROVE  Chosen(T) \in T
    OBVIOUS
  <2> QED
    BY DEF Chosen
<1>7. g = [T \in SUBSET gone |-> IF T = {} THEN s ELSE Drop(g[T \ {Chosen(T)}], Chosen(T))]
  <2>1. \A T \in SUBSET gone :
          g[T] = IF T = {} THEN s ELSE Drop(g[T \ {Chosen(T)}], Chosen(T))
    <3> TAKE T \in SUBSET gone
    <3>1. CASE T = {}
      BY <1>5, <3>1 DEF FoldsTo
    <3>2. CASE T # {}
      <4>1. g[T \ {Chosen(T)}] \in Fields /\ Chosen(T) \in gone
        BY <1>6, <3>2
      <4>2. g[T] = h[<<Chosen(T), g[T \ {Chosen(T)}]>>]
        BY <1>5, <3>2 DEF FoldsTo
      <4> HIDE DEF h
      <4> QED
        BY <1>4, <3>2, <4>1, <4>2
    <3> QED
      BY <3>1, <3>2
  <2> QED
    BY <2>1
<1>8. iter = [T \in SUBSET gone |-> IF T = {} THEN s ELSE Drop(iter[T \ {Chosen(T)}], Chosen(T))]
  BY <1>7
<1>9. FoldSet(LAMBDA k, t : Drop(t, k), s, gone) = iter[gone]
  BY DEF FoldSet, MapThenFoldSet, Chosen
<1> DEFINE Right(T) == /\ iter[T] \in Fields /\ (s # <<>> => iter[T] # <<>>)
                       /\ \A k \in T : Value(iter[T], k) = "none"
                       /\ \A k \in Key \ T : Value(iter[T], k) = Value(s, k)
           G == {T \in SUBSET gone : Right(T)}
<1> HIDE DEF iter
<1>10. ASSUME NEW T \in SUBSET gone, \A U \in SUBSET T : U # T => U \in G
       PROVE  T \in G
  <2>1. CASE T = {}
    <3>1. iter[T] = s
      BY <1>8, <2>1
    <3> QED
      BY <2>1, <3>1
  <2>2. CASE T # {}
    <3> DEFINE k == Chosen(T)
               t == iter[T \ {k}]
    <3>1. k \in Key /\ k \in T /\ Right(T \ {k})
      BY <1>2, <1>6, <1>10, <2>2
    <3>2. iter[T] = Drop(t, k)
      BY <1>8, <2>2
    <3>3. /\ t \in Fields /\ (s # <<>> => t # <<>>)
          /\ \A l \in T \ {k} : Value(t, l) = "none"
          /\ \A l \in Key \ (T \ {k}) : Value(t, l) = Value(s, l)
      BY <3>1
    <3> HIDE DEF t, k
    <3>4. /\ Drop(t, k) \in Fields /\ Value(Drop(t, k), k) = "none"
          /\ t # <<>> => Drop(t, k) # <<>>
          /\ \A l \in Key : l # k => Value(Drop(t, k), l) = Value(t, l)
      BY <3>1, <3>3, DropIs
    <3>5. \A l \in T : Value(Drop(t, k), l) = "none"
      BY <1>2, <3>3, <3>4
    <3>6. \A l \in Key \ T : Value(Drop(t, k), l) = Value(s, l)
      BY <3>1, <3>3, <3>4
    <3> QED
      BY <3>2, <3>3, <3>4, <3>5, <3>6
  <2> QED
    BY <2>1, <2>2
<1>11. gone \in G
  <2>1. G \in SUBSET SUBSET gone
    OBVIOUS
  <2> HIDE DEF G
  <2>2. \A T \in SUBSET gone : T \in G
    BY <1>1, <1>10, <2>1, SubsetsAll
  <2> QED
    BY <2>2
<1> QED
  BY <1>9, <1>11

\* The keys with one have it, and nothing else changes.
PutAll(s, given, new) == FoldSet(LAMBDA k, t : Put(t, k, given[k]), s, new)

LEMMA Added ==
  ASSUME NEW s \in Fields, NEW given, NEW new \in SUBSET Key, \A k \in new : given[k] \in Val
  PROVE  LET r == PutAll(s, given, new)
         IN  /\ r \in Fields /\ (s # <<>> => r # <<>>)
             /\ \A k \in new : Value(r, k) = given[k]
             /\ \A k \in Key \ new : Value(r, k) = Value(s, k)
<1> DEFINE Step(T, t) == Drop(t, Chosen(T))
           h == [p \in new \X Fields |-> Put(p[2], p[1], given[p[1]])]
           iter == CHOOSE f : f = [T \in SUBSET new |->
                     IF T = {} THEN s ELSE Put(f[T \ {Chosen(T)}], Chosen(T), given[Chosen(T)])]
<1>1. IsFiniteSet(new)
  BY StoreAssumption, FS_Subset
<1>2. \A k \in new : k \in Key /\ given[k] \in Val
  OBVIOUS
<1>3. h \in [new \X Fields -> Fields]
  BY <1>2, PutIs
<1>4. \A k \in new, t \in Fields : h[<<k, t>>] = Put(t, k, given[k])
  OBVIOUS
<1>5. PICK g \in [SUBSET new -> Fields] : FoldsTo(g, SUBSET new, s, h)
  <2> HIDE DEF h
  <2> QED
    BY <1>1, <1>3, FoldExists
<1>6. \A T \in SUBSET new : T # {} => /\ Chosen(T) \in new /\ Chosen(T) \in T
                                       /\ T \ {Chosen(T)} \in SUBSET T /\ T \ {Chosen(T)} \in SUBSET new
                                       /\ T \ {Chosen(T)} # T
  <2> SUFFICES ASSUME NEW T \in SUBSET new, T # {}
               PROVE  Chosen(T) \in T
    OBVIOUS
  <2> QED
    BY DEF Chosen
<1>7. g = [T \in SUBSET new |-> IF T = {} THEN s ELSE Put(g[T \ {Chosen(T)}], Chosen(T), given[Chosen(T)])]
  <2>1. \A T \in SUBSET new :
          g[T] = IF T = {} THEN s ELSE Put(g[T \ {Chosen(T)}], Chosen(T), given[Chosen(T)])
    <3> TAKE T \in SUBSET new
    <3>1. CASE T = {}
      BY <1>5, <3>1 DEF FoldsTo
    <3>2. CASE T # {}
      <4>1. g[T \ {Chosen(T)}] \in Fields /\ Chosen(T) \in new
        BY <1>6, <3>2
      <4>2. g[T] = h[<<Chosen(T), g[T \ {Chosen(T)}]>>]
        BY <1>5, <3>2 DEF FoldsTo
      <4> HIDE DEF h
      <4> QED
        BY <1>4, <3>2, <4>1, <4>2
    <3> QED
      BY <3>1, <3>2
  <2> QED
    BY <2>1
<1>8. iter = [T \in SUBSET new |-> IF T = {} THEN s ELSE Put(iter[T \ {Chosen(T)}], Chosen(T), given[Chosen(T)])]
  BY <1>7
<1>9. PutAll(s, given, new) = iter[new]
  BY DEF PutAll, FoldSet, MapThenFoldSet, Chosen
<1> DEFINE Right(T) == /\ iter[T] \in Fields /\ (s # <<>> => iter[T] # <<>>)
                       /\ \A k \in T : Value(iter[T], k) = given[k]
                       /\ \A k \in Key \ T : Value(iter[T], k) = Value(s, k)
           G == {T \in SUBSET new : Right(T)}
<1> HIDE DEF iter
<1>10. ASSUME NEW T \in SUBSET new, \A U \in SUBSET T : U # T => U \in G
       PROVE  T \in G
  <2>1. CASE T = {}
    <3>1. iter[T] = s
      BY <1>8, <2>1
    <3> QED
      BY <2>1, <3>1
  <2>2. CASE T # {}
    <3> DEFINE k == Chosen(T)
               t == iter[T \ {k}]
    <3>1. k \in Key /\ given[k] \in Val /\ k \in T /\ Right(T \ {k})
      BY <1>2, <1>6, <1>10, <2>2
    <3>2. iter[T] = Put(t, k, given[k])
      BY <1>8, <2>2
    <3>3. /\ t \in Fields /\ (s # <<>> => t # <<>>)
          /\ \A l \in T \ {k} : Value(t, l) = given[l]
          /\ \A l \in Key \ (T \ {k}) : Value(t, l) = Value(s, l)
      BY <3>1
    <3> HIDE DEF t, k
    <3>4. /\ Put(t, k, given[k]) \in Fields /\ Value(Put(t, k, given[k]), k) = given[k]
          /\ Put(t, k, given[k]) # <<>>
          /\ \A l \in Key : l # k => Value(Put(t, k, given[k]), l) = Value(t, l)
      BY <3>1, <3>3, PutIs
    <3>5. \A l \in T : Value(Put(t, k, given[k]), l) = given[l]
      BY <1>2, <3>3, <3>4
    <3>6. \A l \in Key \ T : Value(Put(t, k, given[k]), l) = Value(s, l)
      BY <3>1, <3>3, <3>4
    <3> QED
      BY <3>2, <3>3, <3>4, <3>5, <3>6
  <2> QED
    BY <2>1, <2>2
<1>11. new \in G
  <2>1. G \in SUBSET SUBSET new
    OBVIOUS
  <2> HIDE DEF G
  <2>2. \A T \in SUBSET new : T \in G
    BY <1>1, <1>10, <2>1, SubsetsAll
  <2> QED
    BY <2>2
<1> QED
  BY <1>9, <1>11

\* A SITEMOD sets, changes and deletes what it says and leaves the rest.
LEMMA ParseKeysIs ==
  ASSUME NEW s \in Fields, NEW given, DOMAIN given \in SUBSET Key,
         \A k \in DOMAIN given : given[k] \in Val
  PROVE  LET after == ParseKeys(s, given)
         IN  /\ after \in Fields
             /\ \A k \in Key :
                  /\ Cardinality(Position(after, k)) <= 1
                  /\ s # <<>> => Value(after, k) =
                       IF k \notin DOMAIN given THEN Value(s, k)
                       ELSE IF given[k] = Blank THEN "none" ELSE given[k]
<1> DEFINE gone == IF s = <<>> THEN {} ELSE {k \in DOMAIN given : given[k] = Blank}
           kept == FoldSet(LAMBDA k, t : Drop(t, k), s, gone)
           new == DOMAIN given \ gone
           after == ParseKeys(s, given)
<1>1. gone \in SUBSET Key /\ new \in SUBSET Key /\ \A k \in new : given[k] \in Val
  OBVIOUS
<1>2. after = PutAll(kept, given, new)
  BY DEF ParseKeys, PutAll
<1>3. s # <<>> => \A k \in DOMAIN given : k \in gone <=> given[k] = Blank
  OBVIOUS
<1> HIDE DEF gone
<1>4. /\ kept \in Fields /\ \A k \in gone : Value(kept, k) = "none"
      /\ \A k \in Key \ gone : Value(kept, k) = Value(s, k)
  BY <1>1, Dropped
<1> HIDE DEF kept, after
<1>5. /\ after \in Fields /\ \A k \in new : Value(after, k) = given[k]
      /\ \A k \in Key \ new : Value(after, k) = Value(kept, k)
  <2> HIDE DEF new
  <2> QED
    BY <1>1, <1>2, <1>4, Added
<1>6. ASSUME NEW k \in Key
      PROVE  Cardinality(Position(after, k)) <= 1
  BY <1>5, ValueIs
<1>7. ASSUME NEW k \in Key, s # <<>>
      PROVE  Value(after, k) = IF k \notin DOMAIN given THEN Value(s, k)
                               ELSE IF given[k] = Blank THEN "none" ELSE given[k]
  <2>1. CASE k \in gone
    <3>1. k \in DOMAIN given /\ given[k] = Blank
      BY <1>3, <1>7, <2>1 DEF gone
    <3>2. Value(after, k) = "none"
      BY <1>4, <1>5, <2>1
    <3> QED
      BY <3>1, <3>2
  <2>2. CASE k \in new
    <3>1. given[k] # Blank /\ k \in DOMAIN given
      BY <1>3, <1>7, <2>2
    <3>2. Value(after, k) = given[k]
      BY <1>5, <2>2
    <3> QED
      BY <3>1, <3>2
  <2>3. CASE k \notin DOMAIN given
    <3>1. k \notin gone
      BY <2>3 DEF gone
    <3>2. Value(after, k) = Value(s, k)
      BY <1>4, <1>5, <2>3, <3>1
    <3> QED
      BY <2>3, <3>2
  <2> QED
    BY <2>1, <2>2, <2>3
<1> QED
  BY <1>5, <1>6, <1>7 DEF after

-----------------------------------------------------------------------------
(* The types are kept. *)

LEMMA Kinds ==
  /\ "users" \in Table /\ "sites" \in Table /\ "cwd" \in Dir /\ "home" \in Dir
  /\ \A f \in Table : f = "users" \/ f = "sites"
  /\ \A f \in Table : FileOf(f) \subseteq File /\ WriterOf(f) \subseteq Writer
BY DEF Table, Dir, File, Writer

LEMMA WriterIs ==
  ASSUME NEW w, w \in Writer
  PROVE  /\ w.table \in Table /\ w.dir \in Dir /\ w.at \in Nat \ {0}
         /\ w.lines \in Seq(Line(w.table)) /\ w \in WriterOf(w.table)
         /\ w = [table |-> w.table, dir |-> w.dir, at |-> w.at, lines |-> w.lines]
<1>1. PICK f \in Table : w \in WriterOf(f)
  BY Kinds DEF Writer
<1>2. w \in [table: {f}, dir: Dir, at: Nat \ {0}, lines: Seq(Line(f))]
  BY <1>1 DEF WriterOf
<1> QED
  BY <1>1, <1>2

LEMMA LinesAre ==
  /\ UserLine \subseteq Line("users") /\ SiteLine \subseteq Line("sites")
  /\ \A f \in Table : Hole[f] \in Line(f)
BY DEF Line, Table

LEMMA OpenedIs ==
  ASSUME NEW f \in Table, NEW dir \in Dir, NEW lines \in Seq(Line(f))
  PROVE  Opened(f, dir, lines) \in Writer
BY Kinds DEF Opened, WriterOf

\* What the tables are written as.
LEMMA UserLinesType ==
  ASSUME NEW t \in Seq(Login)
  PROVE  UserLines(t) \in Seq(Line("users"))
<1>1. UserLines(t) \in Seq(UserLine)
  BY UserLinesAre
<1> QED
  BY <1>1, LinesAre, SeqMonotonic

LEMMA SiteLinesType ==
  ASSUME NEW t \in Seq(Held)
  PROVE  SiteLines(t) \in Seq(Line("sites"))
<1>1. SiteLines(t) \in Seq(SiteLine)
  BY SiteLinesAre
<1> QED
  BY <1>1, LinesAre, SeqMonotonic

LEMMA EmptyIs == \A f \in Table : Empty \in FileOf(f) /\ Missing \in FileOf(f)
<1>1. \A f \in Table : <<>> \in Seq(Line(f))
  OBVIOUS
<1> QED
  BY <1>1 DEF Empty, Missing, FileOf

\* One file of one directory is changed.
LEMMA DiskSet ==
  ASSUME DiskType, NEW dir \in Dir, NEW f \in Table, NEW e \in FileOf(f)
  PROVE  LET after == [disk EXCEPT ![dir][f] = e]
         IN  /\ after \in [Dir -> [Table -> File]]
             /\ \A d \in Dir, g \in Table : after[d][g] \in FileOf(g)
             /\ after[dir][f] = e
             /\ \A d \in Dir, g \in Table : d # dir \/ g # f => after[d][g] = disk[d][g]
<1> DEFINE after == [disk EXCEPT ![dir][f] = e]
<1>1. disk \in [Dir -> [Table -> File]] /\ \A d \in Dir, g \in Table : disk[d][g] \in FileOf(g)
  BY DEF DiskType
<1>2. e \in File
  BY Kinds
<1>3. /\ after \in [Dir -> [Table -> File]] /\ after[dir][f] = e
      /\ \A d \in Dir, g \in Table : d # dir \/ g # f => after[d][g] = disk[d][g]
  BY <1>1, <1>2
<1>4. \A d \in Dir, g \in Table : after[d][g] \in FileOf(g)
  BY <1>1, <1>3
<1> QED
  BY <1>3, <1>4

\* Opening a file for writing empties it.
LEMMA SaveType ==
  ASSUME TypeInv, NEW f \in Table, NEW lines \in Seq(Line(f)), Save(f, where, lines), UNCHANGED reader
  PROVE  DiskType' /\ OpenType'
<1>1. where \in Dir /\ DiskType /\ OpenType
  BY DEF TypeInv, ControlType
<1>2. disk' = [disk EXCEPT ![where][f] = Empty]
  BY DEF Save
<1>3. DiskType'
  <2>1. Empty \in FileOf(f)
    BY EmptyIs
  <2> QED
    BY <1>1, <1>2, <2>1, DiskSet DEF DiskType
<1>4. writers' \in Seq(Writer)
  <2>1. Opened(f, where, lines) \in Writer
    BY <1>1, OpenedIs
  <2>2. writers' = Append(writers, Opened(f, where, lines)) /\ writers \in Seq(Writer)
    BY <1>1 DEF Save, OpenType
  <2> QED
    BY <2>1, <2>2, AppendIs
<1>5. handle' \in [Table -> BOOLEAN] /\ reader' = reader
  BY <1>1 DEF Save, OpenType
<1> QED
  BY <1>1, <1>3, <1>4, <1>5 DEF OpenType

\* All the users, each once.
LEMMA AllUsersAre ==
  /\ Cardinality(User) \in Nat
  /\ AllUsers \in [1 .. Cardinality(User) -> User]
  /\ \A i, j \in DOMAIN AllUsers : AllUsers[i] = AllUsers[j] => i = j
  /\ \A u \in User : \E i \in DOMAIN AllUsers : AllUsers[i] = u
<1> DEFINE c == Cardinality(User)
<1>1. IsFiniteSet(User) /\ c \in Nat /\ ExistsBijection(1 .. c, User)
  BY StoreAssumption, FS_CardinalityType
<1>2. PICK f \in Bijection(1 .. c, User) : TRUE
  BY <1>1 DEF ExistsBijection
<1>3. f \in [1 .. c -> User] /\ \A i, j \in DOMAIN f : f[i] = f[j] => i = j
  BY <1>2 DEF Bijection, Injection, IsInjective
<1>4. AllUsers \in [1 .. c -> User] /\ \A i, j \in DOMAIN AllUsers : AllUsers[i] = AllUsers[j] => i = j
  BY <1>3 DEF AllUsers
<1>5. AllUsers \in Injection(1 .. c, User)
  BY <1>4 DEF Injection, IsInjective
<1>6. IsFiniteSet(1 .. c) /\ Cardinality(1 .. c) = c
  BY <1>1, FS_Interval
<1>7. AllUsers \in Surjection(1 .. c, User)
  <2> HIDE DEF c
  <2>1. Cardinality(1 .. c) = Cardinality(User)
    BY <1>6 DEF c
  <2> QED
    BY <1>1, <1>5, <2>1, FS_Injection
<1>8. \A u \in User : \E i \in DOMAIN AllUsers : AllUsers[i] = u
  BY <1>4, <1>7 DEF Surjection
<1> QED
  BY <1>1, <1>4, <1>8

\* The old file of users.
LEMMA OldUsersAre ==
  LET ls == Old["users"].lines
      t == [i \in DOMAIN AllUsers |-> <<AllUsers[i], "old">>]
  IN  /\ t \in Seq(Login) /\ ls = UserLines(t)
      /\ Unlike(t) /\ Passes(t) = {<<u, "old">> : u \in User}
<1> DEFINE c == Cardinality(User)
           t == [i \in DOMAIN AllUsers |-> <<AllUsers[i], "old">>]
<1>1. c \in Nat /\ DOMAIN AllUsers = 1 .. c /\ \A i \in 1 .. c : AllUsers[i] \in User
  BY AllUsersAre
<1>2. \A i \in 1 .. c : <<AllUsers[i], "old">> \in Login
  BY <1>1 DEF Login
<1>3. t \in Seq(Login)
  <2>1. t = [i \in 1 .. c |-> <<AllUsers[i], "old">>]
    BY <1>1
  <2> HIDE DEF t, c
  <2> QED
    BY <1>1, <1>2, <2>1
<1>4. Old["users"].lines = UserLines(t)
  BY DEF Old, UserLines
<1>5. Unlike(t)
  BY AllUsersAre DEF Unlike
<1>6. Passes(t) = {<<u, "old">> : u \in User}
  <2>1. \A i \in DOMAIN t : t[i] \in {<<u, "old">> : u \in User}
    BY <1>1
  <2>2. \A u \in User : <<u, "old">> \in Passes(t)
    BY AllUsersAre DEF Passes
  <2> QED
    BY <2>1, <2>2 DEF Passes
<1> QED
  BY <1>3, <1>4, <1>5, <1>6

LEMMA OldIs ==
  /\ DOMAIN Old = Table /\ DOMAIN Absent = Table
  /\ \A f \in Table : Old[f] \in FileOf(f) /\ Old[f].there /\ Absent[f] = Missing
  /\ Old # Absent
<1>1. \A f \in Table : Absent[f] = Missing
  BY DEF Absent
<1>2. Old["users"] \in FileOf("users") /\ Old["users"].there
  <2> DEFINE t == [i \in DOMAIN AllUsers |-> <<AllUsers[i], "old">>]
             ls == Old["users"].lines
  <2>1. t \in Seq(Login) /\ ls = UserLines(t)
    BY OldUsersAre
  <2> HIDE DEF t, ls
  <2>2. ls \in Seq(Line("users"))
    BY <2>1, UserLinesType
  <2>3. Old["users"] = [there |-> TRUE, lines |-> ls]
    BY DEF Old, ls
  <2> QED
    BY <2>2, <2>3 DEF FileOf
<1>3. Old["sites"] \in FileOf("sites") /\ Old["sites"].there
  <2> DEFINE e == [tag |-> 1, extra |-> <<>>]
  <2>1. <<>> \in Fields
    BY DEF Fields, Map
  <2>2. e \in SiteLine
    BY <2>1, StoreAssumption DEF SiteLine
  <2>3. e \in Line("sites")
    BY <2>2, LinesAre
  <2> HIDE DEF e
  <2>4. <<e>> \in Seq(Line("sites"))
    BY <2>3
  <2>5. Old["sites"] = [there |-> TRUE, lines |-> <<e>>]
    BY DEF Old, e
  <2> QED
    BY <2>4, <2>5 DEF FileOf
<1>4. DOMAIN Old = Table /\ DOMAIN Absent = Table
  BY DEF Old, Absent, Table
<1>5. Old # Absent
  <2>1. ~ Missing.there
    BY DEF Missing
  <2> QED
    BY <1>1, <1>2, <2>1, Kinds
<1> QED
  BY <1>1, <1>2, <1>3, <1>4, <1>5, Kinds

LEMMA TypeInit == Init => TypeInv
<1> SUFFICES ASSUME Init
             PROVE  TypeInv
  OBVIOUS
<1>1. /\ pc = "down" /\ args \in Arguments /\ home = FALSE /\ where = "cwd" /\ saveAll = FALSE
      /\ port = "default" /\ cmds = 0 /\ starts = 0 /\ users = <<>> /\ sites = <<>>
      /\ mute = FALSE /\ warned = FALSE /\ odd = {} /\ writers = <<>>
      /\ conf = [d \in Dir |-> IF disk[d] = Absent THEN "none" ELSE "file"]
      /\ handle = [f \in Table |-> FALSE] /\ reader = [f \in Table |-> NotReading]
      /\ wanted = IF disk["cwd"] = Old THEN {1} ELSE {}
      /\ passes = [u \in IF disk["cwd"] = Old THEN User ELSE {Admin} |-> "old"]
  BY DEF Init
<1>2. PICK old \in {Old, Absent} : disk = [d \in Dir |-> IF d = "cwd" THEN old ELSE Absent]
  BY DEF Init
<1>3. ControlType
  <2>1. conf \in [Dir -> {"none", "default", "file"}]
    BY <1>1
  <2>2. 0 \in 0 .. MaxStarts
    BY StoreAssumption
  <2>3. /\ pc = "down" /\ args \in Arguments /\ home = FALSE /\ where = "cwd" /\ saveAll = FALSE
        /\ port = "default" /\ starts = 0
    BY <1>1
  <2> QED
    BY <2>1, <2>2, <2>3, Kinds DEF ControlType
<1>4. TableType
  <2>1. users = <<>> /\ sites = <<>>
    BY <1>1
  <2>2. mute = FALSE /\ warned = FALSE
    BY <1>1
  <2>3. <<>> \in Seq(Login) /\ <<>> \in Seq(Held)
    OBVIOUS
  <2>4. users \in Seq(Login) /\ sites \in Seq(Held)
    BY <2>1, <2>3, Zenon
  <2>5. mute \in BOOLEAN /\ warned \in BOOLEAN
    BY <2>2
  <2> QED
    BY <2>4, <2>5 DEF TableType
<1>5. ToldType
  <2> DEFINE us == IF disk["cwd"] = Old THEN User ELSE {Admin}
  <2>1. us \in SUBSET User
    BY StoreAssumption
  <2>2. passes = [u \in us |-> "old"]
    BY <1>1
  <2> HIDE DEF us
  <2>3. passes \in [us -> {"old", "new"}]
    BY <2>2
  <2> QED
    BY <1>1, <2>1, <2>3, StoreAssumption DEF ToldType
<1>6. OddType
  BY <1>1 DEF OddType
<1>7. DiskType
  <2>1. \A d \in Dir, f \in Table : (IF d = "cwd" THEN old ELSE Absent)[f] \in FileOf(f)
    BY OldIs, EmptyIs
  <2>2. \A d \in Dir : DOMAIN (IF d = "cwd" THEN old ELSE Absent) = Table
    BY OldIs
  <2>3. \A d \in Dir, f \in Table : (IF d = "cwd" THEN old ELSE Absent)[f] \in File
    BY <2>1, Kinds
  <2>4. \A d \in Dir : (IF d = "cwd" THEN old ELSE Absent) = [f \in Table |-> (IF d = "cwd" THEN old ELSE Absent)[f]]
    BY OldIs DEF Old, Absent, Table
  <2>5. \A d \in Dir : (IF d = "cwd" THEN old ELSE Absent) \in [Table -> File]
    BY <2>3, <2>4
  <2> QED
    BY <1>2, <2>1, <2>5 DEF DiskType
<1>8. OpenType
  <2>1. NotReading \in [dir: Dir, at: Nat]
    BY Kinds DEF NotReading
  <2> QED
    BY <1>1, <2>1 DEF OpenType
<1> QED
  BY <1>3, <1>4, <1>5, <1>6, <1>7, <1>8 DEF TypeInv

LEMMA TypeStart ==
  ASSUME TypeInv, Start
  PROVE  TypeInv'
<1>1. ControlType /\ OddType
  BY DEF TypeInv
<1>2. ControlType'
  <2>1. /\ starts < MaxStarts /\ starts' = starts + 1 /\ home' = TRUE /\ port' = "default"
        /\ args' = args /\ saveAll' \in BOOLEAN /\ where' \in Dir
    BY Kinds, Zenon DEF Start, started
  <2>2. (pc' = "down" /\ conf' = conf)
        \/ (pc' = "settings" /\ conf' = [conf EXCEPT ![where'] = IF @ = "none" THEN "default" ELSE @])
    BY DEF Start
  <2>3. starts' \in 0 .. MaxStarts
    BY <1>1, <2>1, StoreAssumption DEF ControlType
  <2>4. conf' \in [Dir -> {"none", "default", "file"}] /\ (pc' = "settings" => conf'[where'] # "none")
    BY <1>1, <2>1, <2>2 DEF ControlType
  <2>5. pc' \in {"down", "settings", "wait", "up"}
    BY <2>2
  <2> QED
    BY <1>1, <2>1, <2>3, <2>4, <2>5 DEF ControlType
<1>3. OddType'
  BY <1>1 DEF OddType, Start
<1>4. UNCHANGED <<users, sites, mute, warned, disk, handle, reader, writers, cmds, wanted, passes>>
  BY DEF Start, memory, files
<1>5. TableType' /\ ToldType' /\ DiskType' /\ OpenType'
  BY <1>4 DEF TypeInv, TableType, ToldType, DiskType, OpenType
<1> QED
  BY <1>2, <1>3, <1>5 DEF TypeInv

LEMMA TypeSettingsRead ==
  ASSUME TypeInv, SettingsRead
  PROVE  TypeInv'
<1>1. ControlType /\ TableType /\ ToldType /\ OddType /\ DiskType /\ OpenType
  BY DEF TypeInv
<1>2. /\ pc = "settings" /\ pc' \in {"wait", "up"} /\ port' = conf[where] /\ sites' = <<>>
      /\ mute' \in BOOLEAN
      /\ UNCHANGED <<args, home, starts, where, saveAll, conf, warned, cmds, wanted, passes, odd>>
  BY DEF SettingsRead, started, told
<1>3. ControlType'
  <2>1. conf[where] \in {"default", "file"}
    BY <1>1, <1>2 DEF ControlType
  <2> QED
    BY <1>1, <1>2, <2>1 DEF ControlType
<1>4. where \in Dir
  BY <1>1 DEF ControlType
<1>5. TableType' /\ DiskType' /\ writers' \in Seq(Writer)
  <2>1. sites' \in Seq(Held) /\ mute' \in BOOLEAN /\ warned' \in BOOLEAN
    BY <1>1, <1>2 DEF TableType
  <2>2. CASE ~ disk[where]["users"].there
    <3>1. users' = <<<<Admin, "old">>>> /\ disk' = [disk EXCEPT ![where]["users"] = Empty]
          /\ writers' = <<Opened("users", where, UserLines(users'))>>
      BY <2>2 DEF SettingsRead
    <3>2. <<Admin, "old">> \in Login
      BY StoreAssumption DEF Login
    <3>3. users' \in Seq(Login)
      BY <3>1, <3>2
    <3>4. DiskType'
      BY <1>1, <1>4, <3>1, DiskSet, EmptyIs, Kinds DEF DiskType
    <3>5. Opened("users", where, UserLines(users')) \in Writer
      BY <1>4, <3>3, UserLinesType, OpenedIs, Kinds
    <3> QED
      BY <2>1, <3>1, <3>3, <3>4, <3>5 DEF TableType
  <2>3. CASE disk[where]["users"].there
    <3>1. users' = <<>> /\ disk' = disk /\ writers' = writers
      BY <2>3 DEF SettingsRead
    <3>2. <<>> \in Seq(Login)
      OBVIOUS
    <3>3. users' \in Seq(Login)
      BY <3>1, <3>2, Zenon
    <3> QED
      BY <1>1, <2>1, <3>1, <3>3 DEF TableType, DiskType, OpenType
  <2> QED
    BY <2>2, <2>3
<1>6. OpenType'
  <2>1. reader' = [f \in Table |->
          IF disk[where][f].there THEN [dir |-> where, at |-> 1] ELSE NotReading]
    BY DEF SettingsRead
  <2>2. reader' \in [Table -> [dir: Dir, at: Nat]]
    BY <1>4, <2>1, Kinds DEF NotReading
  <2>3. handle' = [f \in Table |-> f = "users" \/ disk[where][f].there]
    BY DEF SettingsRead
  <2>4. handle' \in [Table -> BOOLEAN]
    <3>1. \A f \in Table : disk[where][f].there \in BOOLEAN
      BY <1>1, <1>4 DEF DiskType, FileOf
    <3> QED
      BY <2>3, <3>1
  <2> QED
    BY <1>5, <2>2, <2>4 DEF OpenType
<1>7. ToldType' /\ OddType'
  BY <1>1, <1>2 DEF ToldType, OddType
<1> QED
  BY <1>3, <1>5, <1>6, <1>7 DEF TypeInv

LEMMA TypeSaveAll ==
  ASSUME TypeInv, SaveAll
  PROVE  TypeInv'
<1> DEFINE dir == IF args.cwd THEN "cwd" ELSE "home"
           us == Opened("users", dir, UserLines(users))
           ss == Opened("sites", dir, SiteLines(sites))
<1>1. ControlType /\ TableType /\ ToldType /\ OddType /\ DiskType /\ OpenType
  BY DEF TypeInv
<1>2. /\ where' = dir /\ conf' = [conf EXCEPT ![dir] = port]
      /\ disk' = [disk EXCEPT ![dir] = [f \in Table |-> Empty]]
      /\ writers' = writers \o <<us, ss>> /\ handle' = [f \in Table |-> TRUE]
      /\ mute' = TRUE /\ saveAll' = FALSE /\ pc' = "up"
      /\ UNCHANGED <<args, home, starts, port, users, sites, reader, warned, cmds, wanted, passes, odd>>
  BY DEF SaveAll, started, told
<1>3. dir \in Dir
  BY Kinds
<1>4. us \in Writer /\ ss \in Writer
  BY <1>1, <1>3, UserLinesType, SiteLinesType, OpenedIs, Kinds DEF TableType
<1> HIDE DEF dir, us, ss
<1>5. ControlType'
  BY <1>1, <1>2, <1>3 DEF ControlType
<1>6. TableType' /\ ToldType' /\ OddType'
  BY <1>1, <1>2 DEF TableType, ToldType, OddType
<1>7. DiskType'
  <2>1. [f \in Table |-> Empty] \in [Table -> File]
    BY EmptyIs, Kinds
  <2> QED
    BY <1>1, <1>2, <1>3, <2>1, EmptyIs DEF DiskType
<1>8. writers' \in Seq(Writer)
  <2>1. <<us, ss>> \in Seq(Writer)
    BY <1>4
  <2> QED
    BY <1>1, <1>2, <2>1, ConcatProperties DEF OpenType
<1>9. OpenType'
  BY <1>1, <1>2, <1>8 DEF OpenType
<1> QED
  BY <1>5, <1>6, <1>7, <1>9 DEF TypeInv

LEMMA TypeStop ==
  ASSUME TypeInv, Stop
  PROVE  TypeInv'
<1>1. ControlType /\ TableType /\ ToldType /\ OddType /\ DiskType /\ OpenType
  BY DEF TypeInv
<1>2. /\ pc' = "down" /\ saveAll' = FALSE /\ mute' = FALSE /\ warned' = FALSE
      /\ UNCHANGED <<args, home, starts, where, port, conf, disk, cmds, wanted, passes>>
  BY DEF Stop, started
<1>3. handle' = [f \in Table |-> FALSE] /\ reader' = [f \in Table |-> NotReading]
  BY DEF Stop
<1>4. users' = <<>> /\ sites' = <<>> /\ writers' = <<>>
  BY DEF Stop
<1>5. <<>> \in Seq(Login) /\ <<>> \in Seq(Held) /\ <<>> \in Seq(Writer)
  OBVIOUS
<1>6. users' \in Seq(Login) /\ sites' \in Seq(Held) /\ writers' \in Seq(Writer)
  BY <1>4, <1>5, Zenon
<1>7. ControlType'
  BY <1>1, <1>2 DEF ControlType
<1>8. TableType' /\ ToldType' /\ DiskType'
  BY <1>1, <1>2, <1>6 DEF TableType, ToldType, DiskType
<1>9. OddType'
  BY <1>1 DEF OddType, Stop
<1>10. OpenType'
  <2>1. NotReading \in [dir: Dir, at: Nat]
    BY Kinds DEF NotReading
  <2> QED
    BY <1>3, <1>6, <2>1 DEF OpenType
<1> QED
  BY <1>7, <1>8, <1>9, <1>10 DEF TypeInv

LEMMA PrependIs ==
  ASSUME NEW S, NEW s \in Seq(S), NEW e \in S
  PROVE  /\ <<e>> \o s \in Seq(S) /\ Len(<<e>> \o s) = Len(s) + 1
         /\ DOMAIN (<<e>> \o s) = 1 .. Len(s) + 1
         /\ (<<e>> \o s)[1] = e
         /\ \A i \in 2 .. Len(s) + 1 : (<<e>> \o s)[i] = s[i - 1]
         /\ \A i \in 1 .. Len(s) : (<<e>> \o s)[i + 1] = s[i]
<1>1. <<e>> \in Seq(S) /\ Len(<<e>>) = 1 /\ <<e>>[1] = e /\ Len(s) \in Nat
  OBVIOUS
<1>2. /\ <<e>> \o s \in Seq(S) /\ Len(<<e>> \o s) = 1 + Len(s)
      /\ \A i \in 1 .. 1 + Len(s) : (<<e>> \o s)[i] = IF i <= 1 THEN <<e>>[i] ELSE s[i - 1]
  BY <1>1, ConcatProperties
<1> DEFINE t == <<e>> \o s
<1> HIDE DEF t
<1>3. /\ t \in Seq(S) /\ Len(t) = 1 + Len(s)
      /\ \A i \in 1 .. 1 + Len(s) : t[i] = IF i <= 1 THEN <<e>>[i] ELSE s[i - 1]
  BY <1>2 DEF t
<1>4. DOMAIN t = 1 .. Len(s) + 1 /\ t[1] = e
  BY <1>1, <1>3
<1>5. \A i \in 2 .. Len(s) + 1 : t[i] = s[i - 1]
  BY <1>1, <1>3
<1>6. \A i \in 1 .. Len(s) : t[i + 1] = s[i]
  BY <1>1, <1>3
<1>7. Len(t) = Len(s) + 1
  BY <1>1, <1>3
<1> QED
  BY <1>3, <1>4, <1>5, <1>6, <1>7 DEF t

\* What a line of a file can be, and what is done with it.
LEMMA LineRead ==
  ASSUME TypeInv, NEW f \in Table, ReadLine(f)
  PROVE  LET lines == disk[reader[f].dir][f].lines
             line == lines[reader[f].at]
         IN  /\ lines \in Seq(Line(f)) /\ reader[f].at \in 1 .. Len(lines)
             /\ \/ line = Hole[f] /\ UNCHANGED <<users, sites, mute>>
                \/ f = "users" /\ line = Mute /\ mute' = TRUE /\ UNCHANGED <<users, sites>>
                \/ f = "users" /\ line \in Login /\ users' = <<line>> \o users /\ UNCHANGED <<mute, sites>>
                \/ /\ f = "sites" /\ line \in SiteLine /\ UNCHANGED <<mute, users>>
                   /\ sites' = <<[tag |-> line.tag, named |-> TRUE, extra |-> line.extra]>> \o sites
<1> DEFINE lines == disk[reader[f].dir][f].lines
           line == lines[reader[f].at]
<1>1. reader[f] \in [dir: Dir, at: Nat]
  BY DEF TypeInv, OpenType
<1>2. disk[reader[f].dir][f] \in FileOf(f)
  BY <1>1 DEF TypeInv, DiskType
<1>3. lines \in Seq(Line(f))
  BY <1>2 DEF FileOf
<1>4. reader[f].at <= Len(lines) /\ reader[f].at # 0
  BY DEF ReadLine, Reading
<1>5. (CASE line = Hole[f] -> UNCHANGED <<users, sites, mute>>
        [] f = "users" /\ line = Mute -> mute' = TRUE /\ UNCHANGED <<users, sites>>
        [] f = "users" /\ line \in Login -> users' = <<line>> \o users /\ UNCHANGED <<mute, sites>>
        [] f = "sites" /\ line # Hole[f] ->
             /\ sites' = <<[tag |-> line.tag, named |-> TRUE, extra |-> line.extra]>> \o sites
             /\ UNCHANGED <<mute, users>>)
  BY DEF ReadLine
<1> DEFINE site == <<[tag |-> line.tag, named |-> TRUE, extra |-> line.extra]>> \o sites
           user == <<line>> \o users
<1> HIDE DEF lines
<1>6. reader[f].at \in 1 .. Len(lines)
  BY <1>1, <1>3, <1>4
<1>7. line \in Line(f)
  BY <1>3, <1>6
<1> HIDE DEF line, site, user
<1>8. CASE f = "users"
  <2>1. line \in Login \cup {Mute} \cup {Hole[f]}
    BY <1>7, <1>8 DEF Line, UserLine
  <2>2. f # "sites"
    BY <1>8
  <2> QED
    BY <1>3, <1>5, <1>6, <1>8, <2>1, <2>2 DEF line, lines, site, user
<1>9. CASE f = "sites"
  <2>1. line \in SiteLine \cup {Hole[f]}
    BY <1>7, <1>9 DEF Line
  <2>2. f # "users"
    BY <1>9
  <2> QED
    BY <1>3, <1>5, <1>6, <1>9, <2>1, <2>2 DEF line, lines, site, user
<1> QED
  BY <1>8, <1>9, Kinds

LEMMA HeldIs ==
  ASSUME NEW line \in SiteLine
  PROVE  [tag |-> line.tag, named |-> TRUE, extra |-> line.extra] \in Held
BY DEF SiteLine, Held

LEMMA TypeReadLine ==
  ASSUME TypeInv, NEW f \in Table, ReadLine(f)
  PROVE  TypeInv'
<1> DEFINE lines == disk[reader[f].dir][f].lines
           line == lines[reader[f].at]
<1>1. ControlType /\ TableType /\ ToldType /\ OddType /\ DiskType /\ OpenType
  BY DEF TypeInv
<1>2. /\ UNCHANGED <<pc, args, home, starts, where, saveAll, port, conf, disk, handle, writers, warned>>
      /\ UNCHANGED <<cmds, wanted, passes, odd>>
      /\ reader' = [reader EXCEPT ![f].at = @ + 1]
  BY DEF ReadLine, started, told
<1>3. \/ line = Hole[f] /\ UNCHANGED <<users, sites, mute>>
      \/ f = "users" /\ line = Mute /\ mute' = TRUE /\ UNCHANGED <<users, sites>>
      \/ f = "users" /\ line \in Login /\ users' = <<line>> \o users /\ UNCHANGED <<mute, sites>>
      \/ /\ f = "sites" /\ line \in SiteLine /\ UNCHANGED <<mute, users>>
         /\ sites' = <<[tag |-> line.tag, named |-> TRUE, extra |-> line.extra]>> \o sites
  BY LineRead
<1> DEFINE site == [tag |-> line.tag, named |-> TRUE, extra |-> line.extra]
<1>4. line \in SiteLine => site \in Held
  BY HeldIs
<1> HIDE DEF line, site
<1>5. users' = users \/ (line \in Login /\ users' = <<line>> \o users)
  BY <1>3
<1>6. users' \in Seq(Login)
  BY <1>1, <1>5, PrependIs DEF TableType
<1>7. sites' = sites \/ (line \in SiteLine /\ sites' = <<site>> \o sites)
  BY <1>3 DEF site
<1>8. sites' \in Seq(Held)
  BY <1>1, <1>4, <1>7, PrependIs DEF TableType
<1>9. mute' \in BOOLEAN /\ warned' \in BOOLEAN
  BY <1>1, <1>2, <1>3 DEF TableType
<1>10. TableType'
  BY <1>6, <1>8, <1>9 DEF TableType
<1>11. ControlType' /\ ToldType' /\ OddType' /\ DiskType'
  BY <1>1, <1>2 DEF ControlType, ToldType, OddType, DiskType
<1>12. OpenType'
  BY <1>1, <1>2 DEF OpenType
<1> QED
  BY <1>10, <1>11, <1>12 DEF TypeInv

LEMMA TypeReadEnd ==
  ASSUME TypeInv, NEW f \in Table, ReadEnd(f)
  PROVE  TypeInv'
<1>1. ControlType /\ TableType /\ ToldType /\ OddType /\ DiskType /\ OpenType
  BY DEF TypeInv
<1>2. /\ UNCHANGED <<pc, args, home, starts, where, saveAll, port, conf, disk, writers, users, sites, mute>>
      /\ UNCHANGED <<cmds, wanted, passes, odd>>
      /\ reader' = [reader EXCEPT ![f] = NotReading] /\ handle' = [handle EXCEPT ![f] = FALSE]
      /\ warned' = (warned \/ (f = "users" /\ ~mute))
  BY DEF ReadEnd, FileClosed, started, told
<1>3. warned' \in BOOLEAN
  BY <1>2
<1>4. TableType'
  BY <1>1, <1>2, <1>3 DEF TableType
<1>5. ControlType' /\ ToldType' /\ OddType' /\ DiskType'
  BY <1>1, <1>2 DEF ControlType, ToldType, OddType, DiskType
<1>6. OpenType'
  <2>1. NotReading \in [dir: Dir, at: Nat]
    BY Kinds DEF NotReading
  <2> QED
    BY <1>1, <1>2, <2>1 DEF OpenType
<1> QED
  BY <1>4, <1>5, <1>6 DEF TypeInv

\* The file after a line was written where the writer has come to.
LEMMA LineWritten ==
  ASSUME TypeInv, NEW i, WriteLine(i)
  PROVE  LET w == writers[i]
             old == disk[w.dir][w.table].lines
             new == disk'[w.dir][w.table].lines
         IN  /\ i \in DOMAIN writers /\ w \in Writer /\ w.lines # <<>>
             /\ DiskType'
             /\ new \in Seq(Line(w.table))
             /\ Len(new) = IF w.at > Len(old) THEN w.at ELSE Len(old)
             /\ \A n \in DOMAIN new :
                  new[n] = IF n = w.at THEN Head(w.lines)
                           ELSE IF n <= Len(old) THEN old[n] ELSE Hole[w.table]
             /\ disk'[w.dir][w.table].there = disk[w.dir][w.table].there
             /\ \A d \in Dir, g \in Table : d # w.dir \/ g # w.table => disk'[d][g] = disk[d][g]
             /\ writers' = [writers EXCEPT ![i].at = @ + 1, ![i].lines = Tail(@)]
<1> DEFINE w == writers[i]
           file == disk[w.dir][w.table]
           old == file.lines
           len == IF w.at > Len(old) THEN w.at ELSE Len(old)
           new == [n \in 1 .. len |-> IF n = w.at THEN Head(w.lines)
                                      ELSE IF n <= Len(old) THEN old[n] ELSE Hole[w.table]]
           e == [file EXCEPT !.lines = new]
<1>1. i \in DOMAIN writers /\ w.lines # <<>>
  BY DEF WriteLine
<1>2. w \in Writer
  BY <1>1 DEF TypeInv, OpenType
<1>3. w.table \in Table /\ w.dir \in Dir /\ w.at \in Nat \ {0} /\ w.lines \in Seq(Line(w.table))
  BY <1>2, WriterIs
<1>4. file \in FileOf(w.table) /\ DiskType
  BY <1>3 DEF TypeInv, DiskType
<1>5. old \in Seq(Line(w.table)) /\ file = [there |-> file.there, lines |-> old] /\ file.there \in BOOLEAN
  BY <1>4 DEF FileOf
<1>6. Head(w.lines) \in Line(w.table) /\ Hole[w.table] \in Line(w.table)
  <2> HIDE DEF w
  <2> QED
    BY <1>1, <1>3, LinesAre
<1>7. len \in Nat
  <2> HIDE DEF old, w
  <2> QED
    BY <1>3, <1>5
<1>8. new \in Seq(Line(w.table)) /\ Len(new) = len
  <2>1. \A n \in 1 .. len : (IF n = w.at THEN Head(w.lines)
                             ELSE IF n <= Len(old) THEN old[n] ELSE Hole[w.table]) \in Line(w.table)
    <3> HIDE DEF w, old, len
    <3> QED
      BY <1>3, <1>5, <1>6, <1>7
  <2> HIDE DEF w, old, len
  <2> QED
    BY <1>7, <2>1
<1>9. e = [there |-> file.there, lines |-> new] /\ e.there = file.there /\ e.lines = new
  <2> HIDE DEF new, old
  <2>1. file = [there |-> file.there, lines |-> old]
    BY <1>5
  <2> HIDE DEF file
  <2> QED
    BY <2>1
<1>10. e \in FileOf(w.table)
  <2> HIDE DEF e, new, w, file
  <2> QED
    BY <1>5, <1>8, <1>9 DEF FileOf
<1>11. disk' = [disk EXCEPT ![w.dir][w.table] = e]
  <2>1. disk' = [disk EXCEPT ![w.dir][w.table].lines =
              [n \in 1 .. (IF w.at > Len(@) THEN w.at ELSE Len(@)) |->
                 IF n = w.at THEN Head(w.lines) ELSE IF n <= Len(@) THEN @[n] ELSE Hole[w.table]]]
    BY DEF WriteLine
  <2> HIDE DEF w
  <2> QED
    BY <2>1
<1>12. /\ DiskType' /\ disk'[w.dir][w.table] = e
       /\ \A d \in Dir, g \in Table : d # w.dir \/ g # w.table => disk'[d][g] = disk[d][g]
  <2> DEFINE dir == w.dir
             f == w.table
  <2>1. dir \in Dir /\ f \in Table /\ e \in FileOf(f) /\ disk' = [disk EXCEPT ![dir][f] = e]
    BY <1>3, <1>10, <1>11
  <2> HIDE DEF e, w, dir, f
  <2>2. /\ disk' \in [Dir -> [Table -> File]]
        /\ \A d \in Dir, g \in Table : disk'[d][g] \in FileOf(g)
        /\ disk'[dir][f] = e
        /\ \A d \in Dir, g \in Table : d # dir \/ g # f => disk'[d][g] = disk[d][g]
    BY <1>4, <2>1, DiskSet
  <2> QED
    BY <2>2 DEF DiskType, dir, f
<1>13. disk'[w.dir][w.table].lines = new /\ disk'[w.dir][w.table].there = file.there
  <2> HIDE DEF e, new, w, file
  <2> QED
    BY <1>9, <1>12
<1>14. writers' = [writers EXCEPT ![i].at = @ + 1, ![i].lines = Tail(@)]
  BY DEF WriteLine
<1>15. \A n \in DOMAIN new : new[n] = IF n = w.at THEN Head(w.lines)
                                      ELSE IF n <= Len(old) THEN old[n] ELSE Hole[w.table]
  <2> HIDE DEF w, old, len
  <2> QED
    OBVIOUS
<1> HIDE DEF new
<1> QED
  BY <1>1, <1>2, <1>8, <1>12, <1>13, <1>14, <1>15

\* The writer after it, and the others.
LEMMA WriterAfter ==
  ASSUME TypeInv, NEW i, WriteLine(i)
  PROVE  /\ writers' \in Seq(Writer) /\ DOMAIN writers' = DOMAIN writers /\ i \in DOMAIN writers
         /\ writers'[i].table = writers[i].table /\ writers'[i].dir = writers[i].dir
         /\ writers'[i].at = writers[i].at + 1 /\ writers'[i].lines = Tail(writers[i].lines)
         /\ \A j \in DOMAIN writers : j # i => writers'[j] = writers[j]
<1> DEFINE w == writers[i]
           e == [table |-> w.table, dir |-> w.dir, at |-> w.at + 1, lines |-> Tail(w.lines)]
<1>1. i \in DOMAIN writers /\ w.lines # <<>> /\ writers \in Seq(Writer)
  BY DEF WriteLine, TypeInv, OpenType
<1>2. w \in Writer
  BY <1>1
<1>3. /\ w.table \in Table /\ w.dir \in Dir /\ w.at \in Nat \ {0} /\ w.lines \in Seq(Line(w.table))
      /\ w = [table |-> w.table, dir |-> w.dir, at |-> w.at, lines |-> w.lines]
  BY <1>2, WriterIs
<1>4. Tail(w.lines) \in Seq(Line(w.table))
  <2> HIDE DEF w
  <2> QED
    BY <1>1, <1>3
<1>5. e \in WriterOf(w.table)
  <2> HIDE DEF w
  <2>1. w.at + 1 \in Nat \ {0}
    BY <1>3
  <2> QED
    BY <1>3, <1>4, <2>1 DEF WriterOf
<1>6. e \in Writer
  BY <1>3, <1>5, Kinds
<1>7. writers' = [writers EXCEPT ![i].at = @ + 1, ![i].lines = Tail(@)]
  BY DEF WriteLine
<1>8. writers' = [writers EXCEPT ![i] = [[w EXCEPT !.at = @ + 1] EXCEPT !.lines = Tail(@)]]
  BY <1>1, <1>7
<1>9. [[w EXCEPT !.at = @ + 1] EXCEPT !.lines = Tail(@)] = e
  <2> HIDE DEF w
  <2> DEFINE x == [w EXCEPT !.at = @ + 1]
             y == [table |-> w.table, dir |-> w.dir, at |-> w.at + 1, lines |-> w.lines]
  <2>1. x = y
    BY <1>3
  <2>2. y.lines = w.lines
    OBVIOUS
  <2>3. [y EXCEPT !.lines = Tail(w.lines)] = e
    <3> DEFINE rest == Tail(w.lines)
    <3> HIDE DEF rest
    <3>1. [y EXCEPT !.lines = rest] = [table |-> w.table, dir |-> w.dir, at |-> w.at + 1, lines |-> rest]
      OBVIOUS
    <3> QED
      BY <3>1 DEF rest
  <2>4. [y EXCEPT !.lines = Tail(@)] = e
    <3>1. [y EXCEPT !.lines = Tail(@)] = [y EXCEPT !.lines = Tail(y.lines)]
      OBVIOUS
    <3> HIDE DEF y, e
    <3> QED
      BY <2>2, <2>3, <3>1
  <2> HIDE DEF x, y
  <2>5. [x EXCEPT !.lines = Tail(@)] = e
    BY <2>1, <2>4
  <2> QED
    BY <2>5 DEF x
<1>10. writers' = [writers EXCEPT ![i] = e]
  BY <1>8, <1>9
<1> HIDE DEF e
<1>11. /\ writers' \in Seq(Writer) /\ DOMAIN writers' = DOMAIN writers /\ writers'[i] = e
       /\ \A j \in DOMAIN writers : j # i => writers'[j] = writers[j]
  BY <1>1, <1>6, <1>10, SlotSet
<1>12. e.table = w.table /\ e.dir = w.dir /\ e.at = w.at + 1 /\ e.lines = Tail(w.lines)
  BY DEF e
<1> HIDE DEF w
<1> QED
  BY <1>1, <1>11, <1>12 DEF w

LEMMA TypeWriteLine ==
  ASSUME TypeInv, NEW i, WriteLine(i)
  PROVE  TypeInv'
<1>1. ControlType /\ TableType /\ ToldType /\ OddType /\ DiskType /\ OpenType
  BY DEF TypeInv
<1>2. /\ UNCHANGED <<pc, args, home, starts, where, saveAll, port, conf, handle, reader>>
      /\ UNCHANGED <<users, sites, mute, warned, cmds, wanted, passes, odd>>
  BY DEF WriteLine, started, told, memory
<1>3. DiskType'
  BY LineWritten
<1>4. writers' \in Seq(Writer)
  BY WriterAfter
<1>5. ControlType' /\ TableType' /\ ToldType' /\ OddType'
  BY <1>1, <1>2 DEF ControlType, TableType, ToldType, OddType
<1>6. OpenType'
  BY <1>1, <1>2, <1>4 DEF OpenType
<1> QED
  BY <1>3, <1>5, <1>6 DEF TypeInv

\* What is left when one of the writers has come to its end.
LEMMA WriterGone ==
  ASSUME TypeInv, NEW i, WriteEnd(i)
  PROVE  /\ i \in DOMAIN writers /\ writers[i].table \in Table /\ writers[i].lines = <<>>
         /\ writers' \in Seq(Writer) /\ Len(writers') = Len(writers) - 1
         /\ \A j \in DOMAIN writers' : \E k \in DOMAIN writers : k # i /\ writers'[j] = writers[k]
         /\ \A j, k \in DOMAIN writers' : j # k =>
              \E m, n \in DOMAIN writers : m # n /\ writers'[j] = writers[m] /\ writers'[k] = writers[n]
         /\ \A k \in DOMAIN writers : k # i => \E j \in DOMAIN writers' : writers'[j] = writers[k]
<1>1. i \in DOMAIN writers /\ writers[i].lines = <<>>
      /\ writers' = [j \in 1 .. Len(writers) - 1 |-> writers[IF j < i THEN j ELSE j + 1]]
  BY DEF WriteEnd
<1>2. writers \in Seq(Writer)
  BY DEF TypeInv, OpenType
<1>3. writers[i].table \in Table
  BY <1>1, <1>2, WriterIs
<1>4. Len(writers) \in Nat /\ DOMAIN writers = 1 .. Len(writers)
  BY <1>2
<1> DEFINE at(j) == IF j < i THEN j ELSE j + 1
<1>5. \A j \in 1 .. Len(writers) - 1 : at(j) \in 1 .. Len(writers) /\ at(j) # i
  BY <1>1, <1>4
<1>6. \A j, k \in 1 .. Len(writers) - 1 : j # k => at(j) # at(k)
  BY <1>1, <1>4
<1>7. \A k \in 1 .. Len(writers) : k # i => \E j \in 1 .. Len(writers) - 1 : at(j) = k
  <2> TAKE k \in 1 .. Len(writers)
  <2> HAVE k # i
  <2> DEFINE j == IF k < i THEN k ELSE k - 1
  <2>1. j \in 1 .. Len(writers) - 1 /\ at(j) = k
    BY <1>1, <1>4
  <2> QED
    BY <2>1
<1>8. /\ DOMAIN writers' = 1 .. Len(writers) - 1
      /\ \A j \in 1 .. Len(writers) - 1 : writers'[j] = writers[at(j)]
  BY <1>1
<1>9. writers' \in Seq(Writer) /\ Len(writers') = Len(writers) - 1
  <2>1. \A j \in 1 .. Len(writers) - 1 : writers[at(j)] \in Writer
    BY <1>2, <1>4, <1>5
  <2>2. Len(writers) - 1 \in Nat
    BY <1>1, <1>4
  <2>3. writers' = [j \in 1 .. Len(writers) - 1 |-> writers[at(j)]]
    BY <1>1
  <2> HIDE DEF at
  <2> QED
    BY <2>1, <2>2, <2>3
<1> HIDE DEF at
<1>10. \A j \in DOMAIN writers' : \E k \in DOMAIN writers : k # i /\ writers'[j] = writers[k]
  BY <1>4, <1>5, <1>8
<1>11. \A j, k \in DOMAIN writers' : j # k =>
         \E m, n \in DOMAIN writers : m # n /\ writers'[j] = writers[m] /\ writers'[k] = writers[n]
  <2> SUFFICES ASSUME NEW j \in DOMAIN writers', NEW k \in DOMAIN writers', j # k
               PROVE  \E m, n \in DOMAIN writers :
                        m # n /\ writers'[j] = writers[m] /\ writers'[k] = writers[n]
    OBVIOUS
  <2>1. /\ at(j) \in DOMAIN writers /\ at(k) \in DOMAIN writers /\ at(j) # at(k)
        /\ writers'[j] = writers[at(j)] /\ writers'[k] = writers[at(k)]
    BY <1>4, <1>5, <1>6, <1>8
  <2> QED
    BY <2>1
<1>12. \A k \in DOMAIN writers : k # i => \E j \in DOMAIN writers' : writers'[j] = writers[k]
  BY <1>4, <1>7, <1>8
<1> QED
  BY <1>1, <1>3, <1>9, <1>10, <1>11, <1>12

LEMMA TypeWriteEnd ==
  ASSUME TypeInv, NEW i, WriteEnd(i)
  PROVE  TypeInv'
<1>1. ControlType /\ TableType /\ ToldType /\ OddType /\ DiskType /\ OpenType
  BY DEF TypeInv
<1>2. /\ UNCHANGED <<pc, args, home, starts, where, saveAll, port, conf, disk, reader, users, sites, mute>>
      /\ UNCHANGED <<cmds, wanted, passes, odd>>
      /\ handle' = [handle EXCEPT ![writers[i].table] = FALSE]
      /\ warned' = (warned \/ (writers[i].table = "users" /\ ~mute))
  BY DEF WriteEnd, FileClosed, started, told
<1>3. writers' \in Seq(Writer)
  BY WriterGone
<1>4. warned' \in BOOLEAN
  BY <1>2
<1>5. TableType'
  BY <1>1, <1>2, <1>4 DEF TableType
<1>6. ControlType' /\ ToldType' /\ OddType' /\ DiskType'
  BY <1>1, <1>2 DEF ControlType, ToldType, OddType, DiskType
<1>7. OpenType'
  BY <1>1, <1>2, <1>3 DEF OpenType
<1> QED
  BY <1>5, <1>6, <1>7 DEF TypeInv

\* SETPASS changes the first user of that name.
LEMMA PasswordSet ==
  ASSUME TypeInv, NEW u \in User, SetPass(u)
  PROVE  \E i \in DOMAIN users, new \in {"old", "new"} :
           /\ users[i][1] = u /\ users' \in Seq(Login) /\ Len(users') = Len(users)
           /\ DOMAIN users' = DOMAIN users
           /\ users'[i] = <<u, new>> /\ \A j \in DOMAIN users : j # i => users'[j] = users[j]
           /\ passes' = [passes EXCEPT ![u] = new]
<1> DEFINE is == {j \in DOMAIN users : users[j][1] = u}
           i == FirstOf(is)
           new == IF users[i][2] = "old" THEN "new" ELSE "old"
<1>1. users \in Seq(Login) /\ DOMAIN users = 1 .. Len(users)
  BY DEF TypeInv, TableType
<1>2. is # {} /\ is \in SUBSET Nat
  <2>1. Auth(u)
    BY DEF SetPass
  <2> QED
    BY <1>1, <2>1 DEF Auth
<1>3. i \in is
  <2> HIDE DEF is
  <2> QED
    BY <1>2, FirstOfIs
<1>4. i \in DOMAIN users /\ users[i][1] = u
  BY <1>3
<1>5. users' = [users EXCEPT ![i][2] = new] /\ passes' = [passes EXCEPT ![u] = new]
  BY DEF SetPass
<1>6. new \in {"old", "new"}
  OBVIOUS
<1> HIDE DEF i, new
<1>7. users[i] \in User \X {"old", "new"}
  BY <1>1, <1>4 DEF Login
<1>8. users[i] = <<u, users[i][2]>>
  BY <1>4, <1>7
<1> DEFINE e == <<u, new>>
<1>9. [users[i] EXCEPT ![2] = new] = e
  <2> DEFINE x == users[i]
             y == <<u, x[2]>>
  <2>1. x = y
    BY <1>8
  <2>2. [y EXCEPT ![2] = new] = e
    <3> HIDE DEF x
    <3> QED
      OBVIOUS
  <2> QED
    BY <2>1, <2>2
<1>10. users' = [users EXCEPT ![i] = e]
  BY <1>4, <1>5, <1>9
<1>11. e \in Login
  BY <1>6 DEF Login
<1> HIDE DEF e
<1>12. /\ users' \in Seq(Login) /\ DOMAIN users' = DOMAIN users /\ users'[i] = e
       /\ \A j \in DOMAIN users : j # i => users'[j] = users[j]
  BY <1>1, <1>4, <1>10, <1>11, SlotSet
<1>13. Len(users') = Len(users)
  BY <1>1, <1>12
<1> QED
  BY <1>4, <1>5, <1>6, <1>12, <1>13 DEF e

LEMMA TypeSetPass ==
  ASSUME TypeInv, NEW u \in User, SetPass(u)
  PROVE  TypeInv'
<1>1. ControlType /\ TableType /\ ToldType /\ OddType /\ DiskType /\ OpenType
  BY DEF TypeInv
<1>2. /\ UNCHANGED <<pc, args, home, starts, where, saveAll, port, conf, sites, warned, reader, wanted>>
      /\ cmds < MaxCmds /\ cmds' = cmds + 1 /\ mute' = TRUE
      /\ Save("users", where, UserLines(users'))
  BY DEF SetPass, Asks, started
<1>3. PICK new \in {"old", "new"} : users' \in Seq(Login) /\ passes' = [passes EXCEPT ![u] = new]
  BY PasswordSet
<1>4. TableType'
  BY <1>1, <1>2, <1>3 DEF TableType
<1>5. UserLines(users') \in Seq(Line("users"))
  BY <1>3, UserLinesType
<1>6. DiskType' /\ OpenType'
  BY <1>2, <1>5, SaveType, Kinds
<1>7. ToldType'
  <2>1. cmds' \in 0 .. MaxCmds /\ wanted' \subseteq 1 .. MaxSites
    BY <1>1, <1>2, StoreAssumption DEF ToldType
  <2>2. PICK us \in SUBSET User : passes \in [us -> {"old", "new"}]
    BY <1>1 DEF ToldType
  <2>3. passes' \in [us -> {"old", "new"}]
    BY <1>3, <2>2
  <2> QED
    BY <2>1, <2>3 DEF ToldType
<1>8. OddType'
  BY <1>1 DEF OddType, SetPass, Oddity
<1>9. ControlType'
  BY <1>1, <1>2 DEF ControlType
<1> QED
  BY <1>4, <1>6, <1>7, <1>8, <1>9 DEF TypeInv

\* The commands that change the sites.
LEMMA TypeSites ==
  ASSUME TypeInv, cmds < MaxCmds, cmds' = cmds + 1, sites' \in Seq(Held),
         wanted' \subseteq 1 .. MaxSites,
         Oddity("sites"), Save("sites", where, SiteLines(sites')),
         UNCHANGED <<pc, started, where, saveAll, port, conf, users, mute, warned, reader, passes>>
  PROVE  TypeInv'
<1>1. ControlType /\ TableType /\ ToldType /\ OddType /\ DiskType /\ OpenType
  BY DEF TypeInv
<1>2. UNCHANGED <<pc, args, home, starts, where, saveAll, port, conf, users, mute, warned, reader, passes>>
  BY DEF started
<1>3. SiteLines(sites') \in Seq(Line("sites"))
  BY SiteLinesType
<1>4. DiskType' /\ OpenType'
  BY <1>2, <1>3, SaveType, Kinds
<1>5. ControlType' /\ TableType'
  BY <1>1, <1>2 DEF ControlType, TableType
<1>6. cmds' \in 0 .. MaxCmds
  BY <1>1, StoreAssumption DEF ToldType
<1>7. ToldType'
  BY <1>1, <1>2, <1>6 DEF ToldType
<1>8. OddType'
  BY <1>1 DEF OddType, Oddity
<1> QED
  BY <1>4, <1>5, <1>7, <1>8 DEF TypeInv

LEMMA GivenIs ==
  ASSUME NEW given \in Given
  PROVE  DOMAIN given \in SUBSET Key /\ \A k \in DOMAIN given : given[k] \in Val
BY StoreAssumption

\* What each of them makes of the sites.
LEMMA SiteAdded ==
  ASSUME TypeInv, NEW given \in Given, SiteAdd(given)
  PROVE  /\ \E t \in Fresh : /\ t \in 1 .. MaxSites
                             /\ \E e \in Held : e.tag = t /\ e.named /\ sites' = <<e>> \o sites
                             /\ wanted' = wanted \cup {t}
         /\ sites' \in Seq(Held)
<1>1. PICK t \in Fresh :
        /\ sites' = <<[tag |-> t, named |-> TRUE, extra |-> ParseKeys(<<>>, given)]>> \o sites
        /\ wanted' = wanted \cup {t}
  BY DEF SiteAdd
<1>2. ParseKeys(<<>>, given) \in Fields
  <2>1. <<>> \in Fields
    BY DEF Fields, Map
  <2> QED
    BY <2>1, GivenIs, ParseKeysIs
<1> DEFINE e == [tag |-> t, named |-> TRUE, extra |-> ParseKeys(<<>>, given)]
<1>3. t \in 1 .. MaxSites
  BY DEF Fresh
<1>4. e \in Held /\ e.tag = t /\ e.named
  BY <1>2, <1>3 DEF Held
<1>5. sites' = <<e>> \o sites
  BY <1>1
<1> HIDE DEF e
<1>6. sites' \in Seq(Held)
  BY <1>4, <1>5, PrependIs DEF TypeInv, TableType
<1> QED
  BY <1>1, <1>3, <1>4, <1>5, <1>6

LEMMA HeldSet ==
  ASSUME NEW e \in Held, NEW s, NEW b
  PROVE  /\ [e EXCEPT !.named = b] = [tag |-> e.tag, named |-> b, extra |-> e.extra]
         /\ [e EXCEPT !.extra = s] = [tag |-> e.tag, named |-> e.named, extra |-> s]
BY DEF Held

LEMMA SiteChanged ==
  ASSUME TypeInv, NEW i \in DOMAIN sites, NEW s \in Fields, NEW b \in BOOLEAN,
         sites' = [sites EXCEPT ![i] = [tag |-> sites[i].tag, named |-> b, extra |-> s]]
  PROVE  /\ sites' \in Seq(Held) /\ DOMAIN sites' = DOMAIN sites
         /\ sites'[i].tag = sites[i].tag /\ sites'[i].named = b
         /\ sites[i].tag \in 1 .. MaxSites
         /\ \A j \in DOMAIN sites : j # i => sites'[j] = sites[j]
<1> DEFINE e == [tag |-> sites[i].tag, named |-> b, extra |-> s]
<1>1. sites \in Seq(Held)
  BY DEF TypeInv, TableType
<1>2. sites[i].tag \in 1 .. MaxSites
  <2>1. sites[i] \in Held
    BY <1>1
  <2> QED
    BY <2>1 DEF Held
<1>3. e \in Held /\ e.tag = sites[i].tag /\ e.named = b
  BY <1>2 DEF Held
<1>4. sites' = [sites EXCEPT ![i] = e]
  OBVIOUS
<1> HIDE DEF e
<1>5. /\ sites' \in Seq(Held) /\ DOMAIN sites' = DOMAIN sites /\ sites'[i] = e
      /\ \A j \in DOMAIN sites : j # i => sites'[j] = sites[j]
  BY <1>1, <1>3, <1>4, SlotSet
<1> QED
  BY <1>2, <1>3, <1>5

LEMMA SiteModified ==
  ASSUME TypeInv, NEW given \in Given, NEW i \in DOMAIN sites, NEW name \in BOOLEAN,
         SiteMod(i, given, name)
  PROVE  /\ sites' \in Seq(Held) /\ DOMAIN sites' = DOMAIN sites
         /\ sites'[i].tag = sites[i].tag /\ (sites'[i].named <=> sites[i].named \/ name)
         /\ sites[i].tag \in 1 .. MaxSites
         /\ \A j \in DOMAIN sites : j # i => sites'[j] = sites[j]
         /\ wanted' = IF sites'[i].named THEN wanted \cup {sites[i].tag} ELSE wanted
<1> DEFINE s == ParseKeys(sites[i].extra, given)
           b == sites[i].named \/ name
<1>1. sites[i] \in Held
  BY DEF TypeInv, TableType
<1>2. s \in Fields
  <2>1. sites[i].extra \in Fields
    BY <1>1 DEF Held
  <2> QED
    BY <2>1, GivenIs, ParseKeysIs
<1>3. sites' = [sites EXCEPT ![i].extra = s, ![i].named = b]
      /\ wanted' = IF sites'[i].named THEN wanted \cup {sites[i].tag} ELSE wanted
  BY DEF SiteMod
<1>4. b \in BOOLEAN
  OBVIOUS
<1> HIDE DEF s, b
<1> DEFINE x == [tag |-> sites[i].tag, named |-> sites[i].named, extra |-> s]
<1>5. [sites[i] EXCEPT !.extra = s] = x /\ x \in Held /\ x.tag = sites[i].tag /\ x.extra = s
  <2>1. sites[i].tag \in 1 .. MaxSites /\ sites[i].named \in BOOLEAN
    BY <1>1 DEF Held
  <2> QED
    BY <1>1, <1>2, <2>1, HeldSet DEF Held
<1> HIDE DEF x
<1>6. [[sites[i] EXCEPT !.extra = s] EXCEPT !.named = b] = [tag |-> sites[i].tag, named |-> b, extra |-> s]
  <2>1. [x EXCEPT !.named = b] = [tag |-> x.tag, named |-> b, extra |-> x.extra]
    BY <1>5, HeldSet
  <2> QED
    BY <1>5, <2>1
<1>7. sites' = [sites EXCEPT ![i] = [[sites[i] EXCEPT !.extra = s] EXCEPT !.named = b]]
  BY <1>3
<1>8. sites' = [sites EXCEPT ![i] = [tag |-> sites[i].tag, named |-> b, extra |-> s]]
  BY <1>6, <1>7
<1>9. /\ sites' \in Seq(Held) /\ DOMAIN sites' = DOMAIN sites
      /\ sites'[i].tag = sites[i].tag /\ sites'[i].named = b
      /\ sites[i].tag \in 1 .. MaxSites
      /\ \A j \in DOMAIN sites : j # i => sites'[j] = sites[j]
  BY <1>2, <1>4, <1>8, SiteChanged
<1>10. sites'[i].named <=> sites[i].named \/ name
  BY <1>9 DEF b
<1> QED
  BY <1>3, <1>9, <1>10

LEMMA SiteDeleted ==
  ASSUME TypeInv, NEW i \in DOMAIN sites, SiteDel(i)
  PROVE  /\ sites' \in Seq(Held) /\ DOMAIN sites' = DOMAIN sites
         /\ sites'[i].tag = sites[i].tag /\ ~ sites'[i].named
         /\ sites[i].tag \in 1 .. MaxSites
         /\ \A j \in DOMAIN sites : j # i => sites'[j] = sites[j]
         /\ wanted' = wanted \ {sites[i].tag}
<1>1. sites[i] \in Held
  BY DEF TypeInv, TableType
<1>2. sites[i].extra \in Fields
  BY <1>1 DEF Held
<1>3. sites' = [sites EXCEPT ![i].named = FALSE] /\ wanted' = wanted \ {sites[i].tag}
  BY DEF SiteDel
<1>5. [sites[i] EXCEPT !.named = FALSE] = [tag |-> sites[i].tag, named |-> FALSE, extra |-> sites[i].extra]
  BY <1>1, HeldSet
<1>6. sites' = [sites EXCEPT ![i] = [sites[i] EXCEPT !.named = FALSE]]
  BY <1>3
<1>7. sites' = [sites EXCEPT ![i] = [tag |-> sites[i].tag, named |-> FALSE, extra |-> sites[i].extra]]
  BY <1>5, <1>6
<1>8. /\ sites' \in Seq(Held) /\ DOMAIN sites' = DOMAIN sites
      /\ sites'[i].tag = sites[i].tag /\ sites'[i].named = FALSE
      /\ sites[i].tag \in 1 .. MaxSites
      /\ \A j \in DOMAIN sites : j # i => sites'[j] = sites[j]
  <2> DEFINE b == FALSE
  <2>1. b \in BOOLEAN /\ sites' = [sites EXCEPT ![i] = [tag |-> sites[i].tag, named |-> b, extra |-> sites[i].extra]]
    BY <1>7
  <2> HIDE DEF b
  <2>2. /\ sites' \in Seq(Held) /\ DOMAIN sites' = DOMAIN sites
        /\ sites'[i].tag = sites[i].tag /\ sites'[i].named = b
        /\ sites[i].tag \in 1 .. MaxSites
        /\ \A j \in DOMAIN sites : j # i => sites'[j] = sites[j]
    BY <1>2, <2>1, SiteChanged
  <2> QED
    BY <2>2 DEF b
<1> QED
  BY <1>3, <1>8

LEMMA TypeSiteAdd ==
  ASSUME TypeInv, NEW given \in Given, SiteAdd(given)
  PROVE  TypeInv'
<1>1. /\ cmds < MaxCmds /\ cmds' = cmds + 1 /\ Oddity("sites")
      /\ Save("sites", where, SiteLines(sites'))
      /\ UNCHANGED <<pc, started, where, saveAll, port, conf, users, mute, warned, reader, passes>>
  BY DEF SiteAdd, Asks
<1>2. wanted \subseteq 1 .. MaxSites
  BY DEF TypeInv, ToldType
<1>3. sites' \in Seq(Held) /\ wanted' \subseteq 1 .. MaxSites
  BY <1>2, SiteAdded
<1> QED
  BY <1>1, <1>3, TypeSites

LEMMA TypeSiteMod ==
  ASSUME TypeInv, NEW given \in Given, NEW i \in DOMAIN sites, NEW name \in BOOLEAN,
         SiteMod(i, given, name)
  PROVE  TypeInv'
<1>1. /\ cmds < MaxCmds /\ cmds' = cmds + 1 /\ Oddity("sites")
      /\ Save("sites", where, SiteLines(sites'))
      /\ UNCHANGED <<pc, started, where, saveAll, port, conf, users, mute, warned, reader, passes>>
  BY DEF SiteMod, Asks
<1>2. wanted \subseteq 1 .. MaxSites
  BY DEF TypeInv, ToldType
<1>3. sites' \in Seq(Held) /\ wanted' \subseteq 1 .. MaxSites
  BY <1>2, SiteModified
<1> QED
  BY <1>1, <1>3, TypeSites

LEMMA TypeSiteDel ==
  ASSUME TypeInv, NEW i \in DOMAIN sites, SiteDel(i)
  PROVE  TypeInv'
<1>1. /\ cmds < MaxCmds /\ cmds' = cmds + 1 /\ Oddity("sites")
      /\ Save("sites", where, SiteLines(sites'))
      /\ UNCHANGED <<pc, started, where, saveAll, port, conf, users, mute, warned, reader, passes>>
  BY DEF SiteDel, Asks
<1>2. wanted \subseteq 1 .. MaxSites
  BY DEF TypeInv, ToldType
<1>3. sites' \in Seq(Held) /\ wanted' \subseteq 1 .. MaxSites
  BY <1>2, SiteDeleted
<1> QED
  BY <1>1, <1>3, TypeSites

LEMMA TypeStep ==
  ASSUME TypeInv, [Next]_vars
  PROVE  TypeInv'
<1>1. CASE Engine
  BY <1>1, TypeStart, TypeSettingsRead, TypeSaveAll, TypeStop DEF Engine
<1>2. CASE Files
  <2>1. ASSUME NEW f \in Table, ReadLine(f) \/ ReadEnd(f)
        PROVE  TypeInv'
    BY <2>1, TypeReadLine, TypeReadEnd
  <2>2. ASSUME NEW i \in DOMAIN writers, WriteLine(i) \/ WriteEnd(i)
        PROVE  TypeInv'
    BY <2>2, TypeWriteLine, TypeWriteEnd
  <2> QED
    BY <1>2, <2>1, <2>2 DEF Files
<1>3. CASE Api
  <2>1. ASSUME NEW u \in User, SetPass(u)
        PROVE  TypeInv'
    BY <2>1, TypeSetPass
  <2>2. ASSUME NEW given \in Given, SiteAdd(given)
        PROVE  TypeInv'
    BY <2>2, TypeSiteAdd
  <2>3. ASSUME NEW given \in Given, NEW i \in DOMAIN sites, NEW name \in BOOLEAN,
               SiteMod(i, given, name)
        PROVE  TypeInv'
    BY <2>3, TypeSiteMod
  <2>4. ASSUME NEW i \in DOMAIN sites, SiteDel(i)
        PROVE  TypeInv'
    BY <2>4, TypeSiteDel
  <2> QED
    BY <1>3, <2>1, <2>2, <2>3, <2>4 DEF Api
<1>4. CASE UNCHANGED vars
  BY <1>4 DEF vars, TypeInv, ControlType, TableType, ToldType, OddType, DiskType, OpenType
<1> QED
  BY <1>1, <1>2, <1>3, <1>4 DEF Next

LEMMA TypeMeans ==
  ASSUME TypeInv
  PROVE  TypeOK
<1>1. ControlType /\ TableType /\ ToldType /\ OddType /\ OpenType
  BY DEF TypeInv
<1>2. \A i \in DOMAIN users : users[i] \in Login
  BY <1>1 DEF TableType
<1>3. \A i \in DOMAIN sites : sites[i] \in Site
  <2> SUFFICES ASSUME NEW i \in DOMAIN sites
               PROVE  sites[i] \in Site
    OBVIOUS
  <2>1. sites[i] \in Held
    BY <1>1 DEF TableType
  <2>2. Fields \subseteq Seq(Slot)
    BY DEF Fields
  <2> QED
    BY <2>1, <2>2 DEF Held, Site
<1>4. handle \in [Table -> BOOLEAN]
  BY <1>1 DEF OpenType
<1> QED
  BY <1>1, <1>2, <1>3, <1>4 DEF TypeOK, ControlType, TableType, ToldType, OddType

LEMMA MapMeans ==
  ASSUME TypeInv
  PROVE  ExtraIsMap
<1> SUFFICES ASSUME NEW i \in DOMAIN sites, NEW given \in Changes
             PROVE  LET s == sites[i].extra
                        after == ParseKeys(s, given)
                    IN  \A k \in Key :
                          /\ Cardinality(Position(after, k)) <= 1
                          /\ s # <<>> => Value(after, k) =
                               IF k \notin DOMAIN given THEN Value(s, k)
                               ELSE IF given[k] = Blank THEN "none" ELSE given[k]
  BY DEF ExtraIsMap
<1> DEFINE s == sites[i].extra
<1>1. s \in Fields
  <2>1. sites[i] \in Held
    BY DEF TypeInv, TableType
  <2> QED
    BY <2>1 DEF Held
<1>2. DOMAIN given \in SUBSET Key /\ \A k \in DOMAIN given : given[k] \in Val
  BY DEF Changes
<1> HIDE DEF s
<1>3. LET after == ParseKeys(s, given)
      IN  \A k \in Key :
            /\ Cardinality(Position(after, k)) <= 1
            /\ s # <<>> => Value(after, k) =
                 IF k \notin DOMAIN given THEN Value(s, k)
                 ELSE IF given[k] = Blank THEN "none" ELSE given[k]
  BY <1>1, <1>2, ParseKeysIs
<1> QED
  BY <1>3 DEF s

LEMMA TypesHold == Spec => []TypeInv
<1>1. Init => TypeInv
  BY TypeInit
<1>2. TypeInv /\ [Next]_vars => TypeInv'
  BY TypeStep
<1> QED
  BY <1>1, <1>2, PTL DEF Spec

\* sites_parsekeys (engine/sites.c:323-637): the fields that it does not know are a map in
\* every state, and any SITEMOD, of any number of keys in any order, sets, changes
\* and deletes what it says and leaves the rest.
THEOREM FieldsAreMaps == Spec => []ExtraIsMap
<1>1. TypeInv => ExtraIsMap
  BY MapMeans
<1> QED
  BY <1>1, TypesHold, PTL

-----------------------------------------------------------------------------
(* As long as nothing odd has happened, what users were told is there. *)

\* Oddities are never forgotten.
LEMMA OddGrows ==
  ASSUME Next
  PROVE  odd \subseteq odd'
<1>1. CASE Engine
  BY <1>1 DEF Engine, Start, SettingsRead, SaveAll, Stop, told
<1>2. CASE Files
  <2>1. ASSUME NEW f \in Table, ReadLine(f) \/ ReadEnd(f)
        PROVE  odd' = odd
    BY <2>1 DEF ReadLine, ReadEnd, told
  <2>2. ASSUME NEW i \in DOMAIN writers, WriteLine(i) \/ WriteEnd(i)
        PROVE  odd' = odd
    BY <2>2 DEF WriteLine, WriteEnd, told
  <2> QED
    BY <1>2, <2>1, <2>2 DEF Files
<1>3. CASE Api
  <2>1. \A f : Oddity(f) => odd \subseteq odd'
    BY DEF Oddity
  <2>2. Oddity("users") \/ Oddity("sites")
    BY <1>3 DEF Api, SetPass, SiteAdd, SiteMod, SiteDel
  <2> QED
    BY <2>1, <2>2
<1> QED
  BY <1>1, <1>2, <1>3 DEF Next

\* The parts that only some of the variables matter to.
LEMMA UsersKeptFrame ==
  ASSUME UsersKept, disk'[Data']["users"] = disk[Data]["users"], passes' = passes
  PROVE  UsersKept'
<1>1. Book' = Book
  BY DEF Book
<1> QED
  BY <1>1 DEF UsersKept, GoodUserLines, GoodUsers

LEMMA SitesKeptFrame ==
  ASSUME SitesKept, disk'[Data']["sites"] = disk[Data]["sites"], wanted' = wanted
  PROVE  SitesKept'
BY DEF SitesKept, GoodSiteLines

LEMMA UsersReadFrame ==
  ASSUME UsersRead, UNCHANGED <<users, passes>>, reader'["users"] = reader["users"],
         Reading("users") => disk'[where']["users"] = disk[where]["users"]
  PROVE  UsersRead'
<1>1. Book' = Book /\ (Reading("users"))' = Reading("users")
  BY DEF Book, Reading
<1> QED
  BY <1>1 DEF UsersRead, UsersSoFar, GoodUsers

LEMMA SitesReadFrame ==
  ASSUME SitesRead, UNCHANGED <<sites, wanted>>, reader'["sites"] = reader["sites"],
         Reading("sites") => disk'[where']["sites"] = disk[where]["sites"]
  PROVE  SitesRead'
<1>1. (Reading("sites"))' = Reading("sites")
  BY DEF Reading
<1> QED
  BY <1>1 DEF SitesRead, SitesSoFar, GoodSites

\* All that the proofs below need of a state.
LEMMA CleanIs ==
  ASSUME TypeInv, CleanInv, odd = {}
  PROVE  /\ ModeInv /\ OpenInv /\ FileInv /\ WriterInv /\ ReaderInv
         /\ where \in Dir /\ Data \in Dir /\ Base \in Dir
         /\ users \in Seq(Login) /\ sites \in Seq(Held) /\ writers \in Seq(Writer)
         /\ \A i \in DOMAIN writers : writers[i] \in Writer /\ writers[i].table \in Table
         /\ \A d \in Dir, f \in Table : disk[d][f].lines \in Seq(Line(f)) /\ disk[d][f].there \in BOOLEAN
         /\ pc # "down" => where = Data
         /\ wanted \subseteq 1 .. MaxSites
<1>1. ModeInv /\ OpenInv /\ FileInv /\ WriterInv /\ ReaderInv
  BY DEF CleanInv
<1>2. where \in Dir /\ Data \in Dir /\ Base \in Dir
  BY Kinds DEF TypeInv, ControlType, Data, Base
<1>3. users \in Seq(Login) /\ sites \in Seq(Held) /\ writers \in Seq(Writer)
  BY DEF TypeInv, TableType, OpenType
<1>4. \A i \in DOMAIN writers : writers[i] \in Writer /\ writers[i].table \in Table
  BY <1>3, WriterIs
<1>5. \A d \in Dir, f \in Table : disk[d][f].lines \in Seq(Line(f)) /\ disk[d][f].there \in BOOLEAN
  <2>1. \A d \in Dir, f \in Table : disk[d][f] \in FileOf(f)
    BY DEF TypeInv, DiskType
  <2> QED
    BY <2>1 DEF FileOf
<1>6. pc # "down" => where = Data
  BY <1>1 DEF ModeInv
<1> QED
  BY <1>1, <1>2, <1>3, <1>4, <1>5, <1>6 DEF TypeInv, ToldType

LEMMA CleanInit == Init => CleanInv
<1> SUFFICES ASSUME Init
             PROVE  CleanInv
  OBVIOUS
<1>0. TypeInv
  BY TypeInit
<1>1. /\ pc = "down" /\ home = FALSE /\ saveAll = FALSE /\ starts = 0
  BY DEF Init
<1>2. PICK old \in {Old, Absent} : disk = [d \in Dir |-> IF d = "cwd" THEN old ELSE Absent]
  BY DEF Init
<1>3. disk["cwd"] = old /\ disk["home"] = Absent
  BY <1>2, Kinds
<1>4. writers = <<>> /\ reader = [f \in Table |-> NotReading]
  BY DEF Init
<1>5. Data = "cwd" /\ ~ Runs
  BY <1>1 DEF Data, Runs
<1>6. \A f \in Table : ~ Reading(f)
  BY <1>4 DEF Reading, NotReading
<1>7. ModeInv
  <2>1. \A f \in Table : ~ disk["home"][f].there
    BY <1>3, OldIs DEF Missing
  <2>2. ~ disk["cwd"]["sites"].there => ~ disk["cwd"]["users"].there
    BY <1>3, OldIs, Kinds DEF Missing
  <2> QED
    BY <1>1, <2>1, <2>2 DEF ModeInv
<1>8. OpenInv
  BY <1>4, <1>6 DEF OpenInv
<1>9. FileInv
  <2>1. wanted = IF old = Old THEN {1} ELSE {}
    BY <1>3 DEF Init
  <2>2. passes = [u \in IF old = Old THEN User ELSE {Admin} |-> "old"]
    BY <1>3 DEF Init
  <2>3. CASE old = Old
    <3> DEFINE t == [i \in DOMAIN AllUsers |-> <<AllUsers[i], "old">>]
    <3>1. t \in Seq(Login) /\ Old["users"].lines = UserLines(t) /\ Unlike(t)
          /\ Passes(t) = {<<u, "old">> : u \in User}
      BY OldUsersAre
    <3>2. Book = {<<u, "old">> : u \in User}
      BY <2>2, <2>3 DEF Book
    <3> HIDE DEF t
    <3>3. GoodUserLines(Old["users"].lines)
      BY <3>1, <3>2, GoodUsersWritten DEF GoodUsers
    <3>4. UsersKept
      BY <1>3, <1>5, <2>3, <3>3, OldIs, Kinds DEF UsersKept
    <3>5. GoodSiteLines(Old["sites"].lines)
      <4> DEFINE e == [tag |-> 1, extra |-> <<>>]
      <4>1. <<>> \in Fields
        BY DEF Fields, Map
      <4>2. e \in SiteLine /\ e.tag = 1
        BY <4>1, StoreAssumption DEF SiteLine
      <4>3. Old["sites"].lines = <<e>>
        BY DEF Old
      <4>4. wanted = {1}
        BY <2>1, <2>3
      <4> DEFINE ls == <<e>>
      <4> HIDE DEF e
      <4>5. ls \in Seq(SiteLine) /\ DOMAIN ls = {1} /\ ls[1].tag = 1
        BY <4>2
      <4> HIDE DEF ls
      <4>6. GoodSiteLines(ls)
        BY <4>4, <4>5 DEF GoodSiteLines, Untwined, Tags
      <4> QED
        BY <4>3, <4>6 DEF ls
    <3>6. SitesKept
      BY <1>3, <1>5, <2>3, <3>5, OldIs, Kinds DEF SitesKept
    <3> QED
      BY <1>5, <3>4, <3>6 DEF FileInv
  <2>4. CASE old = Absent
    <3>1. old # Old
      BY <2>4, OldIs
    <3>2. Book = {<<Admin, "old">>} /\ wanted = {}
      BY <2>1, <2>2, <3>1 DEF Book
    <3>3. ~ disk[Data]["users"].there /\ ~ disk[Data]["sites"].there
      BY <1>3, <1>5, <2>4, OldIs, Kinds DEF Missing
    <3> QED
      BY <1>5, <3>2, <3>3 DEF FileInv, UsersKept, SitesKept
  <2> QED
    BY <2>3, <2>4
<1>10. WriterInv /\ ReaderInv
  BY <1>4, <1>5 DEF WriterInv, ReaderInv
<1> QED
  BY <1>7, <1>8, <1>9, <1>10 DEF CleanInv

\* While nothing runs, nothing is open.
LEMMA Quiet ==
  ASSUME TypeInv, CleanInv, odd = {}, ~ Runs
  PROVE  /\ writers = <<>> /\ (\A f \in Table : ~ Reading(f)) /\ UsersKept /\ SitesKept
         /\ \A f : ~ Busy(f)
<1>1. OpenInv /\ FileInv
  BY CleanIs
<1>2. writers = <<>> /\ \A f \in Table : ~ Reading(f)
  BY <1>1 DEF OpenInv
<1>3. \A f : ~ Busy(f)
  BY <1>2 DEF Busy
<1> QED
  BY <1>1, <1>2, <1>3 DEF FileInv

LEMMA CleanStart ==
  ASSUME TypeInv, CleanInv, Start, odd = {}, odd' = {}
  PROVE  CleanInv'
<1> DEFINE old == ~home /\ disk["cwd"]["sites"].there
           dir == IF old \/ (home /\ args.cwd) THEN "cwd" ELSE "home"
<1>1. /\ pc = "down" /\ starts' = starts + 1 /\ home' = TRUE /\ where' = dir /\ saveAll' = old
      /\ odd' = odd \cup (IF args.cwd /\ dir = "home" THEN {"moved"} ELSE {})
      /\ pc' \in {"down", "settings"}
      /\ UNCHANGED <<args, users, sites, mute, warned, disk, handle, reader, writers, wanted, passes>>
  BY DEF Start, memory, files
<1>2. ModeInv /\ saveAll = FALSE /\ starts \in Nat /\ home \in BOOLEAN
  <2>1. ModeInv /\ starts \in Nat /\ home \in BOOLEAN /\ saveAll \in BOOLEAN
    BY CleanIs, StoreAssumption DEF TypeInv, ControlType
  <2>2. ~ saveAll
    BY <1>1, <2>1 DEF ModeInv
  <2> QED
    BY <2>1, <2>2
<1>3. ~ Runs /\ ~ Runs'
  BY <1>1 DEF Runs
<1>4. writers = <<>> /\ (\A f \in Table : ~ Reading(f)) /\ UsersKept /\ SitesKept
  BY <1>3, Quiet
<1>5. ~ (args.cwd /\ dir = "home")
  BY <1>1
<1>6. UsersKept' /\ SitesKept' /\ where' = Data'
  <2>1. CASE home
    <3>1. dir = Base /\ saveAll' = FALSE
      BY <1>1, <2>1 DEF Base
    <3>2. Data = Base /\ Data' = Base /\ Data' = Data
      BY <1>1, <1>2, <2>1, <3>1 DEF Data, Base
    <3> QED
      BY <1>1, <1>4, <3>1, <3>2, UsersKeptFrame, SitesKeptFrame
  <2>2. CASE ~ home /\ old
    <3>1. Data = "cwd" /\ Data' = "cwd" /\ dir = "cwd"
      BY <1>1, <2>2 DEF Data
    <3> QED
      BY <1>1, <1>4, <3>1, UsersKeptFrame, SitesKeptFrame
  <2>3. CASE ~ home /\ ~ old
    <3>1. dir = "home" /\ Data = "cwd"
      BY <2>3 DEF Data
    <3>2. Data' = "home"
      BY <1>1, <1>5, <2>3, <3>1 DEF Data, Base
    <3>3. /\ ~ disk["cwd"]["sites"].there /\ ~ disk["cwd"]["users"].there
          /\ ~ disk["home"]["sites"].there /\ ~ disk["home"]["users"].there
      BY <1>2, <2>3, Kinds DEF ModeInv
    <3>4. Book = {<<Admin, "old">>} /\ wanted = {}
      BY <1>4, <3>1, <3>3 DEF UsersKept, SitesKept
    <3>5. Book' = Book /\ wanted' = wanted
      BY <1>1 DEF Book
    <3>6. ~ disk'[Data']["users"].there /\ ~ disk'[Data']["sites"].there
      BY <1>1, <3>2, <3>3
    <3> QED
      BY <1>1, <3>1, <3>2, <3>4, <3>5, <3>6 DEF UsersKept, SitesKept
  <2> QED
    BY <1>2, <2>1, <2>2, <2>3
<1>7. ModeInv'
  <2>1. starts' # 0
    BY <1>1, <1>2
  <2>2. saveAll' => pc' = "settings"
    BY DEF Start
  <2> QED
    BY <1>1, <1>6, <2>1, <2>2 DEF ModeInv
<1>8. OpenInv'
  <2>1. writers' = <<>> /\ \A f \in Table : ~ Reading(f)'
    BY <1>1, <1>4 DEF Reading
  <2> QED
    BY <2>1 DEF OpenInv
<1>9. FileInv'
  BY <1>3, <1>6 DEF FileInv
<1>10. WriterInv' /\ ReaderInv'
  BY <1>1, <1>3, <1>4 DEF WriterInv, ReaderInv
<1> QED
  BY <1>7, <1>8, <1>9, <1>10 DEF CleanInv

LEMMA CleanStop ==
  ASSUME TypeInv, CleanInv, Stop, odd = {}, odd' = {}
  PROVE  CleanInv'
<1>1. /\ pc # "down" /\ pc' = "down" /\ saveAll' = FALSE
      /\ odd' = odd \cup (IF writers # <<>> THEN {"torn"} ELSE {})
                    \cup (IF saveAll THEN {"halfway"} ELSE {})
      /\ reader' = [f \in Table |-> NotReading] /\ writers' = <<>>
      /\ UNCHANGED <<args, home, starts, where, disk, wanted, passes>>
  BY DEF Stop, started
<1>2. writers = <<>> /\ ~ saveAll
  BY <1>1
<1>3. ModeInv /\ FileInv
  BY CleanIs
<1>4. Data' = Data
  BY <1>1, <1>2 DEF Data, Base
<1>5. UsersKept /\ SitesKept
  BY <1>2, <1>3 DEF FileInv, Busy
<1>6. UsersKept' /\ SitesKept'
  BY <1>1, <1>4, <1>5, UsersKeptFrame, SitesKeptFrame
<1>7. ~ Runs'
  BY <1>1 DEF Runs
<1>8. ModeInv'
  BY <1>1, <1>3 DEF ModeInv
<1>9. OpenInv'
  <2>1. \A f \in Table : ~ Reading(f)'
    BY <1>1 DEF Reading, NotReading
  <2> QED
    BY <1>1, <2>1 DEF OpenInv
<1>10. FileInv'
  BY <1>6, <1>7 DEF FileInv
<1>11. WriterInv' /\ ReaderInv'
  BY <1>1, <1>7 DEF WriterInv, ReaderInv
<1> QED
  BY <1>8, <1>9, <1>10, <1>11 DEF CleanInv

LEMMA CleanSettingsRead ==
  ASSUME TypeInv, CleanInv, SettingsRead, odd = {}
  PROVE  CleanInv'
<1>0. TypeInv'
  BY TypeSettingsRead
<1>1. /\ pc = "settings" /\ pc' = (IF saveAll THEN "wait" ELSE "up") /\ sites' = <<>>
      /\ reader' = [f \in Table |->
           IF disk[where][f].there THEN [dir |-> where, at |-> 1] ELSE NotReading]
      /\ handle' = [f \in Table |-> f = "users" \/ disk[where][f].there]
      /\ UNCHANGED <<args, home, starts, where, saveAll, wanted, passes>>
  BY DEF SettingsRead, started, told
<1>2. ~ Runs /\ Runs'
  BY <1>1 DEF Runs
<1>3. writers = <<>> /\ (\A f \in Table : ~ Reading(f)) /\ UsersKept /\ SitesKept
  BY <1>2, Quiet
<1>4. ModeInv /\ where \in Dir /\ where = Data
  BY <1>1, CleanIs
<1>5. Data' = Data /\ Book' = Book
  BY <1>1 DEF Data, Base, Book
<1>6. \A f \in Table : /\ Reading(f)' <=> disk[where][f].there
                       /\ disk[where][f].there => reader'[f].at = 1 /\ reader'[f].dir = where /\ handle'[f]
  <2> TAKE f \in Table
  <2>1. CASE disk[where][f].there
    <3>1. reader'[f] = [dir |-> where, at |-> 1] /\ handle'[f]
      BY <1>1, <2>1
    <3>2. reader'[f].at = 1 /\ reader'[f].dir = where
      BY <3>1
    <3> QED
      BY <2>1, <3>1, <3>2 DEF Reading
  <2>2. CASE ~ disk[where][f].there
    <3>1. reader'[f] = NotReading /\ NotReading.at = 0
      BY <1>1, <2>2 DEF NotReading
    <3> QED
      BY <2>2, <3>1 DEF Reading
  <2> QED
    BY <2>1, <2>2
<1>7. ModeInv'
  <2>1. /\ pc' \in {"wait", "up"} /\ home /\ (saveAll <=> pc' = "wait")
    BY <1>1, <1>4 DEF ModeInv
  <2> QED
    BY <1>1, <1>4, <1>5, <2>1 DEF ModeInv
<1>8. disk'[where]["sites"] = disk[where]["sites"]
  <2>1. disk' = disk \/ disk' = [disk EXCEPT ![where]["users"] = Empty]
    BY DEF SettingsRead
  <2>2. DiskType
    BY DEF TypeInv
  <2> QED
    BY <1>4, <2>1, <2>2, DiskSet, EmptyIs, Kinds
<1>9. SitesKept'
  BY <1>1, <1>3, <1>4, <1>5, <1>8, SitesKeptFrame
<1>10. SitesRead'
  <2>1. CASE disk[where]["sites"].there
    <3>1. Reading("sites")' /\ reader'["sites"].at = 1
      BY <1>6, <2>1, Kinds
    <3>2. GoodSiteLines(disk[where]["sites"].lines)
      BY <1>3, <1>4, <2>1 DEF SitesKept
    <3>3. Len(disk[where]["sites"].lines) \in Nat
      BY <3>2 DEF GoodSiteLines
    <3>4. Len(sites') = 0 /\ DOMAIN sites' = {}
      BY <1>1
    <3>5. where' = where /\ disk'[where']["sites"] = disk[where]["sites"]
      BY <1>1, <1>8
    <3> QED
      BY <2>1, <3>1, <3>3, <3>4, <3>5 DEF SitesRead, SitesSoFar
  <2>2. CASE ~ disk[where]["sites"].there
    <3>1. ~ Reading("sites")'
      BY <1>6, <2>2, Kinds
    <3>2. wanted' = {}
      BY <1>1, <1>3, <1>4, <2>2 DEF SitesKept
    <3>3. DOMAIN sites' = {}
      BY <1>1
    <3>4. GoodSites(sites)'
      BY <3>2, <3>3 DEF GoodSites, Untwined
    <3> QED
      BY <3>1, <3>4 DEF SitesRead
  <2> QED
    BY <2>1, <2>2
<1>11. CASE disk[where]["users"].there
  <2>1. users' = <<>> /\ disk' = disk /\ writers' = <<>>
    BY <1>3, <1>11 DEF SettingsRead
  <2>2. OpenInv'
    BY <1>1, <1>2, <1>6, <2>1 DEF OpenInv
  <2>3. FileInv'
    <3>1. UsersKept'
      BY <1>1, <1>3, <1>5, <2>1, UsersKeptFrame
    <3> QED
      BY <1>1, <1>9, <1>11, <2>1, <3>1 DEF FileInv
  <2>4. UsersRead'
    <3>1. Reading("users")' /\ reader'["users"].at = 1
      BY <1>6, <1>11, Kinds
    <3>2. GoodUserLines(disk[where]["users"].lines) /\ disk[where]["users"].lines \in Seq(Line("users"))
      BY <1>3, <1>4, <1>11, CleanIs, Kinds DEF UsersKept
    <3>3. Len(disk[where]["users"].lines) \in Nat \ {0}
      BY <3>2 DEF GoodUserLines
    <3>4. Len(users') = 0 /\ DOMAIN users' = {}
      BY <2>1
    <3> QED
      BY <1>1, <2>1, <3>1, <3>3, <3>4 DEF UsersRead, UsersSoFar
  <2>5. WriterInv'
    BY <2>1 DEF WriterInv
  <2>6. ReaderInv'
    BY <1>10, <2>4 DEF ReaderInv
  <2> QED
    BY <1>7, <2>2, <2>3, <2>5, <2>6 DEF CleanInv
<1>12. CASE ~ disk[where]["users"].there
  <2> DEFINE w == Opened("users", where, UserLines(users'))
  <2>1. /\ users' = <<<<Admin, "old">>>> /\ disk' = [disk EXCEPT ![where]["users"] = Empty]
        /\ writers' = <<w>>
    BY <1>12 DEF SettingsRead
  <2>2. disk'[where]["users"] = Empty
    <3>1. DiskType
      BY DEF TypeInv
    <3> QED
      BY <1>4, <2>1, <3>1, DiskSet, EmptyIs, Kinds
  <2>3. w.table = "users" /\ w.dir = where
    BY DEF Opened
  <2>4. users' \in Seq(Login)
    BY <1>0 DEF TypeInv, TableType
  <2>5. Written(Empty, w, UserLines(users'))
    BY <2>4, UserLinesAre, JustOpened
  <2> HIDE DEF w
  <2>7. \A i \in DOMAIN writers' : i = 1 /\ writers'[i] = w
    BY <2>1
  <2>6. WriterInv'
    BY <2>2, <2>3, <2>5, <2>7 DEF WriterInv, LinesOf
  <2>8. ~ Reading("users")' /\ handle'["users"]
    BY <1>1, <1>6, <1>12, Kinds
  <2>9. OpenInv'
    <3>1. \A i \in DOMAIN writers' : /\ writers'[i].dir = where' /\ handle'[writers'[i].table]
                                     /\ reader'[writers'[i].table].at = 0
      BY <1>1, <2>3, <2>7, <2>8 DEF Reading
    <3> QED
      BY <1>1, <1>2, <1>6, <2>7, <3>1 DEF OpenInv, Reading
  <2>10. FileInv'
    <3>1. Busy("users")'
      BY <2>1, <2>3 DEF Busy
    <3>2. disk'[where']["users"].there
      BY <1>1, <2>2 DEF Empty
    <3> QED
      BY <1>9, <3>1, <3>2 DEF FileInv
  <2>11. UsersRead'
    <3>1. Book' = {<<Admin, "old">>}
      BY <1>3, <1>4, <1>5, <1>12 DEF UsersKept
    <3>2. DOMAIN users' = {1} /\ users'[1] = <<Admin, "old">>
      BY <2>1
    <3>3. GoodUsers(users)'
      BY <3>1, <3>2 DEF GoodUsers, Unlike, Passes
    <3> QED
      BY <2>8, <3>3 DEF UsersRead
  <2>12. ReaderInv'
    BY <1>10, <2>11 DEF ReaderInv
  <2> QED
    BY <1>7, <2>6, <2>9, <2>10, <2>12 DEF CleanInv
<1> QED
  BY <1>11, <1>12

LEMMA CleanSaveAll ==
  ASSUME TypeInv, CleanInv, SaveAll, odd = {}
  PROVE  CleanInv'
<1> DEFINE dir == IF args.cwd THEN "cwd" ELSE "home"
           us == Opened("users", dir, UserLines(users))
           ss == Opened("sites", dir, SiteLines(sites))
<1>1. /\ pc = "wait" /\ (\A f \in Table : ~ handle[f]) /\ where' = dir
      /\ disk' = [disk EXCEPT ![dir] = [f \in Table |-> Empty]]
      /\ writers' = writers \o <<us, ss>> /\ handle' = [f \in Table |-> TRUE]
      /\ saveAll' = FALSE /\ pc' = "up"
      /\ UNCHANGED <<args, home, starts, users, sites, reader, wanted, passes>>
  BY DEF SaveAll, started, told
<1>2. /\ ModeInv /\ OpenInv /\ FileInv /\ ReaderInv /\ users \in Seq(Login) /\ sites \in Seq(Held)
      /\ writers \in Seq(Writer) /\ \A i \in DOMAIN writers : writers[i].table \in Table
  BY CleanIs
<1>3. \A f \in Table : ~ Reading(f)
  BY <1>1, <1>2 DEF OpenInv
<1>4. writers = <<>>
  <2>1. DOMAIN writers = {}
    BY <1>1, <1>2 DEF OpenInv
  <2>2. DOMAIN writers = 1 .. Len(writers) /\ Len(writers) \in Nat
    BY <1>2
  <2> QED
    BY <1>2, <2>1, <2>2
<1>5. dir \in Dir /\ dir = Base
  BY Kinds DEF Base
<1>6. disk'[dir]["users"] = Empty /\ disk'[dir]["sites"] = Empty
  <2>1. disk \in [Dir -> [Table -> File]]
    BY DEF TypeInv, DiskType
  <2> QED
    BY <1>1, <1>5, <2>1, Kinds
<1>7. /\ us.table = "users" /\ us.dir = dir /\ ss.table = "sites" /\ ss.dir = dir
  BY DEF Opened
<1>8. Written(Empty, us, UserLines(users)) /\ Written(Empty, ss, SiteLines(sites))
  <2>1. UserLines(users) \in Seq(UserLine) /\ SiteLines(sites) \in Seq(SiteLine)
    BY <1>2, UserLinesAre, SiteLinesAre
  <2> QED
    BY <2>1, JustOpened
<1> HIDE DEF us, ss, dir
<1>11. DOMAIN writers' = {1, 2} /\ writers'[1] = us /\ writers'[2] = ss
  BY <1>1, <1>4
<1>12. \A f \in Table : ~ Reading(f)'
  BY <1>1, <1>3 DEF Reading
<1>13. ModeInv'
  <2>1. home /\ starts # 0
    BY <1>1, <1>2 DEF ModeInv
  <2>2. Data' = dir
    BY <1>1, <1>5, <2>1 DEF Data, Base
  <2> QED
    BY <1>1, <2>1, <2>2 DEF ModeInv
<1>14. OpenInv'
  <2>1. Runs'
    BY <1>1 DEF Runs
  <2>2. \A f \in Table : handle'[f]
    BY <1>1
  <2> QED
    BY <1>1, <1>7, <1>11, <1>12, <2>1, <2>2, Kinds DEF OpenInv
<1>15. FileInv'
  <2>1. Busy("users")' /\ Busy("sites")'
    BY <1>7, <1>11 DEF Busy
  <2>2. disk'[where']["users"].there
    BY <1>1, <1>6 DEF Empty
  <2> QED
    BY <2>1, <2>2 DEF FileInv
<1>16. WriterInv'
  <2>1. \A i \in DOMAIN writers' : writers'[i] = us \/ writers'[i] = ss
    BY <1>11
  <2> QED
    BY <1>1, <1>6, <1>7, <1>8, <2>1 DEF WriterInv, LinesOf
<1>17. ReaderInv'
  <2>1. UsersRead /\ SitesRead
    BY <1>1, <1>2 DEF ReaderInv, Runs
  <2>2. UsersRead' /\ SitesRead'
    BY <1>1, <1>3, <2>1, UsersReadFrame, SitesReadFrame, Kinds
  <2> QED
    BY <2>2 DEF ReaderInv
<1> QED
  BY <1>13, <1>14, <1>15, <1>16, <1>17 DEF CleanInv

\* One more line of a table is read.
LEMMA MoreUsers ==
  ASSUME NEW ls \in Seq(Line("users")), GoodUserLines(ls), NEW t \in Seq(Login), NEW t2,
         NEW at \in 1 .. Len(ls), UsersSoFar(t, ls, at),
         \/ ls[at] = Hole["users"] /\ t2 = t
         \/ ls[at] = Mute /\ t2 = t
         \/ ls[at] \in Login /\ t2 = <<ls[at]>> \o t
  PROVE  UsersSoFar(t2, ls, at + 1)
<1>1. Len(ls) \in Nat \ {0} /\ DOMAIN ls = 1 .. Len(ls) /\ ls[Len(ls)] = Mute
      /\ Before(ls) \in Seq(Login)
  BY DEF GoodUserLines
<1>2. \A j \in 1 .. Len(ls) - 1 : ls[j] \in Login
  <2> TAKE j \in 1 .. Len(ls) - 1
  <2>1. j \in DOMAIN Before(ls) /\ Before(ls)[j] = ls[j]
    BY DEF Before
  <2> DEFINE b == Before(ls)
  <2> HIDE DEF b
  <2>2. b \in Seq(Login) /\ j \in DOMAIN b /\ b[j] = ls[j]
    BY <1>1, <2>1 DEF b
  <2> QED
    BY <2>2
<1>3. Mute \notin Login /\ Hole["users"] \notin Login /\ Hole["users"] # Mute
  BY DEF Mute, Login, Hole, Blank
<1>4. /\ Len(t) \in Nat /\ DOMAIN t = 1 .. Len(t) /\ Len(ls) \in Nat
      /\ at \in Nat /\ 1 <= at /\ at <= Len(ls) /\ Len(t) = at - 1
      /\ \A i \in 1 .. Len(t) : t[i] = ls[Len(t) + 1 - i]
  <2>1. Len(ls) \in Nat /\ at \in Nat /\ 1 <= at /\ at <= Len(ls)
    BY <1>1
  <2>2. Len(t) \in Nat /\ DOMAIN t = 1 .. Len(t)
    OBVIOUS
  <2>3. Len(t) = at - 1
    BY <2>1 DEF UsersSoFar
  <2>4. \A i \in 1 .. Len(t) : t[i] = ls[Len(t) + 1 - i]
    BY <2>2 DEF UsersSoFar
  <2> QED
    BY <2>1, <2>2, <2>3, <2>4
<1>5. CASE at = Len(ls)
  <2>1. t2 = t
    BY <1>1, <1>3, <1>5
  <2> QED
    BY <1>1, <1>4, <1>5, <2>1 DEF UsersSoFar
<1>6. CASE at # Len(ls)
  <2>1. at \in 1 .. Len(ls) - 1 /\ ls[at] \in Login
    <3>1. at \in 1 .. Len(ls) - 1
      BY <1>4, <1>6
    <3> QED
      BY <1>2, <3>1
  <2>2. t2 = <<ls[at]>> \o t
    BY <1>3, <2>1
  <2>3. /\ Len(t2) = Len(t) + 1 /\ DOMAIN t2 = 1 .. Len(t) + 1
        /\ t2[1] = ls[at] /\ \A i \in 2 .. Len(t) + 1 : t2[i] = t[i - 1]
    BY <2>1, <2>2, PrependIs
  <2>4. \A i \in DOMAIN t2 : t2[i] = ls[Len(t2) + 1 - i]
    <3> SUFFICES ASSUME NEW i \in 1 .. Len(t) + 1
                 PROVE  t2[i] = ls[Len(t2) + 1 - i]
      BY <2>3
    <3>1. CASE i = 1
      <4>1. Len(t2) + 1 - i = at
        BY <1>4, <2>3, <3>1
      <4> QED
        BY <2>3, <3>1, <4>1
    <3>2. CASE i # 1
      <4>1. i \in 2 .. Len(t) + 1 /\ i - 1 \in 1 .. Len(t)
            /\ Len(t) + 1 - (i - 1) = Len(t2) + 1 - i
        BY <1>4, <2>3, <3>2
      <4>2. t2[i] = t[i - 1] /\ t[i - 1] = ls[Len(t) + 1 - (i - 1)]
        BY <1>4, <2>3, <4>1
      <4> QED
        BY <4>1, <4>2
    <3> QED
      BY <3>1, <3>2
  <2>5. at + 1 <= Len(ls) /\ at + 1 <= Len(ls) + 1 /\ Len(t2) = (at + 1) - 1
    BY <1>4, <1>6, <2>3
  <2> QED
    BY <2>4, <2>5 DEF UsersSoFar
<1> QED
  BY <1>5, <1>6

LEMMA MoreSites ==
  ASSUME NEW ls, GoodSiteLines(ls), NEW t \in Seq(Held), NEW t2,
         NEW at \in 1 .. Len(ls), SitesSoFar(t, ls, at),
         \/ ls[at] = Hole["sites"] /\ t2 = t
         \/ /\ ls[at] \in SiteLine
            /\ t2 = <<[tag |-> ls[at].tag, named |-> TRUE, extra |-> ls[at].extra]>> \o t
  PROVE  SitesSoFar(t2, ls, at + 1)
<1>1. Len(ls) \in Nat /\ DOMAIN ls = 1 .. Len(ls) /\ \A j \in 1 .. Len(ls) : ls[j] \in SiteLine
  BY DEF GoodSiteLines
<1>2. Hole["sites"] \notin SiteLine
  <2>1. Hole["sites"].tag = 0
    BY DEF Hole
  <2>2. \A l \in SiteLine : l.tag # 0
    BY DEF SiteLine
  <2> QED
    BY <2>1, <2>2
<1> DEFINE e == [tag |-> ls[at].tag, named |-> TRUE, extra |-> ls[at].extra]
<1>3. ls[at] \in SiteLine /\ t2 = <<e>> \o t
  BY <1>1, <1>2
<1>4. e \in Held /\ e.tag = ls[at].tag /\ e.named
  BY <1>3, HeldIs
<1>5. /\ Len(t) \in Nat /\ DOMAIN t = 1 .. Len(t) /\ at \in Nat
      /\ Len(t) = at - 1
      /\ \A i \in 1 .. Len(t) : t[i].named /\ t[i].tag = ls[Len(t) + 1 - i].tag
  BY <1>1 DEF SitesSoFar
<1> HIDE DEF e
<1>6. /\ Len(t2) = Len(t) + 1 /\ DOMAIN t2 = 1 .. Len(t) + 1
      /\ t2[1] = e /\ \A i \in 2 .. Len(t) + 1 : t2[i] = t[i - 1]
  BY <1>3, <1>4, PrependIs
<1>7. \A i \in DOMAIN t2 : t2[i].named /\ t2[i].tag = ls[Len(t2) + 1 - i].tag
  <2> SUFFICES ASSUME NEW i \in 1 .. Len(t) + 1
               PROVE  t2[i].named /\ t2[i].tag = ls[Len(t2) + 1 - i].tag
    BY <1>6
  <2>1. CASE i = 1
    <3>1. Len(t2) + 1 - i = at
      BY <1>5, <1>6, <2>1
    <3> QED
      BY <1>4, <1>6, <2>1, <3>1
  <2>2. CASE i # 1
    <3>1. i \in 2 .. Len(t) + 1 /\ i - 1 \in 1 .. Len(t)
          /\ Len(t) + 1 - (i - 1) = Len(t2) + 1 - i
      BY <1>5, <1>6, <2>2
    <3>2. /\ t2[i] = t[i - 1] /\ t[i - 1].named
          /\ t[i - 1].tag = ls[Len(t) + 1 - (i - 1)].tag
      BY <1>5, <1>6, <3>1
    <3> QED
      BY <3>1, <3>2
  <2> QED
    BY <2>1, <2>2
<1>8. at + 1 <= Len(ls) + 1 /\ Len(t2) = (at + 1) - 1
  BY <1>1, <1>5, <1>6
<1> QED
  BY <1>7, <1>8 DEF SitesSoFar

\* A table that is read has a file that nobody writes.
LEMMA ReadFrom ==
  ASSUME TypeInv, CleanInv, odd = {}, Runs, NEW f \in Table, Reading(f)
  PROVE  /\ ~ Busy(f) /\ handle[f] /\ reader[f].dir = where /\ where = Data
         /\ f = "users" => /\ GoodUserLines(disk[where]["users"].lines)
                           /\ UsersSoFar(users, disk[where]["users"].lines, reader["users"].at)
         /\ f = "sites" => /\ GoodSiteLines(disk[where]["sites"].lines)
                           /\ SitesSoFar(sites, disk[where]["sites"].lines, reader["sites"].at)
<1>1. OpenInv /\ FileInv /\ ReaderInv /\ (pc # "down" => where = Data)
  BY CleanIs
<1>2. where = Data
  BY <1>1 DEF Runs
<1>3. ~ Busy(f) /\ handle[f] /\ reader[f].dir = where
  BY <1>1 DEF OpenInv, Busy
<1>4. UsersRead /\ SitesRead
  BY <1>1 DEF ReaderInv
<1>5. f = "users" => /\ GoodUserLines(disk[where]["users"].lines)
                     /\ UsersSoFar(users, disk[where]["users"].lines, reader["users"].at)
  BY <1>1, <1>2, <1>3, <1>4 DEF FileInv, UsersKept, UsersRead
<1>6. f = "sites" => /\ GoodSiteLines(disk[where]["sites"].lines)
                     /\ SitesSoFar(sites, disk[where]["sites"].lines, reader["sites"].at)
  BY <1>1, <1>2, <1>3, <1>4 DEF FileInv, SitesKept, SitesRead
<1> QED
  BY <1>2, <1>3, <1>5, <1>6

LEMMA CleanReadLine ==
  ASSUME TypeInv, CleanInv, NEW f \in Table, ReadLine(f), odd = {}
  PROVE  CleanInv'
<1>1. /\ Runs /\ Reading(f) /\ reader' = [reader EXCEPT ![f].at = @ + 1]
      /\ UNCHANGED <<pc, args, home, starts, where, saveAll, disk, handle, writers, wanted, passes>>
  BY DEF ReadLine, started, told
<1>2. /\ ~ Busy(f) /\ handle[f] /\ reader[f].dir = where /\ where = Data
      /\ f = "users" => /\ GoodUserLines(disk[where]["users"].lines)
                        /\ UsersSoFar(users, disk[where]["users"].lines, reader["users"].at)
      /\ f = "sites" => /\ GoodSiteLines(disk[where]["sites"].lines)
                        /\ SitesSoFar(sites, disk[where]["sites"].lines, reader["sites"].at)
  BY <1>1, ReadFrom
<1>3. /\ ModeInv /\ OpenInv /\ FileInv /\ WriterInv /\ ReaderInv
      /\ users \in Seq(Login) /\ sites \in Seq(Held)
      /\ \A i \in DOMAIN writers : writers[i].table \in Table
  BY CleanIs
<1> DEFINE lines == disk[where][f].lines
           at == reader[f].at
<1>4. /\ lines \in Seq(Line(f)) /\ at \in 1 .. Len(lines)
      /\ \/ lines[at] = Hole[f] /\ UNCHANGED <<users, sites, mute>>
         \/ f = "users" /\ lines[at] = Mute /\ mute' = TRUE /\ UNCHANGED <<users, sites>>
         \/ f = "users" /\ lines[at] \in Login /\ users' = <<lines[at]>> \o users /\ UNCHANGED <<mute, sites>>
         \/ /\ f = "sites" /\ lines[at] \in SiteLine /\ UNCHANGED <<mute, users>>
            /\ sites' = <<[tag |-> lines[at].tag, named |-> TRUE, extra |-> lines[at].extra]>> \o sites
  BY <1>2, LineRead
<1>5. reader \in [Table -> [dir: Dir, at: Nat]]
  BY DEF TypeInv, OpenType
<1>6. /\ reader'[f].at = at + 1 /\ reader'[f].dir = reader[f].dir
      /\ \A g \in Table : g # f => reader'[g] = reader[g]
  BY <1>1, <1>5
<1>7. at \in Nat /\ at # 0
  BY <1>1, <1>5 DEF Reading
<1>8. \A g \in Table : Reading(g)' <=> Reading(g)
  BY <1>1, <1>6, <1>7 DEF Reading
<1>9. ModeInv'
  <2>1. Data' = Data
    BY <1>1 DEF Data, Base
  <2> QED
    BY <1>1, <1>3, <2>1 DEF ModeInv
<1>10. OpenInv'
  <2>1. Runs' = Runs
    BY <1>1 DEF Runs
  <2>2. \A g \in Table : reader'[g].dir = reader[g].dir
    BY <1>6
  <2>3. \A i \in DOMAIN writers : (reader'[writers[i].table].at # 0) <=> Reading(writers[i].table)
    BY <1>3, <1>8 DEF Reading
  <2>4. \A i \in DOMAIN writers :
          /\ writers[i].dir = where /\ handle[writers[i].table] /\ ~ Reading(writers[i].table)
          /\ \A j \in DOMAIN writers : writers[i].table = writers[j].table => i = j
    BY <1>3 DEF OpenInv
  <2>5. \A i \in DOMAIN writers' :
          /\ writers'[i].dir = where' /\ handle'[writers'[i].table]
          /\ ~ (reader'[writers'[i].table].at # 0)
          /\ \A j \in DOMAIN writers' : writers'[i].table = writers'[j].table => i = j
    BY <1>1, <2>3, <2>4
  <2>6. \A g \in Table : Reading(g)' => handle'[g] /\ reader'[g].dir = where'
    BY <1>1, <1>3, <1>8, <2>2 DEF OpenInv
  <2> QED
    BY <1>1, <2>1, <2>5, <2>6 DEF OpenInv, Reading
<1>11. FileInv'
  <2>1. Data' = Data /\ Runs' = Runs /\ \A g : Busy(g)' = Busy(g)
    BY <1>1 DEF Data, Base, Busy, Runs
  <2>2. (UsersKept => UsersKept') /\ (SitesKept => SitesKept')
    BY <1>1, <2>1, UsersKeptFrame, SitesKeptFrame
  <2> QED
    BY <1>1, <1>3, <2>1, <2>2 DEF FileInv
<1>12. WriterInv'
  <2>1. \A i \in DOMAIN writers : LinesOf(writers[i].table)' = LinesOf(writers[i].table)
    <3> SUFFICES ASSUME NEW i \in DOMAIN writers
                 PROVE  LinesOf(writers[i].table)' = LinesOf(writers[i].table)
      OBVIOUS
    <3>1. writers[i].table # f /\ writers'[i].table = writers[i].table
      BY <1>1, <1>2 DEF Busy
    <3>2. writers[i].table \in Table
      BY <1>3
    <3>3. CASE writers[i].table = "users"
      <4>1. users' = users
        BY <1>4, <3>1, <3>3
      <4> QED
        BY <3>1, <3>3, <4>1 DEF LinesOf
    <3>4. CASE writers[i].table = "sites"
      <4>1. sites' = sites
        BY <1>4, <3>1, <3>4
      <4> QED
        BY <3>1, <3>4, <4>1 DEF LinesOf
    <3> QED
      BY <3>2, <3>3, <3>4, Kinds
  <2> QED
    BY <1>1, <1>3, <2>1 DEF WriterInv
<1>13. UsersRead' /\ SitesRead'
  <2>1. UsersRead /\ SitesRead
    BY <1>1, <1>3 DEF ReaderInv
  <2>2. CASE f = "users"
    <3>1. sites' = sites /\ reader'["sites"] = reader["sites"]
      BY <1>4, <1>6, <2>2, Kinds
    <3>2. SitesRead'
      BY <1>1, <2>1, <3>1, SitesReadFrame
    <3>3. /\ GoodUserLines(lines) /\ UsersSoFar(users, lines, at) /\ lines \in Seq(Line("users"))
          /\ \/ lines[at] = Hole["users"] /\ users' = users
             \/ lines[at] = Mute /\ users' = users
             \/ lines[at] \in Login /\ users' = <<lines[at]>> \o users
      BY <1>2, <1>4, <2>2
    <3>4. UsersSoFar(users', lines, at + 1)
      <4> HIDE DEF lines, at
      <4> QED
        BY <1>3, <1>4, <3>3, MoreUsers
    <3>5. Reading("users")'
      BY <1>1, <1>8, <2>2
    <3> QED
      BY <1>1, <1>6, <2>2, <3>2, <3>4, <3>5 DEF UsersRead
  <2>3. CASE f = "sites"
    <3>1. users' = users /\ reader'["users"] = reader["users"]
      BY <1>4, <1>6, <2>3, Kinds
    <3>2. UsersRead'
      BY <1>1, <2>1, <3>1, UsersReadFrame
    <3>3. /\ GoodSiteLines(lines) /\ SitesSoFar(sites, lines, at)
          /\ \/ lines[at] = Hole["sites"] /\ sites' = sites
             \/ /\ lines[at] \in SiteLine
                /\ sites' = <<[tag |-> lines[at].tag, named |-> TRUE, extra |-> lines[at].extra]>> \o sites
      BY <1>2, <1>4, <2>3
    <3>4. SitesSoFar(sites', lines, at + 1)
      <4> HIDE DEF lines, at
      <4> QED
        BY <1>3, <1>4, <3>3, MoreSites
    <3>5. Reading("sites")' /\ disk[where]["sites"].there
      BY <1>1, <1>8, <2>1, <2>3 DEF SitesRead
    <3> QED
      BY <1>1, <1>6, <2>3, <3>2, <3>4, <3>5 DEF SitesRead
  <2> QED
    BY <2>2, <2>3, Kinds
<1> QED
  BY <1>9, <1>10, <1>11, <1>12, <1>13 DEF CleanInv, ReaderInv

LEMMA CleanReadEnd ==
  ASSUME TypeInv, CleanInv, NEW f \in Table, ReadEnd(f), odd = {}
  PROVE  CleanInv'
<1>1. /\ Runs /\ Reading(f) /\ reader[f].at > Len(disk[reader[f].dir][f].lines)
      /\ reader' = [reader EXCEPT ![f] = NotReading] /\ handle' = [handle EXCEPT ![f] = FALSE]
      /\ UNCHANGED <<pc, args, home, starts, where, saveAll, disk, writers, users, sites, wanted, passes>>
  BY DEF ReadEnd, FileClosed, started, told
<1>2. /\ ~ Busy(f) /\ reader[f].dir = where /\ where = Data
      /\ f = "users" => /\ GoodUserLines(disk[where]["users"].lines)
                        /\ UsersSoFar(users, disk[where]["users"].lines, reader["users"].at)
      /\ f = "sites" => /\ GoodSiteLines(disk[where]["sites"].lines)
                        /\ SitesSoFar(sites, disk[where]["sites"].lines, reader["sites"].at)
  BY <1>1, ReadFrom
<1>3. /\ ModeInv /\ OpenInv /\ FileInv /\ WriterInv /\ ReaderInv
      /\ users \in Seq(Login) /\ sites \in Seq(Held) /\ where \in Dir
      /\ \A i \in DOMAIN writers : writers[i].table \in Table
      /\ \A d \in Dir, g \in Table : disk[d][g].lines \in Seq(Line(g))
  BY CleanIs
<1>4. reader \in [Table -> [dir: Dir, at: Nat]] /\ handle \in [Table -> BOOLEAN]
  BY DEF TypeInv, OpenType
<1>5. /\ reader'[f] = NotReading /\ ~ Reading(f)'
      /\ \A g \in Table : g # f => reader'[g] = reader[g] /\ handle'[g] = handle[g]
  <2>1. reader'[f] = NotReading /\ NotReading.at = 0
    BY <1>1, <1>4 DEF NotReading
  <2>2. \A g \in Table : g # f => reader'[g] = reader[g]
    BY <1>1, <1>4
  <2>3. \A g \in Table : g # f => handle'[g] = handle[g]
    BY <1>1, <1>4
  <2> QED
    BY <2>1, <2>2, <2>3 DEF Reading
<1>6. \A g \in Table : Reading(g)' => g # f /\ Reading(g)
  BY <1>5 DEF Reading
<1>7. \A i \in DOMAIN writers : writers[i].table # f
  BY <1>2 DEF Busy
<1>8. Data' = Data /\ Runs' = Runs
  BY <1>1 DEF Data, Base, Runs
<1>9. ModeInv'
  BY <1>1, <1>3, <1>8 DEF ModeInv
<1>10. OpenInv'
  <2>1. \A i \in DOMAIN writers :
          /\ writers[i].dir = where /\ handle[writers[i].table] /\ ~ Reading(writers[i].table)
          /\ \A j \in DOMAIN writers : writers[i].table = writers[j].table => i = j
    BY <1>3 DEF OpenInv
  <2>2. \A i \in DOMAIN writers' :
          /\ writers'[i].dir = where' /\ handle'[writers'[i].table]
          /\ ~ (reader'[writers'[i].table].at # 0)
          /\ \A j \in DOMAIN writers' : writers'[i].table = writers'[j].table => i = j
    BY <1>1, <1>3, <1>5, <1>7, <2>1 DEF Reading
  <2>3. \A g \in Table : Reading(g)' => handle'[g] /\ reader'[g].dir = where'
    <3> SUFFICES ASSUME NEW g \in Table, Reading(g)'
                 PROVE  handle'[g] /\ reader'[g].dir = where'
      OBVIOUS
    <3>1. g # f /\ Reading(g) /\ reader'[g] = reader[g] /\ handle'[g] = handle[g]
      BY <1>5, <1>6
    <3>2. handle[g] /\ reader[g].dir = where
      BY <1>3, <3>1 DEF OpenInv
    <3> QED
      BY <1>1, <3>1, <3>2
  <2> QED
    BY <1>1, <1>8, <2>2, <2>3 DEF OpenInv, Reading
<1>11. FileInv'
  <2>1. \A g : Busy(g)' = Busy(g)
    BY <1>1 DEF Busy
  <2>2. (UsersKept => UsersKept') /\ (SitesKept => SitesKept')
    BY <1>1, <1>8, UsersKeptFrame, SitesKeptFrame
  <2> QED
    BY <1>1, <1>3, <1>8, <2>1, <2>2 DEF FileInv
<1>12. WriterInv'
  BY <1>1, <1>3 DEF WriterInv, LinesOf
<1>13. UsersRead' /\ SitesRead'
  <2>1. UsersRead /\ SitesRead
    BY <1>1, <1>3 DEF ReaderInv
  <2>2. CASE f = "users"
    <3>1. SitesRead'
      <4>1. reader'["sites"] = reader["sites"]
        BY <1>5, <2>2, Kinds
      <4> QED
        BY <1>1, <2>1, <4>1, SitesReadFrame
    <3> DEFINE ls == disk[where]["users"].lines
               at == reader["users"].at
    <3>2. /\ ls \in Seq(Line("users")) /\ GoodUserLines(ls) /\ UsersSoFar(users, ls, at)
          /\ at > Len(ls) /\ at \in Nat /\ Len(ls) \in Nat
      <4>1. ls \in Seq(Line("users"))
        BY <1>3, Kinds
      <4>2. at \in Nat
        BY <1>4, Kinds
      <4> QED
        BY <1>1, <1>2, <2>2, <4>1, <4>2
    <3> HIDE DEF ls, at
    <3>3. Len(users) = Len(ls) - 1 /\ \A i \in DOMAIN users : users[i] = ls[Len(users) + 1 - i]
      BY <3>2 DEF UsersSoFar
    <3>4. GoodUsers(users)
      BY <1>3, <3>2, <3>3, UsersReversed
    <3>5. GoodUsers(users)'
      BY <1>1, <3>4 DEF GoodUsers, Book
    <3> QED
      BY <1>5, <2>2, <3>1, <3>5 DEF UsersRead
  <2>3. CASE f = "sites"
    <3>1. UsersRead'
      <4>1. reader'["users"] = reader["users"]
        BY <1>5, <2>3, Kinds
      <4> QED
        BY <1>1, <2>1, <4>1, UsersReadFrame
    <3> DEFINE ls == disk[where]["sites"].lines
               at == reader["sites"].at
    <3>2. /\ GoodSiteLines(ls) /\ SitesSoFar(sites, ls, at)
          /\ at > Len(ls) /\ at \in Nat /\ Len(ls) \in Nat
      <4>1. ls \in Seq(Line("sites"))
        BY <1>3, Kinds
      <4>2. at \in Nat
        BY <1>4, Kinds
      <4> QED
        BY <1>1, <1>2, <2>3, <4>1, <4>2
    <3> HIDE DEF ls, at
    <3>3. /\ Len(sites) = Len(ls)
          /\ \A i \in DOMAIN sites : sites[i].named /\ sites[i].tag = ls[Len(sites) + 1 - i].tag
      BY <3>2 DEF SitesSoFar
    <3>4. GoodSites(sites)
      BY <1>3, <3>2, <3>3, SitesReversed
    <3>5. GoodSites(sites)'
      BY <1>1, <3>4 DEF GoodSites
    <3> QED
      BY <1>5, <2>3, <3>1, <3>5 DEF SitesRead
  <2> QED
    BY <2>2, <2>3, Kinds
<1> QED
  BY <1>9, <1>10, <1>11, <1>12, <1>13 DEF CleanInv, ReaderInv

LEMMA CleanWriteLine ==
  ASSUME TypeInv, CleanInv, NEW i, WriteLine(i), odd = {}
  PROVE  CleanInv'
<1> DEFINE f == writers[i].table
<1>1. /\ Runs /\ i \in DOMAIN writers
      /\ UNCHANGED <<pc, args, home, starts, where, saveAll, users, sites, handle, reader, wanted, passes>>
  BY DEF WriteLine, started, memory, told
<1>2. /\ ModeInv /\ OpenInv /\ FileInv /\ WriterInv /\ ReaderInv
      /\ users \in Seq(Login) /\ sites \in Seq(Held) /\ where \in Dir
      /\ \A j \in DOMAIN writers : writers[j] \in Writer /\ writers[j].table \in Table
      /\ \A d \in Dir, g \in Table : disk[d][g].lines \in Seq(Line(g))
      /\ where = Data
  BY <1>1, CleanIs DEF Runs
<1>3. /\ \A j \in DOMAIN writers :
           /\ writers[j].dir = where /\ handle[writers[j].table] /\ ~ Reading(writers[j].table)
           /\ \A k \in DOMAIN writers : writers[j].table = writers[k].table => j = k
      /\ \A g \in Table : Reading(g) => handle[g] /\ reader[g].dir = where
  BY <1>2 DEF OpenInv
<1>4. f \in Table /\ writers[i].dir = where /\ ~ Reading(f) /\ Busy(f)
  BY <1>1, <1>2, <1>3 DEF Busy
<1>5. /\ DOMAIN writers' = DOMAIN writers
      /\ writers'[i].table = f /\ writers'[i].dir = where
      /\ writers'[i].at = writers[i].at + 1 /\ writers'[i].lines = Tail(writers[i].lines)
      /\ \A j \in DOMAIN writers : j # i => writers'[j] = writers[j]
  BY <1>4, WriterAfter
<1> DEFINE old == disk[where][f]
           new == disk'[where][f]
<1>6. /\ writers[i].lines # <<>> /\ new.lines \in Seq(Line(f))
      /\ Len(new.lines) = IF writers[i].at > Len(old.lines) THEN writers[i].at ELSE Len(old.lines)
      /\ \A n \in DOMAIN new.lines :
           new.lines[n] = IF n = writers[i].at THEN Head(writers[i].lines)
                          ELSE IF n <= Len(old.lines) THEN old.lines[n] ELSE Hole[f]
      /\ new.there = old.there
      /\ \A d \in Dir, g \in Table : d # where \/ g # f => disk'[d][g] = disk[d][g]
  <2>1. /\ writers[i].lines # <<>>
        /\ disk'[writers[i].dir][f].lines \in Seq(Line(f))
        /\ Len(disk'[writers[i].dir][f].lines)
             = IF writers[i].at > Len(disk[writers[i].dir][f].lines) THEN writers[i].at
               ELSE Len(disk[writers[i].dir][f].lines)
        /\ \A n \in DOMAIN disk'[writers[i].dir][f].lines :
             disk'[writers[i].dir][f].lines[n]
               = IF n = writers[i].at THEN Head(writers[i].lines)
                 ELSE IF n <= Len(disk[writers[i].dir][f].lines)
                      THEN disk[writers[i].dir][f].lines[n] ELSE Hole[f]
        /\ disk'[writers[i].dir][f].there = disk[writers[i].dir][f].there
        /\ \A d \in Dir, g \in Table : d # writers[i].dir \/ g # f => disk'[d][g] = disk[d][g]
    BY LineWritten, Zenon
  <2>2. writers[i].dir = where
    BY <1>4
  <2> QED
    BY <2>1, <2>2, Zenon
<1>7. Data' = Data /\ Runs' = Runs
  BY <1>1 DEF Data, Base, Runs
<1>8. \A g \in Table : Busy(g)' <=> Busy(g)
  <2>1. \A j \in DOMAIN writers : writers'[j].table = writers[j].table
    BY <1>5
  <2> QED
    BY <1>5, <2>1 DEF Busy
<1>9. ModeInv'
  <2>1. \A d \in Dir, g \in Table : disk'[d][g].there = disk[d][g].there
    BY <1>6
  <2> QED
    BY <1>1, <1>2, <1>7, <2>1, Kinds DEF ModeInv
<1>10. OpenInv'
  <2>1. \A j \in DOMAIN writers' : writers'[j].table = writers[j].table /\ writers'[j].dir = writers[j].dir
    BY <1>4, <1>5
  <2>2. \A j \in DOMAIN writers' :
          /\ writers'[j].dir = where' /\ handle'[writers'[j].table] /\ ~ (reader'[writers'[j].table].at # 0)
          /\ \A k \in DOMAIN writers' : writers'[j].table = writers'[k].table => j = k
    BY <1>1, <1>3, <1>5, <2>1 DEF Reading
  <2>3. \A g \in Table : (reader'[g].at # 0) => handle'[g] /\ reader'[g].dir = where'
    BY <1>1, <1>3 DEF Reading
  <2> QED
    BY <1>1, <1>7, <2>2, <2>3 DEF OpenInv, Reading
<1>11. FileInv'
  <2>1. ~ Busy("users") => UsersKept'
    <3> SUFFICES ASSUME ~ Busy("users")
                 PROVE  UsersKept'
      OBVIOUS
    <3>1. f # "users" /\ UsersKept
      BY <1>2, <1>4 DEF FileInv
    <3>2. disk'[where]["users"] = disk[where]["users"]
      BY <1>2, <1>6, <3>1, Kinds
    <3> QED
      BY <1>1, <1>2, <1>7, <3>1, <3>2, UsersKeptFrame
  <2>2. ~ Busy("sites") => SitesKept'
    <3> SUFFICES ASSUME ~ Busy("sites")
                 PROVE  SitesKept'
      OBVIOUS
    <3>1. f # "sites" /\ SitesKept
      BY <1>2, <1>4 DEF FileInv
    <3>2. disk'[where]["sites"] = disk[where]["sites"]
      BY <1>2, <1>6, <3>1, Kinds
    <3> QED
      BY <1>1, <1>2, <1>7, <3>1, <3>2, SitesKeptFrame
  <2>3. disk'[where]["users"].there
    <3>1. disk[where]["users"].there
      BY <1>1, <1>2 DEF FileInv
    <3> QED
      BY <1>2, <1>6, <3>1, Kinds
  <2> QED
    BY <1>1, <1>8, <2>1, <2>2, <2>3, Kinds DEF FileInv
<1>12. WriterInv'
  <2>1. \A g : LinesOf(g)' = LinesOf(g)
    BY <1>1 DEF LinesOf
  <2>2. LinesOf(f) \in Seq(Line(f))
    BY <1>2, <1>4, UserLinesType, SiteLinesType, Kinds DEF LinesOf
  <2>3. Written(old, writers[i], LinesOf(f))
    BY <1>1, <1>2, <1>4 DEF WriterInv
  <2>4. /\ writers[i].lines \in Seq(Line(f)) /\ writers[i].at \in Nat \ {0} /\ old.lines \in Seq(Line(f))
    BY <1>1, <1>2, <1>4, WriterIs
  <2>5. \A n \in DOMAIN new.lines :
           new.lines[n] = IF n = writers[i].at THEN Head(writers[i].lines)
                          ELSE IF n <= Len(old.lines) THEN old.lines[n] ELSE new.lines[n]
    BY <1>6
  <2>6. Written(new, writers'[i], LinesOf(f))
    <3> DEFINE w == writers[i]
               v == writers'[i]
               ls == LinesOf(f)
               S == Line(f)
    <3>1. ls \in Seq(S) /\ Written(old, w, ls) /\ old.lines \in Seq(S) /\ new.lines \in Seq(S)
          /\ w.lines \in Seq(S) /\ w.lines # <<>> /\ w.at \in Nat \ {0} /\ new.there = old.there
          /\ Len(new.lines) = (IF w.at > Len(old.lines) THEN w.at ELSE Len(old.lines))
          /\ v.at = w.at + 1 /\ v.lines = Tail(w.lines)
      BY <1>5, <1>6, <2>2, <2>3, <2>4
    <3>2. \A n \in DOMAIN new.lines : new.lines[n] = IF n = w.at THEN Head(w.lines)
                        ELSE IF n <= Len(old.lines) THEN old.lines[n] ELSE new.lines[n]
      BY <2>5
    <3> HIDE DEF w, v, ls, S, old, new
    <3>3. Written(new, v, ls)
      BY <3>1, <3>2, WrittenMore
    <3> QED
      BY <3>3 DEF v, ls
  <2>7. \A j \in DOMAIN writers' :
          Written(disk'[writers'[j].dir][writers'[j].table], writers'[j], LinesOf(writers'[j].table))
    <3> SUFFICES ASSUME NEW j \in DOMAIN writers
                 PROVE  Written(disk'[writers'[j].dir][writers'[j].table], writers'[j], LinesOf(writers'[j].table))
      BY <1>5
    <3>1. CASE j = i
      BY <1>5, <2>6, <3>1
    <3>2. CASE j # i
      <4>1. writers'[j] = writers[j] /\ writers[j].table # f /\ writers[j].table \in Table /\ writers[j].dir = where
        BY <1>1, <1>2, <1>3, <1>5, <3>2
      <4>2. disk'[where][writers[j].table] = disk[where][writers[j].table]
        BY <1>2, <1>6, <4>1
      <4>3. Written(disk[writers[j].dir][writers[j].table], writers[j], LinesOf(writers[j].table))
        BY <1>2 DEF WriterInv
      <4> QED
        BY <4>1, <4>2, <4>3
    <3> QED
      BY <3>1, <3>2
  <2> QED
    BY <1>1, <2>7 DEF WriterInv, LinesOf
<1>13. ReaderInv'
  <2>1. UsersRead /\ SitesRead
    BY <1>1, <1>2 DEF ReaderInv
  <2>2. \A g \in Table : Reading(g) => disk'[where][g] = disk[where][g]
    BY <1>2, <1>4, <1>6
  <2>3. UsersRead' /\ SitesRead'
    BY <1>1, <2>1, <2>2, UsersReadFrame, SitesReadFrame, Kinds
  <2> QED
    BY <2>3 DEF ReaderInv
<1> QED
  BY <1>9, <1>10, <1>11, <1>12, <1>13 DEF CleanInv

LEMMA CleanWriteEnd ==
  ASSUME TypeInv, CleanInv, NEW i, WriteEnd(i), odd = {}
  PROVE  CleanInv'
<1> DEFINE f == writers[i].table
<1>1. /\ Runs /\ i \in DOMAIN writers /\ writers[i].lines = <<>>
      /\ handle' = [handle EXCEPT ![f] = FALSE]
      /\ UNCHANGED <<pc, args, home, starts, where, saveAll, disk, users, sites, reader, wanted, passes>>
  BY DEF WriteEnd, FileClosed, started, told
<1>2. /\ ModeInv /\ OpenInv /\ FileInv /\ WriterInv /\ ReaderInv
      /\ users \in Seq(Login) /\ sites \in Seq(Held) /\ where \in Dir
      /\ \A j \in DOMAIN writers : writers[j] \in Writer /\ writers[j].table \in Table
      /\ \A d \in Dir, g \in Table : disk[d][g].lines \in Seq(Line(g))
      /\ where = Data
  BY <1>1, CleanIs DEF Runs
<1>3. /\ \A j \in DOMAIN writers :
           /\ writers[j].dir = where /\ handle[writers[j].table] /\ ~ Reading(writers[j].table)
           /\ \A k \in DOMAIN writers : writers[j].table = writers[k].table => j = k
      /\ \A g \in Table : Reading(g) => handle[g] /\ reader[g].dir = where
  BY <1>2 DEF OpenInv
<1>4. f \in Table /\ ~ Reading(f)
  BY <1>1, <1>2, <1>3
<1>5. /\ \A j \in DOMAIN writers' : \E k \in DOMAIN writers : k # i /\ writers'[j] = writers[k]
      /\ \A j, k \in DOMAIN writers' : j # k =>
           \E m, n \in DOMAIN writers : m # n /\ writers'[j] = writers[m] /\ writers'[k] = writers[n]
      /\ \A k \in DOMAIN writers : k # i => \E j \in DOMAIN writers' : writers'[j] = writers[k]
  BY WriterGone
<1>6. handle \in [Table -> BOOLEAN] /\ \A g \in Table : g # f => handle'[g] = handle[g]
  <2>1. handle \in [Table -> BOOLEAN]
    BY DEF TypeInv, OpenType
  <2> QED
    BY <1>1, <2>1
<1>7. Data' = Data /\ Runs' = Runs /\ Book' = Book
  BY <1>1 DEF Data, Base, Runs, Book
<1>8. \A g \in Table : g # f /\ ~ Busy(g)' => ~ Busy(g)
  BY <1>5 DEF Busy
<1>9. UsersRead /\ SitesRead
  BY <1>1, <1>2 DEF ReaderInv
<1>10. disk[where][f].there /\ disk[where][f].lines = LinesOf(f)
  <2>1. Written(disk[where][f], writers[i], LinesOf(f))
    BY <1>1, <1>2, <1>3 DEF WriterInv
  <2>2. LinesOf(f) \in Seq(Line(f)) /\ disk[where][f].lines \in Seq(Line(f))
    BY <1>2, <1>4, UserLinesType, SiteLinesType, Kinds DEF LinesOf
  <2> DEFINE on == disk[where][f]
             w == writers[i]
             ls == LinesOf(f)
  <2>3. Written(on, w, ls) /\ ls \in Seq(Line(f)) /\ on.lines \in Seq(Line(f)) /\ w.lines = <<>>
    BY <1>1, <2>1, <2>2
  <2> HIDE DEF on, w, ls
  <2>4. on.there /\ on.lines = ls
    BY <2>3, WrittenWhole
  <2> QED
    BY <2>4 DEF on, ls
<1>11. ModeInv'
  BY <1>1, <1>2, <1>7 DEF ModeInv
<1>12. OpenInv'
  <2>1. \A j \in DOMAIN writers' :
          writers'[j].dir = where' /\ handle'[writers'[j].table] /\ ~ (reader'[writers'[j].table].at # 0)
    <3> SUFFICES ASSUME NEW j \in DOMAIN writers'
                 PROVE  writers'[j].dir = where /\ handle'[writers'[j].table]
                        /\ ~ (reader[writers'[j].table].at # 0)
      BY <1>1
    <3>1. PICK k \in DOMAIN writers : k # i /\ writers'[j] = writers[k]
      BY <1>5
    <3>2. writers[k].table # f /\ writers[k].table \in Table
      BY <1>1, <1>2, <1>3, <3>1
    <3> QED
      BY <1>3, <1>6, <3>1, <3>2 DEF Reading
  <2>2. \A j, k \in DOMAIN writers' : writers'[j].table = writers'[k].table => j = k
    BY <1>3, <1>5
  <2>3. \A g \in Table : (reader'[g].at # 0) => handle'[g] /\ reader'[g].dir = where'
    BY <1>1, <1>3, <1>4, <1>6 DEF Reading
  <2> QED
    BY <1>1, <1>7, <2>1, <2>2, <2>3 DEF OpenInv, Reading
<1>13. FileInv'
  <2>1. CASE f = "users"
    <3>1. GoodUserLines(disk[where]["users"].lines) /\ disk[where]["users"].there
      <4>1. GoodUsers(users)
        BY <1>4, <1>9, <2>1 DEF UsersRead
      <4>2. GoodUserLines(UserLines(users))
        BY <1>2, <4>1, GoodUsersWritten
      <4> QED
        BY <1>10, <2>1, <4>2 DEF LinesOf
    <3>2. UsersKept'
      <4>1. UsersKept
        BY <1>2, <3>1 DEF UsersKept
      <4> QED
        BY <1>1, <1>7, <4>1, UsersKeptFrame
    <3>3. ~ Busy("sites")' => SitesKept'
      <4>1. ~ Busy("sites")' => SitesKept
        BY <1>2, <1>8, <2>1, Kinds DEF FileInv
      <4> QED
        BY <1>1, <1>7, <4>1, SitesKeptFrame
    <3> QED
      BY <1>1, <3>1, <3>2, <3>3 DEF FileInv
  <2>2. CASE f = "sites"
    <3>1. GoodSiteLines(disk[where]["sites"].lines) /\ disk[where]["sites"].there
      <4>1. GoodSites(sites)
        BY <1>4, <1>9, <2>2 DEF SitesRead
      <4>2. GoodSiteLines(SiteLines(sites))
        BY <1>2, <4>1, GoodSitesWritten
      <4> QED
        BY <1>10, <2>2, <4>2 DEF LinesOf
    <3>2. SitesKept'
      <4>1. SitesKept
        BY <1>2, <3>1 DEF SitesKept
      <4> QED
        BY <1>1, <1>7, <4>1, SitesKeptFrame
    <3>3. ~ Busy("users")' => UsersKept'
      <4>1. ~ Busy("users")' => UsersKept
        BY <1>2, <1>8, <2>2, Kinds DEF FileInv
      <4> QED
        BY <1>1, <1>7, <4>1, UsersKeptFrame
    <3>4. disk[where]["users"].there
      BY <1>1, <1>2 DEF FileInv
    <3> QED
      BY <1>1, <3>2, <3>3, <3>4 DEF FileInv
  <2> QED
    BY <1>4, <2>1, <2>2, Kinds
<1>14. WriterInv'
  <2>1. \A j \in DOMAIN writers' :
          Written(disk[writers'[j].dir][writers'[j].table], writers'[j], LinesOf(writers'[j].table))
    BY <1>2, <1>5 DEF WriterInv
  <2>2. \A g : LinesOf(g)' = LinesOf(g)
    BY <1>1 DEF LinesOf
  <2> QED
    BY <1>1, <2>1, <2>2 DEF WriterInv, LinesOf
<1>15. ReaderInv'
  <2>1. UsersRead' /\ SitesRead'
    BY <1>1, <1>9, UsersReadFrame, SitesReadFrame
  <2> QED
    BY <2>1 DEF ReaderInv
<1> QED
  BY <1>11, <1>12, <1>13, <1>14, <1>15 DEF CleanInv

\* A table is changed and saved again, while its file is neither read nor written.
LEMMA CleanSaved ==
  ASSUME TypeInv, CleanInv, odd = {}, odd' = {}, Runs, NEW f \in Table, Oddity(f),
         NEW ls \in Seq(Line(f)), Save(f, where, ls), ls = LinesOf(f)',
         UNCHANGED <<pc, args, home, starts, where, saveAll, reader>>,
         f # "users" => UNCHANGED <<users, passes>>, f # "sites" => UNCHANGED <<sites, wanted>>,
         f = "users" => GoodUsers(users)', f = "sites" => GoodSites(sites)'
  PROVE  CleanInv'
<1>1. /\ ModeInv /\ OpenInv /\ FileInv /\ WriterInv /\ ReaderInv
      /\ where \in Dir /\ writers \in Seq(Writer) /\ where = Data
      /\ \A j \in DOMAIN writers : writers[j] \in Writer /\ writers[j].table \in Table
  BY CleanIs DEF Runs
<1>2. /\ \A j \in DOMAIN writers :
           /\ writers[j].dir = where /\ handle[writers[j].table] /\ ~ Reading(writers[j].table)
           /\ \A k \in DOMAIN writers : writers[j].table = writers[k].table => j = k
      /\ \A g \in Table : Reading(g) => handle[g] /\ reader[g].dir = where
  BY <1>1 DEF OpenInv
<1>3. ~ Reading(f) /\ ~ Busy(f)
  <2>1. ~ Reading(f) /\ ~ Writing(f, where)
    BY DEF Oddity
  <2> QED
    BY <1>2, <2>1 DEF Writing, Busy
<1> DEFINE w == Opened(f, where, ls)
<1>4. /\ writers' = Append(writers, w) /\ handle' = [handle EXCEPT ![f] = TRUE]
      /\ disk' = [disk EXCEPT ![where][f] = Empty]
  BY DEF Save
<1>5. w \in Writer /\ w.table = f /\ w.dir = where
  <2>1. w \in Writer
    BY <1>1, OpenedIs
  <2> QED
    BY <2>1 DEF Opened
<1>6. Written(Empty, w, ls)
  BY JustOpened
<1> HIDE DEF w
<1>7. /\ DOMAIN writers' = 1 .. Len(writers) + 1 /\ DOMAIN writers = 1 .. Len(writers)
      /\ Len(writers) \in Nat /\ writers'[Len(writers) + 1] = w
      /\ \A j \in DOMAIN writers : writers'[j] = writers[j]
  BY <1>1, <1>4, <1>5, AppendIs
<1>8. \A j \in DOMAIN writers' : (j \in DOMAIN writers /\ writers'[j] = writers[j]) \/ (j = Len(writers) + 1 /\ writers'[j] = w)
  BY <1>7
<1>9. handle'[f] /\ \A g \in Table : g # f => handle'[g] = handle[g]
  <2>1. handle \in [Table -> BOOLEAN]
    BY DEF TypeInv, OpenType
  <2> QED
    BY <1>4, <2>1
<1>10. disk'[where][f] = Empty /\ \A d \in Dir, g \in Table : d # where \/ g # f => disk'[d][g] = disk[d][g]
  <2>1. DiskType
    BY DEF TypeInv
  <2> QED
    BY <1>1, <1>4, <2>1, DiskSet, EmptyIs
<1>11. Data' = Data /\ Runs' = Runs
  BY DEF Data, Base, Runs
<1>12. ModeInv'
  <2>1. home
    BY <1>1 DEF ModeInv, Runs
  <2> QED
    BY <1>1, <1>11, <2>1 DEF ModeInv
<1>13. OpenInv'
  <2>1. \A j \in DOMAIN writers' :
          writers'[j].dir = where' /\ handle'[writers'[j].table] /\ ~ (reader'[writers'[j].table].at # 0)
    <3> SUFFICES ASSUME NEW j \in DOMAIN writers'
                 PROVE  writers'[j].dir = where /\ handle'[writers'[j].table]
                        /\ ~ (reader[writers'[j].table].at # 0)
      OBVIOUS
    <3>1. CASE j \in DOMAIN writers /\ writers'[j] = writers[j]
      BY <1>1, <1>2, <1>9, <3>1 DEF Reading
    <3>2. CASE writers'[j] = w
      BY <1>3, <1>5, <1>9, <3>2 DEF Reading
    <3> QED
      BY <1>8, <3>1, <3>2
  <2>2. \A j, k \in DOMAIN writers' : writers'[j].table = writers'[k].table => j = k
    <3>1. \A j \in DOMAIN writers : writers[j].table # f
      BY <1>3 DEF Busy
    <3> QED
      BY <1>2, <1>5, <1>8, <3>1
  <2>3. \A g \in Table : (reader'[g].at # 0) => handle'[g] /\ reader'[g].dir = where'
    BY <1>2, <1>3, <1>9 DEF Reading
  <2> QED
    BY <1>11, <2>1, <2>2, <2>3 DEF OpenInv, Reading
<1>14. Busy(f)' /\ \A g \in Table : ~ Busy(g)' => g # f /\ ~ Busy(g)
  <2>1. Len(writers) + 1 \in DOMAIN writers'
    BY <1>7
  <2>2. Busy(f)'
    BY <1>5, <1>7, <2>1 DEF Busy
  <2>3. \A j \in DOMAIN writers : j \in DOMAIN writers'
    BY <1>7
  <2> QED
    BY <1>7, <2>2, <2>3 DEF Busy
<1>15. FileInv'
  <2>1. ~ Busy("users")' => UsersKept'
    <3> SUFFICES ASSUME ~ Busy("users")'
                 PROVE  UsersKept'
      OBVIOUS
    <3>1. f # "users" /\ UsersKept
      BY <1>1, <1>14, Kinds DEF FileInv
    <3> QED
      BY <1>1, <1>10, <1>11, <3>1, UsersKeptFrame, Kinds
  <2>2. ~ Busy("sites")' => SitesKept'
    <3> SUFFICES ASSUME ~ Busy("sites")'
                 PROVE  SitesKept'
      OBVIOUS
    <3>1. f # "sites" /\ SitesKept
      BY <1>1, <1>14, Kinds DEF FileInv
    <3> QED
      BY <1>1, <1>10, <1>11, <3>1, SitesKeptFrame, Kinds
  <2>3. disk'[where]["users"].there
    <3>1. disk[where]["users"].there /\ Empty.there
      BY <1>1 DEF FileInv, Empty
    <3> QED
      BY <1>1, <1>10, <3>1, Kinds
  <2> QED
    BY <2>1, <2>2, <2>3 DEF FileInv
<1>16. WriterInv'
  <2>1. \A j \in DOMAIN writers' :
          Written(disk'[writers'[j].dir][writers'[j].table], writers'[j],
                  IF writers'[j].table = "users" THEN UserLines(users') ELSE SiteLines(sites'))
    <3> TAKE j \in DOMAIN writers'
    <3>1. CASE j \in DOMAIN writers /\ writers'[j] = writers[j]
      <4>1. writers[j].table # f /\ writers[j].table \in Table /\ writers[j].dir = where
        BY <1>1, <1>2, <1>3, <3>1 DEF Busy
      <4>2. Written(disk[where][writers[j].table], writers[j], LinesOf(writers[j].table))
        BY <1>1, <3>1, <4>1 DEF WriterInv
      <4>3. disk'[where][writers[j].table] = disk[where][writers[j].table]
        BY <1>1, <1>10, <4>1
      <4>4. (IF writers'[j].table = "users" THEN UserLines(users') ELSE SiteLines(sites'))
              = LinesOf(writers[j].table)
        BY <3>1, <4>1, Kinds DEF LinesOf
      <4> QED
        BY <3>1, <4>1, <4>2, <4>3, <4>4
    <3>2. CASE writers'[j] = w
      <4>1. writers'[j].table = f /\ writers'[j].dir = where
        BY <1>5, <3>2
      <4>2. (IF writers'[j].table = "users" THEN UserLines(users') ELSE SiteLines(sites')) = ls
        BY <4>1 DEF LinesOf
      <4> QED
        BY <1>6, <1>10, <3>2, <4>1, <4>2
    <3> QED
      BY <1>8, <3>1, <3>2
  <2> QED
    BY <2>1 DEF WriterInv, LinesOf
<1>17. UsersRead' /\ SitesRead'
  <2>1. UsersRead /\ SitesRead
    BY <1>1 DEF ReaderInv
  <2>2. \A g \in Table : Reading(g)' = Reading(g)
    BY DEF Reading
  <2>3. UsersRead'
    <3>1. CASE f = "users"
      BY <1>3, <2>2, <3>1, Kinds DEF UsersRead
    <3>2. CASE f # "users"
      BY <1>1, <1>10, <2>1, <3>2, UsersReadFrame, Kinds
    <3> QED
      BY <3>1, <3>2
  <2>4. SitesRead'
    <3>1. CASE f = "sites"
      BY <1>3, <2>2, <3>1, Kinds DEF SitesRead
    <3>2. CASE f # "sites"
      BY <1>1, <1>10, <2>1, <3>2, SitesReadFrame, Kinds
    <3> QED
      BY <3>1, <3>2
  <2> QED
    BY <2>3, <2>4
<1> QED
  BY <1>12, <1>13, <1>15, <1>16, <1>17 DEF CleanInv, ReaderInv

LEMMA CleanSetPass ==
  ASSUME TypeInv, CleanInv, NEW u \in User, SetPass(u), odd = {}, odd' = {}
  PROVE  CleanInv'
<1>1. /\ Runs /\ Oddity("users") /\ Save("users", where, UserLines(users'))
      /\ UNCHANGED <<pc, args, home, starts, where, saveAll, sites, reader, wanted>>
  BY DEF SetPass, Asks, started
<1>2. PICK i \in DOMAIN users, new \in {"old", "new"} :
        /\ users[i][1] = u /\ users' \in Seq(Login) /\ DOMAIN users' = DOMAIN users
        /\ users'[i] = <<u, new>> /\ \A j \in DOMAIN users : j # i => users'[j] = users[j]
        /\ passes' = [passes EXCEPT ![u] = new]
  BY PasswordSet
<1>3. GoodUsers(users)
  <2>1. ~ Reading("users")
    BY <1>1 DEF Oddity
  <2>2. UsersRead
    BY <1>1, CleanIs DEF ReaderInv
  <2> QED
    BY <2>1, <2>2 DEF UsersRead
<1>4. /\ \A j, k \in DOMAIN users : users[j][1] = users[k][1] => j = k
      /\ \A j \in DOMAIN users : \E v \in DOMAIN passes : users[j] = <<v, passes[v]>>
      /\ \A v \in DOMAIN passes : \E j \in DOMAIN users : users[j] = <<v, passes[v]>>
  <2>1. \A j, k \in DOMAIN users : users[j][1] = users[k][1] => j = k
    BY <1>3 DEF GoodUsers, Unlike
  <2>2. {users[j] : j \in DOMAIN users} = {<<v, passes[v]>> : v \in DOMAIN passes}
    BY <1>3 DEF GoodUsers, Passes, Book
  <2>3. \A j \in DOMAIN users : \E v \in DOMAIN passes : users[j] = <<v, passes[v]>>
    BY <2>2
  <2>4. \A v \in DOMAIN passes : \E j \in DOMAIN users : users[j] = <<v, passes[v]>>
    BY <2>2
  <2> QED
    BY <2>1, <2>3, <2>4
<1>5. u \in DOMAIN passes
  <2>1. PICK v \in DOMAIN passes : users[i] = <<v, passes[v]>>
    BY <1>4
  <2> QED
    BY <1>2, <2>1
<1>6. /\ DOMAIN passes' = DOMAIN passes /\ passes'[u] = new
      /\ \A v \in DOMAIN passes : v # u => passes'[v] = passes[v]
  BY <1>2, <1>5 DEF TypeInv, ToldType
<1>7. Unlike(users')
  <2>1. \A j \in DOMAIN users : users'[j][1] = users[j][1]
    BY <1>2
  <2> QED
    BY <1>2, <1>4, <2>1 DEF Unlike
<1>8. \A j \in DOMAIN users' : \E v \in DOMAIN passes' : users'[j] = <<v, passes'[v]>>
  <2> SUFFICES ASSUME NEW j \in DOMAIN users
               PROVE  \E v \in DOMAIN passes' : users'[j] = <<v, passes'[v]>>
    BY <1>2
  <2>1. CASE j = i
    BY <1>2, <1>5, <1>6, <2>1
  <2>2. CASE j # i
    <3>1. PICK v \in DOMAIN passes : users[j] = <<v, passes[v]>>
      BY <1>4
    <3>2. v # u
      BY <1>2, <1>4, <2>2, <3>1
    <3> QED
      BY <1>2, <1>6, <2>2, <3>1, <3>2
  <2> QED
    BY <2>1, <2>2
<1>9. \A v \in DOMAIN passes' : \E j \in DOMAIN users' : users'[j] = <<v, passes'[v]>>
  <2> SUFFICES ASSUME NEW v \in DOMAIN passes
               PROVE  \E j \in DOMAIN users' : users'[j] = <<v, passes'[v]>>
    BY <1>6
  <2>1. CASE v = u
    BY <1>2, <1>6, <2>1
  <2>2. CASE v # u
    <3>1. PICK j \in DOMAIN users : users[j] = <<v, passes[v]>>
      BY <1>4
    <3>2. j # i
      BY <1>2, <2>2, <3>1
    <3> QED
      BY <1>2, <1>6, <2>2, <3>1, <3>2
  <2> QED
    BY <2>1, <2>2
<1>10. Passes(users') = {<<v, passes'[v]>> : v \in DOMAIN passes'}
  BY <1>8, <1>9 DEF Passes
<1>11. GoodUsers(users)'
  BY <1>7, <1>10 DEF GoodUsers, Unlike, Passes, Book
<1>12. UserLines(users') \in Seq(Line("users")) /\ UserLines(users') = LinesOf("users")'
  BY <1>2, UserLinesType DEF LinesOf
<1> QED
  BY <1>1, <1>11, <1>12, CleanSaved, Kinds

LEMMA NamedTags ==
  ASSUME NEW t, NEW W, \A x \in W : \E j \in DOMAIN t : t[j].named /\ t[j].tag = x,
         \A j \in DOMAIN t : t[j].named => t[j].tag \in W
  PROVE  {t[i].tag : i \in {j \in DOMAIN t : t[j].named}} = W
OBVIOUS

\* The sites, before one of them is changed.
LEMMA SitesBefore ==
  ASSUME TypeInv, CleanInv, odd = {}, odd' = {}, Runs, Oddity("sites")
  PROVE  /\ \A i, j \in DOMAIN sites : sites[i].tag = sites[j].tag => i = j
         /\ \A x \in wanted : \E j \in DOMAIN sites : sites[j].named /\ sites[j].tag = x
         /\ \A j \in DOMAIN sites : sites[j].named => sites[j].tag \in wanted
<1>1. ~ Reading("sites")
  BY DEF Oddity
<1>2. SitesRead
  BY CleanIs DEF ReaderInv
<1>3. Untwined(sites) /\ {sites[i].tag : i \in {j \in DOMAIN sites : sites[j].named}} = wanted
  BY <1>1, <1>2 DEF SitesRead, GoodSites
<1> QED
  BY <1>3 DEF Untwined

LEMMA CleanSites ==
  ASSUME TypeInv, CleanInv, odd = {}, odd' = {}, Runs, sites' \in Seq(Held),
         \A i, j \in DOMAIN sites' : sites'[i].tag = sites'[j].tag => i = j,
         \A x \in wanted' : \E j \in DOMAIN sites' : sites'[j].named /\ sites'[j].tag = x,
         \A j \in DOMAIN sites' : sites'[j].named => sites'[j].tag \in wanted',
         Oddity("sites"), Save("sites", where, SiteLines(sites')),
         UNCHANGED <<pc, args, home, starts, where, saveAll, users, reader, passes>>
  PROVE  CleanInv'
<1>1. {sites'[i].tag : i \in {j \in DOMAIN sites' : sites'[j].named}} = wanted'
  BY NamedTags
<1>2. GoodSites(sites)'
  BY <1>1 DEF GoodSites, Untwined
<1>3. SiteLines(sites') \in Seq(Line("sites")) /\ SiteLines(sites') = LinesOf("sites")'
  BY SiteLinesType DEF LinesOf
<1> QED
  BY <1>2, <1>3, CleanSaved, Kinds

LEMMA CleanSiteAdd ==
  ASSUME TypeInv, CleanInv, NEW given \in Given, SiteAdd(given), odd = {}, odd' = {}
  PROVE  CleanInv'
<1>1. /\ Runs /\ Oddity("sites") /\ Save("sites", where, SiteLines(sites'))
      /\ UNCHANGED <<pc, args, home, starts, where, saveAll, users, reader, passes>>
  BY DEF SiteAdd, Asks, started
<1>2. sites' \in Seq(Held) /\ sites \in Seq(Held)
  BY SiteAdded, CleanIs
<1>3. PICK t \in Fresh : (\E e \in Held : e.tag = t /\ e.named /\ sites' = <<e>> \o sites)
                         /\ wanted' = wanted \cup {t}
  BY SiteAdded
<1>4. PICK e \in Held : e.tag = t /\ e.named /\ sites' = <<e>> \o sites
  BY <1>3
<1>5. \A i \in DOMAIN sites : sites[i].tag # t
  BY DEF Fresh
<1>6. /\ Len(sites) \in Nat /\ DOMAIN sites = 1 .. Len(sites) /\ DOMAIN sites' = 1 .. Len(sites) + 1
      /\ sites'[1] = e /\ \A i \in 2 .. Len(sites) + 1 : sites'[i] = sites[i - 1]
      /\ \A i \in 1 .. Len(sites) : sites'[i + 1] = sites[i]
  BY <1>2, <1>4, PrependIs
<1>7. \A i \in DOMAIN sites' : i = 1 \/ (i \in 2 .. Len(sites) + 1 /\ i - 1 \in DOMAIN sites)
  BY <1>6
<1>8. \A i \in DOMAIN sites : i + 1 \in DOMAIN sites'
  BY <1>6
<1>9. /\ \A i, j \in DOMAIN sites : sites[i].tag = sites[j].tag => i = j
      /\ \A x \in wanted : \E j \in DOMAIN sites : sites[j].named /\ sites[j].tag = x
      /\ \A j \in DOMAIN sites : sites[j].named => sites[j].tag \in wanted
  BY <1>1, SitesBefore
<1>10. \A i, j \in DOMAIN sites' : sites'[i].tag = sites'[j].tag => i = j
  <2> SUFFICES ASSUME NEW i \in DOMAIN sites', NEW j \in DOMAIN sites', sites'[i].tag = sites'[j].tag
               PROVE  i = j
    OBVIOUS
  <2>1. CASE i = 1
    <3>1. j = 1
      BY <1>4, <1>5, <1>6, <1>7, <2>1
    <3> QED
      BY <2>1, <3>1
  <2>2. CASE j = 1
    <3>1. i = 1
      BY <1>4, <1>5, <1>6, <1>7, <2>2
    <3> QED
      BY <2>2, <3>1
  <2>3. CASE i # 1 /\ j # 1
    <3>1. /\ i \in 2 .. Len(sites) + 1 /\ i - 1 \in DOMAIN sites
          /\ j \in 2 .. Len(sites) + 1 /\ j - 1 \in DOMAIN sites
      BY <1>7, <2>3
    <3>2. i - 1 = j - 1
      BY <1>6, <1>9, <3>1
    <3> QED
      BY <1>6, <3>1, <3>2
  <2> QED
    BY <2>1, <2>2, <2>3
<1>11. \A x \in wanted' : \E j \in DOMAIN sites' : sites'[j].named /\ sites'[j].tag = x
  <2> TAKE x \in wanted'
  <2>1. CASE x = t
    <3>1. 1 \in DOMAIN sites'
      BY <1>6
    <3> QED
      BY <1>4, <1>6, <2>1, <3>1
  <2>2. CASE x \in wanted
    <3>1. PICK j \in DOMAIN sites : sites[j].named /\ sites[j].tag = x
      BY <1>9, <2>2
    <3>2. j + 1 \in DOMAIN sites' /\ sites'[j + 1] = sites[j]
      BY <1>6, <1>8
    <3> QED
      BY <3>1, <3>2
  <2> QED
    BY <1>3, <2>1, <2>2
<1>12. \A j \in DOMAIN sites' : sites'[j].named => sites'[j].tag \in wanted'
  <2> TAKE j \in DOMAIN sites'
  <2>1. CASE j = 1
    BY <1>3, <1>4, <1>6, <2>1
  <2>2. CASE j \in 2 .. Len(sites) + 1 /\ j - 1 \in DOMAIN sites
    BY <1>3, <1>6, <1>9, <2>2
  <2> QED
    BY <1>7, <2>1, <2>2
<1> QED
  BY <1>1, <1>2, <1>10, <1>11, <1>12, CleanSites

LEMMA CleanSiteMod ==
  ASSUME TypeInv, CleanInv, NEW given \in Given, NEW i \in DOMAIN sites, NEW name \in BOOLEAN,
         SiteMod(i, given, name), odd = {}, odd' = {}
  PROVE  CleanInv'
<1>1. /\ Runs /\ Oddity("sites") /\ Save("sites", where, SiteLines(sites'))
      /\ UNCHANGED <<pc, args, home, starts, where, saveAll, users, reader, passes>>
  BY DEF SiteMod, Asks, started
<1>2. /\ sites' \in Seq(Held) /\ DOMAIN sites' = DOMAIN sites
      /\ sites'[i].tag = sites[i].tag /\ (sites'[i].named <=> sites[i].named \/ name)
      /\ \A j \in DOMAIN sites : j # i => sites'[j] = sites[j]
      /\ wanted' = IF sites'[i].named THEN wanted \cup {sites[i].tag} ELSE wanted
  BY SiteModified
<1>3. /\ \A k, j \in DOMAIN sites : sites[k].tag = sites[j].tag => k = j
      /\ \A x \in wanted : \E j \in DOMAIN sites : sites[j].named /\ sites[j].tag = x
      /\ \A j \in DOMAIN sites : sites[j].named => sites[j].tag \in wanted
  BY <1>1, SitesBefore
<1>4. \A j \in DOMAIN sites : sites'[j].tag = sites[j].tag /\ (sites[j].named => sites'[j].named)
  BY <1>2
<1>5. \A k, j \in DOMAIN sites' : sites'[k].tag = sites'[j].tag => k = j
  BY <1>2, <1>3, <1>4
<1>6. \A x \in wanted' : \E j \in DOMAIN sites' : sites'[j].named /\ sites'[j].tag = x
  BY <1>2, <1>3, <1>4
<1>7. \A j \in DOMAIN sites' : sites'[j].named => sites'[j].tag \in wanted'
  BY <1>2, <1>3
<1> QED
  BY <1>1, <1>2, <1>5, <1>6, <1>7, CleanSites

LEMMA CleanSiteDel ==
  ASSUME TypeInv, CleanInv, NEW i \in DOMAIN sites, SiteDel(i), odd = {}, odd' = {}
  PROVE  CleanInv'
<1>1. /\ Runs /\ Oddity("sites") /\ Save("sites", where, SiteLines(sites'))
      /\ UNCHANGED <<pc, args, home, starts, where, saveAll, users, reader, passes>>
  BY DEF SiteDel, Asks, started
<1>2. /\ sites' \in Seq(Held) /\ DOMAIN sites' = DOMAIN sites
      /\ sites'[i].tag = sites[i].tag /\ ~ sites'[i].named
      /\ \A j \in DOMAIN sites : j # i => sites'[j] = sites[j]
      /\ wanted' = wanted \ {sites[i].tag}
  BY SiteDeleted
<1>3. /\ \A k, j \in DOMAIN sites : sites[k].tag = sites[j].tag => k = j
      /\ \A x \in wanted : \E j \in DOMAIN sites : sites[j].named /\ sites[j].tag = x
      /\ \A j \in DOMAIN sites : sites[j].named => sites[j].tag \in wanted
  BY <1>1, SitesBefore
<1>4. \A j \in DOMAIN sites : sites'[j].tag = sites[j].tag
  BY <1>2
<1>5. \A k, j \in DOMAIN sites' : sites'[k].tag = sites'[j].tag => k = j
  BY <1>2, <1>3, <1>4
<1>6. \A x \in wanted' : \E j \in DOMAIN sites' : sites'[j].named /\ sites'[j].tag = x
  <2> TAKE x \in wanted'
  <2>1. x \in wanted /\ x # sites[i].tag
    BY <1>2
  <2>2. PICK j \in DOMAIN sites : sites[j].named /\ sites[j].tag = x
    BY <1>3, <2>1
  <2>3. j # i
    BY <2>1, <2>2
  <2> QED
    BY <1>2, <2>2, <2>3
<1>7. \A j \in DOMAIN sites' : sites'[j].named => sites'[j].tag \in wanted'
  <2> TAKE j \in DOMAIN sites'
  <2>1. CASE j = i
    BY <1>2, <2>1
  <2>2. CASE j # i
    BY <1>2, <1>3, <2>2
  <2> QED
    BY <2>1, <2>2
<1> QED
  BY <1>1, <1>2, <1>5, <1>6, <1>7, CleanSites

LEMMA CleanStep ==
  ASSUME TypeInv, CleanInv, [Next]_vars
  PROVE  CleanInv'
<1> SUFFICES ASSUME odd' = {}
             PROVE  CleanInv'
  BY DEF CleanInv
<1>1. odd = {}
  <2>1. CASE Next
    <3>1. odd \subseteq odd'
      BY <2>1, OddGrows
    <3> QED
      BY <3>1
  <2>2. CASE UNCHANGED vars
    BY <2>2 DEF vars
  <2> QED
    BY <2>1, <2>2
<1>2. CASE Engine
  BY <1>1, <1>2, CleanStart, CleanSettingsRead, CleanSaveAll, CleanStop DEF Engine
<1>3. CASE Files
  <2>1. ASSUME NEW f \in Table, ReadLine(f) \/ ReadEnd(f)
        PROVE  CleanInv'
    BY <1>1, <2>1, CleanReadLine, CleanReadEnd
  <2>2. ASSUME NEW i \in DOMAIN writers, WriteLine(i) \/ WriteEnd(i)
        PROVE  CleanInv'
    BY <1>1, <2>2, CleanWriteLine, CleanWriteEnd
  <2> QED
    BY <1>3, <2>1, <2>2 DEF Files
<1>4. CASE Api
  <2>1. ASSUME NEW u \in User, SetPass(u)
        PROVE  CleanInv'
    BY <1>1, <2>1, CleanSetPass
  <2>2. ASSUME NEW given \in Given, SiteAdd(given)
        PROVE  CleanInv'
    BY <1>1, <2>2, CleanSiteAdd
  <2>3. ASSUME NEW given \in Given, NEW i \in DOMAIN sites, NEW name \in BOOLEAN,
               SiteMod(i, given, name)
        PROVE  CleanInv'
    BY <1>1, <2>3, CleanSiteMod
  <2>4. ASSUME NEW i \in DOMAIN sites, SiteDel(i)
        PROVE  CleanInv'
    BY <1>1, <2>4, CleanSiteDel
  <2> QED
    BY <1>4, <2>1, <2>2, <2>3, <2>4 DEF Api
<1>5. CASE UNCHANGED vars
  BY <1>5 DEF vars, CleanInv, ModeInv, OpenInv, FileInv, WriterInv, ReaderInv, Runs, Data, Base,
    Reading, Busy, UsersKept, SitesKept, GoodUserLines, GoodUsers, Book, GoodSiteLines, LinesOf,
    UsersRead, SitesRead, GoodSites
<1> QED
  BY <1>2, <1>3, <1>4, <1>5 DEF Next

LEMMA CleanHolds == Spec => [](TypeInv /\ CleanInv)
<1>1. Init => TypeInv /\ CleanInv
  BY TypeInit, CleanInit
<1>2. TypeInv /\ CleanInv /\ [Next]_vars => (TypeInv /\ CleanInv)'
  BY TypeStep, CleanStep
<1> QED
  BY <1>1, <1>2, PTL DEF Spec

LEMMA CleanForgetsNothing ==
  ASSUME TypeInv, CleanInv
  PROVE  NothingForgotten
<1>1. TypeOK
  BY TypeMeans
<1> SUFFICES ASSUME pc = "up", odd = {}
             PROVE  /\ ~ Reading("sites") => Tags(SiteLines(sites)) = wanted
                    /\ ~ Reading("users") => Passes(users) = {<<u, passes[u]>> : u \in DOMAIN passes}
  BY <1>1 DEF NothingForgotten
<1>2. UsersRead /\ SitesRead /\ sites \in Seq(Held)
  BY CleanIs DEF ReaderInv, Runs
<1>3. ~ Reading("sites") => Tags(SiteLines(sites)) = wanted
  BY <1>2, SiteLinesAre DEF SitesRead, GoodSites
<1>4. ~ Reading("users") => Passes(users) = {<<u, passes[u]>> : u \in DOMAIN passes}
  BY <1>2 DEF UsersRead, GoodUsers, Book
<1> QED
  BY <1>3, <1>4

LEMMA CleanDiskAgrees ==
  ASSUME TypeInv, CleanInv
  PROVE  DiskAgrees
<1> SUFFICES ASSUME pc = "up", odd = {}, writers = <<>>
             PROVE  /\ (wanted # {} => disk[where]["sites"].there)
                    /\ (disk[where]["sites"].there =>
                          /\ Tags(disk[where]["sites"].lines) = wanted
                          /\ Len(disk[where]["sites"].lines) = Cardinality(wanted))
                    /\ Passes(disk[where]["users"].lines)
                         = {<<u, passes[u]>> : u \in DOMAIN passes} \cup {Mute}
  BY DEF DiskAgrees
<1>1. FileInv /\ where = Data /\ where \in Dir
      /\ \A d \in Dir, f \in Table : disk[d][f].lines \in Seq(Line(f))
  BY CleanIs
<1>2. \A f : ~ Busy(f)
  BY DEF Busy
<1>3. UsersKept /\ SitesKept /\ disk[where]["users"].there
  BY <1>1, <1>2 DEF FileInv, Runs
<1>4. wanted # {} => disk[where]["sites"].there
  BY <1>1, <1>3 DEF SitesKept
<1>5. disk[where]["sites"].there => GoodSiteLines(disk[where]["sites"].lines)
  BY <1>1, <1>3 DEF SitesKept
<1>6. disk[where]["sites"].there =>
        /\ Tags(disk[where]["sites"].lines) = wanted
        /\ Len(disk[where]["sites"].lines) = Cardinality(wanted)
  BY <1>5, TagsCount DEF GoodSiteLines
<1>7. GoodUserLines(disk[where]["users"].lines) /\ disk[where]["users"].lines \in Seq(Line("users"))
  BY <1>1, <1>3, Kinds DEF UsersKept
<1>8. Passes(disk[where]["users"].lines) = Book \cup {Mute}
  BY <1>7, PassesWritten
<1> QED
  BY <1>4, <1>6, <1>8 DEF Book

\* users_init, sites_init and their handlers (engine/users.c:55-170, engine/sites.c:67-162):
\* when a table has been read it holds every site that was added and not deleted and every user with the
\* last password, whatever was saved, stopped, started or moved to the home before, as
\* long as no save was early or overlapped and no stop tore a file.
THEOREM TablesRemember == Spec => []NothingForgotten
<1>1. TypeInv /\ CleanInv => NothingForgotten
  BY CleanForgetsNothing
<1> QED
  BY <1>1, CleanHolds, PTL

\* users_save (engine/users.c:175-228) and sites_save (engine/sites.c:167-203): once
\* nothing is left to be written the files hold the same, each site on one line only.
THEOREM FilesRemember == Spec => []DiskAgrees
<1>1. TypeInv /\ CleanInv => DiskAgrees
  BY CleanDiskAgrees
<1> QED
  BY <1>1, CleanHolds, PTL

-----------------------------------------------------------------------------
(* Users that are lost are told of. *)

LEMMA BookNames ==
  ASSUME NEW t, Passes(t) = Book
  PROVE  Names(t) = DOMAIN passes
<1>1. {t[i] : i \in DOMAIN t} = {<<u, passes[u]>> : u \in DOMAIN passes}
  BY DEF Passes, Book
<1>2. \A i \in DOMAIN t : t[i][1] \in DOMAIN passes
  <2> TAKE i \in DOMAIN t
  <2>1. PICK u \in DOMAIN passes : t[i] = <<u, passes[u]>>
    BY <1>1
  <2> QED
    BY <2>1
<1>3. \A u \in DOMAIN passes : \E i \in DOMAIN t : t[i][1] = u
  <2> TAKE u \in DOMAIN passes
  <2>1. PICK i \in DOMAIN t : t[i] = <<u, passes[u]>>
    BY <1>1
  <2> QED
    BY <2>1
<1> QED
  BY <1>2, <1>3 DEF Names

LEMMA TornKept ==
  ASSUME NEW ls \in Seq(Line("users")), GoodUserLines(ls)
  PROVE  Torn(ls, DOMAIN passes)
<1> DEFINE b == Before(ls)
<1>1. /\ Len(ls) \in Nat \ {0} /\ DOMAIN ls = 1 .. Len(ls) /\ ls[Len(ls)] = Mute
      /\ b \in Seq(Login) /\ Passes(b) = Book
  BY DEF GoodUserLines, GoodUsers
<1>2. DOMAIN b = 1 .. Len(ls) - 1 /\ \A j \in 1 .. Len(ls) - 1 : b[j] = ls[j]
  BY DEF Before
<1>3. Names(b) = DOMAIN passes
  BY <1>1, BookNames
<1> HIDE DEF b
<1>4. Len(b) = Len(ls) - 1 /\ DOMAIN b = 1 .. Len(b) /\ Len(b) \in Nat
  <2>1. Len(b) \in Nat /\ DOMAIN b = 1 .. Len(b)
    BY <1>1
  <2>2. 1 .. Len(b) = 1 .. Len(ls) - 1
    BY <1>2, <2>1
  <2>3. Len(b) = Len(ls) - 1
    <3>1. Len(ls) - 1 \in Nat
      BY <1>1
    <3> QED
      BY <2>1, <2>2, <3>1
  <2> QED
    BY <2>1, <2>3
<1>5. \A j \in DOMAIN ls : ls[j] = UserLines(b)[j]
  <2> TAKE j \in DOMAIN ls
  <2>1. /\ \A i \in DOMAIN b : UserLines(b)[i] = b[i]
        /\ UserLines(b)[Len(b) + 1] = Mute
    BY <1>1, UserLinesAre
  <2>2. CASE j = Len(ls)
    <3>1. j = Len(b) + 1
      BY <1>1, <1>4, <2>2
    <3> QED
      BY <1>1, <2>1, <2>2, <3>1
  <2>3. CASE j # Len(ls)
    <3>1. j \in 1 .. Len(ls) - 1
      BY <1>1, <2>3
    <3> QED
      BY <1>2, <2>1, <3>1
  <2> QED
    BY <2>2, <2>3
<1>6. Len(ls) <= Len(b) + 1
  BY <1>1, <1>4
<1> QED
  BY <1>1, <1>3, <1>5, <1>6 DEF Torn

LEMMA TornWritten ==
  ASSUME NEW on, NEW w, NEW t \in Seq(Login), Written(on, w, UserLines(t)), GoodUsers(t),
         on.lines \in Seq(Line("users")), w.lines \in Seq(Line("users"))
  PROVE  Torn(on.lines, DOMAIN passes)
<1>1. Len(on.lines) + Len(w.lines) = Len(UserLines(t)) /\ \A j \in DOMAIN on.lines : on.lines[j] = UserLines(t)[j]
  BY DEF Written
<1>2. Len(on.lines) \in Nat /\ Len(w.lines) \in Nat
  OBVIOUS
<1>3. Len(UserLines(t)) = Len(t) + 1 /\ Len(t) \in Nat
  BY UserLinesAre
<1>4. Len(on.lines) <= Len(t) + 1
  <2>1. Len(on.lines) + Len(w.lines) = Len(t) + 1
    BY <1>1, <1>3
  <2>2. \A a, b, c \in Nat : a + b = c + 1 => a <= c + 1
    OBVIOUS
  <2> QED
    BY <1>2, <1>3, <2>1, <2>2, Zenon
<1>5. Names(t) = DOMAIN passes
  BY BookNames DEF GoodUsers
<1> QED
  BY <1>1, <1>4, <1>5 DEF Torn

\* The names in a torn file are those of users; the mark is only behind all of them.
LEMMA TornLines ==
  ASSUME NEW us, NEW ls \in Seq(Line("users")), Torn(ls, us)
  PROVE  \E t \in Seq(Login) :
           /\ Names(t) = us /\ Len(t) \in Nat /\ Len(ls) \in Nat /\ Len(ls) <= Len(t) + 1
           /\ DOMAIN t = 1 .. Len(t) /\ DOMAIN ls = 1 .. Len(ls)
           /\ \A j \in 1 .. Len(ls) : IF j = Len(t) + 1 THEN ls[j] = Mute
                                      ELSE j \in 1 .. Len(t) /\ ls[j] = t[j] /\ ls[j] \in Login
<1>1. PICK t \in Seq(Login) :
        /\ Names(t) = us /\ Len(ls) <= Len(t) + 1 /\ \A j \in DOMAIN ls : ls[j] = UserLines(t)[j]
  BY DEF Torn
<1>2. /\ Len(t) \in Nat /\ Len(ls) \in Nat /\ DOMAIN t = 1 .. Len(t) /\ DOMAIN ls = 1 .. Len(ls)
      /\ \A i \in 1 .. Len(t) : t[i] \in Login
  OBVIOUS
<1>3. (\A i \in DOMAIN t : UserLines(t)[i] = t[i]) /\ UserLines(t)[Len(t) + 1] = Mute
  BY UserLinesAre
<1>4. \A j \in 1 .. Len(ls) : IF j = Len(t) + 1 THEN ls[j] = Mute
                              ELSE j \in 1 .. Len(t) /\ ls[j] = t[j] /\ ls[j] \in Login
  <2> TAKE j \in 1 .. Len(ls)
  <2>1. j = Len(t) + 1 \/ j \in 1 .. Len(t)
    BY <1>1, <1>2
  <2> QED
    BY <1>1, <1>2, <1>3, <2>1
<1> QED
  BY <1>1, <1>2, <1>4

LEMMA MuteIs == Mute \notin Login /\ Hole["users"] \notin Login /\ Hole["users"] # Mute
BY DEF Mute, Login, Hole, Blank

LEMMA PrependNames ==
  ASSUME NEW t \in Seq(Login), NEW e \in Login
  PROVE  Names(<<e>> \o t) = Names(t) \cup {e[1]}
<1> DEFINE s == <<e>> \o t
<1>1. /\ DOMAIN s = 1 .. Len(t) + 1 /\ s[1] = e /\ Len(t) \in Nat /\ DOMAIN t = 1 .. Len(t)
      /\ \A i \in 2 .. Len(t) + 1 : s[i] = t[i - 1]
      /\ \A i \in 1 .. Len(t) : s[i + 1] = t[i]
  BY PrependIs
<1> HIDE DEF s
<1>2. \A i \in DOMAIN s : s[i][1] \in Names(t) \cup {e[1]}
  <2> TAKE i \in DOMAIN s
  <2>1. CASE i = 1
    BY <1>1, <2>1
  <2>2. CASE i # 1
    <3>1. i \in 2 .. Len(t) + 1 /\ i - 1 \in DOMAIN t
      BY <1>1, <2>2
    <3> QED
      BY <1>1, <3>1 DEF Names
  <2> QED
    BY <2>1, <2>2
<1>3. \A i \in DOMAIN t : i + 1 \in DOMAIN s /\ s[i + 1] = t[i]
  BY <1>1
<1>4. 1 \in DOMAIN s
  BY <1>1
<1>5. \A x \in Names(t) \cup {e[1]} : \E i \in DOMAIN s : s[i][1] = x
  <2> TAKE x \in Names(t) \cup {e[1]}
  <2>1. CASE x = e[1]
    BY <1>1, <1>4, <2>1
  <2>2. CASE x \in Names(t)
    <3>1. PICK i \in DOMAIN t : t[i][1] = x
      BY <2>2 DEF Names
    <3> QED
      BY <1>3, <3>1
  <2> QED
    BY <2>1, <2>2
<1> QED
  BY <1>2, <1>5 DEF Names, s

LEMMA MoreNames ==
  ASSUME NEW us, NEW ls \in Seq(Line("users")), Torn(ls, us), NEW at \in 1 .. Len(ls),
         NEW t \in Seq(Login), NEW m \in BOOLEAN, HalfRead(t, ls, at, m), NEW t2, NEW m2,
         \/ ls[at] = Hole["users"] /\ t2 = t /\ m2 = m
         \/ ls[at] = Mute /\ t2 = t /\ m2 = TRUE
         \/ ls[at] \in Login /\ t2 = <<ls[at]>> \o t /\ m2 = m
  PROVE  HalfRead(t2, ls, at + 1, m2)
<1>1. ls[at] \in Login \cup {Mute} /\ Len(ls) \in Nat
  <2>1. PICK all \in Seq(Login) :
           /\ Len(ls) \in Nat
           /\ \A j \in 1 .. Len(ls) : IF j = Len(all) + 1 THEN ls[j] = Mute
                                      ELSE j \in 1 .. Len(all) /\ ls[j] = all[j] /\ ls[j] \in Login
    BY TornLines
  <2> QED
    BY <2>1
<1>2. at \in Nat /\ 1 <= at /\ at <= Len(ls) /\ (at + 1) - 1 = at
  BY <1>1
<1>3. 1 .. (at + 1) - 1 = (1 .. at - 1) \cup {at}
  BY <1>2
<1>4. at + 1 <= Len(ls) + 1
  BY <1>1, <1>2
<1>5. /\ Names(t) = {ls[j][1] : j \in {k \in 1 .. at - 1 : ls[k] # Mute}}
      /\ m <=> \E k \in 1 .. at - 1 : ls[k] = Mute
  BY DEF HalfRead
<1>6. CASE ls[at] = Mute
  <2>1. t2 = t /\ m2 = TRUE
    BY <1>6, MuteIs
  <2>2. {k \in 1 .. (at + 1) - 1 : ls[k] # Mute} = {k \in 1 .. at - 1 : ls[k] # Mute}
    BY <1>3, <1>6
  <2>3. \E k \in 1 .. (at + 1) - 1 : ls[k] = Mute
    BY <1>3, <1>6
  <2> QED
    BY <1>4, <1>5, <2>1, <2>2, <2>3 DEF HalfRead
<1>7. CASE ls[at] \in Login
  <2>1. t2 = <<ls[at]>> \o t /\ m2 = m /\ ls[at] # Mute
    BY <1>7, MuteIs
  <2>2. {k \in 1 .. (at + 1) - 1 : ls[k] # Mute} = {k \in 1 .. at - 1 : ls[k] # Mute} \cup {at}
    BY <1>3, <2>1
  <2>3. m <=> \E k \in 1 .. (at + 1) - 1 : ls[k] = Mute
    BY <1>3, <1>5, <2>1
  <2>4. Names(t2) = Names(t) \cup {ls[at][1]}
    BY <1>7, <2>1, PrependNames
  <2> DEFINE K == {k \in 1 .. at - 1 : ls[k] # Mute}
  <2>5. Names(t2) = {ls[j][1] : j \in K \cup {at}}
    <3>1. Names(t) = {ls[j][1] : j \in K}
      BY <1>5
    <3> HIDE DEF K
    <3> QED
      BY <2>4, <3>1
  <2> QED
    BY <1>4, <2>1, <2>2, <2>3, <2>5 DEF HalfRead
<1> QED
  BY <1>1, <1>6, <1>7

\* When the mark is found, all are there.
LEMMA WholeRead ==
  ASSUME NEW us, NEW ls \in Seq(Line("users")), Torn(ls, us), NEW at \in Nat, at > Len(ls),
         NEW t \in Seq(Login), HalfRead(t, ls, at, TRUE)
  PROVE  us \subseteq Names(t)
<1>1. PICK all \in Seq(Login) :
           /\ Names(all) = us /\ Len(all) \in Nat /\ Len(ls) \in Nat /\ Len(ls) <= Len(all) + 1
           /\ DOMAIN all = 1 .. Len(all) /\ DOMAIN ls = 1 .. Len(ls)
           /\ \A j \in 1 .. Len(ls) : IF j = Len(all) + 1 THEN ls[j] = Mute
                                      ELSE j \in 1 .. Len(all) /\ ls[j] = all[j] /\ ls[j] \in Login
  BY TornLines
<1>2. at - 1 = Len(ls)
  <2>1. at <= Len(ls) + 1
    BY DEF HalfRead
  <2> QED
    BY <1>1, <2>1
<1>3. /\ Names(t) = {ls[j][1] : j \in {k \in 1 .. Len(ls) : ls[k] # Mute}}
      /\ \E k \in 1 .. Len(ls) : ls[k] = Mute
  BY <1>2 DEF HalfRead
<1>4. PICK k \in 1 .. Len(ls) : ls[k] = Mute
  BY <1>3
<1>5. k = Len(all) + 1
  BY <1>1, <1>4, MuteIs
<1>6. Len(ls) = Len(all) + 1
  <2>1. Len(all) \in Nat /\ Len(ls) \in Nat /\ Len(ls) <= Len(all) + 1
    BY <1>1
  <2>2. Len(all) + 1 <= Len(ls)
    BY <1>5, <2>1
  <2> QED
    BY <2>1, <2>2
<1>7. \A i \in 1 .. Len(all) : i \in 1 .. Len(ls) /\ ls[i] = all[i] /\ ls[i] # Mute
  <2> TAKE i \in 1 .. Len(all)
  <2>1. i \in 1 .. Len(ls) /\ i # Len(all) + 1
    BY <1>1, <1>6
  <2>2. ls[i] = all[i] /\ ls[i] \in Login
    BY <1>1, <2>1
  <2> QED
    BY <2>1, <2>2, MuteIs
<1>8. \A x \in us : \E i \in 1 .. Len(all) : all[i][1] = x
  BY <1>1 DEF Names
<1> QED
  <2> SUFFICES ASSUME NEW x \in us
               PROVE  x \in Names(t)
    OBVIOUS
  <2>1. PICK i \in 1 .. Len(all) : all[i][1] = x
    BY <1>8
  <2>2. i \in {j \in 1 .. Len(ls) : ls[j] # Mute} /\ ls[i][1] = x
    BY <1>7, <2>1
  <2> QED
    BY <1>3, <2>2

\* Where the engine was started elsewhere, while it runs.
LEMMA MovedRuns ==
  ASSUME MovedInv, Runs, UNCHANGED <<pc, args, home, starts, where, saveAll>>,
         DOMAIN passes' = DOMAIN passes,
         starts = 1 => ~ disk'["cwd"]["users"].there /\ \A i \in DOMAIN writers' : writers'[i].dir = "home",
         starts = 2 => ~ Reading("users")' /\ AllHere'
  PROVE  MovedInv'
<1>1. Runs'
  BY DEF Runs
<1>2. pc' # "settings"
  BY <1>1 DEF Runs
<1> QED
  BY <1>1, <1>2 DEF MovedInv

LEMMA TornRuns ==
  ASSUME TornInv, Runs, UNCHANGED <<pc, args, home, starts, where, saveAll>>, TornRead'
  PROVE  TornInv'
<1>1. Runs' /\ pc' \notin {"settings", "down"} /\ starts' # 1
  BY DEF Runs, TornInv
<1>2. Base' = Base
  BY DEF Base
<1> QED
  BY <1>1, <1>2 DEF TornInv

LEMMA TornFrame ==
  ASSUME TornRead, UNCHANGED <<where, users, mute>>, DOMAIN passes' = DOMAIN passes,
         reader'["users"] = reader["users"], warned => warned',
         Reading("users") => disk'[where]["users"] = disk[where]["users"] /\ ~ Busy("users")'
  PROVE  TornRead'
<1>1. Reading("users")' <=> Reading("users")
  BY DEF Reading
<1>2. CASE Reading("users")
  BY <1>1, <1>2 DEF TornRead
<1>3. CASE ~ Reading("users")
  BY <1>1, <1>3 DEF TornRead, AllHere
<1> QED
  BY <1>2, <1>3

\* The steps that leave the users as they are.
LEMMA WarnFrame ==
  ASSUME TypeInv, Runs, UNCHANGED <<pc, args, home, starts, where, saveAll, users, mute>>,
         DOMAIN passes' = DOMAIN passes, reader'["users"] = reader["users"], warned => warned',
         TornInv /\ Reading("users") => disk'[where]["users"] = disk[where]["users"] /\ ~ Busy("users")',
         MovedInv /\ starts = 1 =>
           /\ disk'["cwd"]["users"].there = disk["cwd"]["users"].there
           /\ \A i \in DOMAIN writers' : writers'[i].dir = "home"
  PROVE  (MovedInv => MovedInv') /\ (TornInv => TornInv')
<1>1. Reading("users")' <=> Reading("users")
  BY DEF Reading
<1>2. AllHere' <=> AllHere
  BY DEF AllHere
<1>3. ASSUME MovedInv
      PROVE  MovedInv'
  <2>1. starts = 1 => ~ disk'["cwd"]["users"].there /\ \A i \in DOMAIN writers' : writers'[i].dir = "home"
    BY <1>3 DEF MovedInv
  <2>2. starts = 2 => ~ Reading("users")' /\ AllHere'
    BY <1>1, <1>2, <1>3 DEF MovedInv
  <2> QED
    BY <1>3, <2>1, <2>2, MovedRuns
<1>4. ASSUME TornInv
      PROVE  TornInv'
  <2>1. TornRead
    BY <1>4 DEF TornInv
  <2>2. TornRead'
    BY <1>4, <2>1, TornFrame
  <2> QED
    BY <1>4, <2>2, TornRuns
<1> QED
  BY <1>3, <1>4

LEMMA WarnReadLine ==
  ASSUME TypeInv, NEW f \in Table, ReadLine(f)
  PROVE  (MovedInv => MovedInv') /\ (TornInv => TornInv')
<1>1. /\ Runs /\ Reading(f) /\ reader' = [reader EXCEPT ![f].at = @ + 1]
      /\ UNCHANGED <<pc, args, home, starts, where, saveAll, disk, handle, writers, warned, passes>>
  BY DEF ReadLine, started, told
<1>2. Busy("users")' <=> Busy("users")
  BY <1>1 DEF Busy
<1>3. reader \in [Table -> [dir: Dir, at: Nat]]
  BY DEF TypeInv, OpenType
<1>4. /\ reader'[f].at = reader[f].at + 1 /\ reader'[f].dir = reader[f].dir
      /\ \A g \in Table : g # f => reader'[g] = reader[g]
  BY <1>1, <1>3
<1>5. LET lines == disk[reader[f].dir][f].lines
          line == lines[reader[f].at]
      IN  /\ lines \in Seq(Line(f)) /\ reader[f].at \in 1 .. Len(lines)
          /\ \/ line = Hole[f] /\ UNCHANGED <<users, sites, mute>>
             \/ f = "users" /\ line = Mute /\ mute' = TRUE /\ UNCHANGED <<users, sites>>
             \/ f = "users" /\ line \in Login /\ users' = <<line>> \o users /\ UNCHANGED <<mute, sites>>
             \/ /\ f = "sites" /\ line \in SiteLine /\ UNCHANGED <<mute, users>>
                /\ sites' = <<[tag |-> line.tag, named |-> TRUE, extra |-> line.extra]>> \o sites
  BY LineRead
<1>6. CASE f = "sites"
  <2>1. UNCHANGED <<users, mute>> /\ reader'["users"] = reader["users"]
    BY <1>4, <1>5, <1>6, Kinds
  <2>2. TornInv /\ Reading("users") => ~ Busy("users")'
    BY <1>1, <1>2 DEF TornInv, TornRead
  <2>3. MovedInv /\ starts = 1 => \A i \in DOMAIN writers' : writers'[i].dir = "home"
    BY <1>1 DEF MovedInv
  <2> QED
    BY <1>1, <2>1, <2>2, <2>3, WarnFrame
<1>7. CASE f = "users"
  <2>1. ASSUME MovedInv
        PROVE  MovedInv'
    <3>1. starts = 1
      BY <1>1, <1>7, <2>1 DEF MovedInv
    <3>2. ~ disk'["cwd"]["users"].there /\ \A i \in DOMAIN writers' : writers'[i].dir = "home"
      BY <1>1, <2>1, <3>1 DEF MovedInv
    <3> QED
      BY <1>1, <2>1, <3>1, <3>2, MovedRuns
  <2>2. ASSUME TornInv
        PROVE  TornInv'
    <3> DEFINE ls == disk[where]["users"].lines
               at == reader["users"].at
    <3>1. /\ reader["users"].dir = where /\ ~ Busy("users") /\ Torn(ls, DOMAIN passes)
          /\ HalfRead(users, ls, at, mute)
      BY <1>1, <1>7, <2>2 DEF TornInv, TornRead
    <3>2. /\ ls \in Seq(Line("users")) /\ at \in 1 .. Len(ls)
          /\ \/ ls[at] = Hole["users"] /\ users' = users /\ mute' = mute
             \/ ls[at] = Mute /\ users' = users /\ mute' = TRUE
             \/ ls[at] \in Login /\ users' = <<ls[at]>> \o users /\ mute' = mute
      BY <1>5, <1>7, <3>1
    <3>3. users \in Seq(Login) /\ mute \in BOOLEAN
      BY DEF TypeInv, TableType
    <3>4. at \in Nat /\ reader'["users"].at = at + 1 /\ reader'["users"].dir = where
      BY <1>3, <1>4, <1>7, <3>1
    <3>5. disk'[where']["users"].lines = ls /\ where' = where /\ DOMAIN passes' = DOMAIN passes
      BY <1>1
    <3> HIDE DEF ls, at
    <3>6. HalfRead(users', ls, at + 1, mute')
      BY <3>1, <3>2, <3>3, MoreNames
    <3>7. Reading("users")'
      BY <3>4 DEF Reading
    <3>8. TornRead'
      BY <1>2, <3>1, <3>4, <3>5, <3>6, <3>7 DEF TornRead
    <3> QED
      BY <1>1, <2>2, <3>8, TornRuns
  <2> QED
    BY <2>1, <2>2
<1> QED
  BY <1>6, <1>7, Kinds

LEMMA WarnReadEnd ==
  ASSUME TypeInv, NEW f \in Table, ReadEnd(f)
  PROVE  (MovedInv => MovedInv') /\ (TornInv => TornInv')
<1>1. /\ Runs /\ Reading(f) /\ reader[f].at > Len(disk[reader[f].dir][f].lines)
      /\ reader' = [reader EXCEPT ![f] = NotReading] /\ warned' = (warned \/ (f = "users" /\ ~ mute))
      /\ UNCHANGED <<pc, args, home, starts, where, saveAll, disk, writers, users, mute, passes>>
  BY DEF ReadEnd, FileClosed, started, told
<1>2. Busy("users")' <=> Busy("users")
  BY <1>1 DEF Busy
<1>3. reader \in [Table -> [dir: Dir, at: Nat]]
  BY DEF TypeInv, OpenType
<1>4. /\ reader'[f] = NotReading /\ ~ Reading(f)'
      /\ \A g \in Table : g # f => reader'[g] = reader[g]
  <2>1. reader'[f] = NotReading /\ NotReading.at = 0
    BY <1>1, <1>3 DEF NotReading
  <2>2. \A g \in Table : g # f => reader'[g] = reader[g]
    BY <1>1, <1>3
  <2> QED
    BY <2>1, <2>2 DEF Reading
<1>5. CASE f = "sites"
  <2>1. reader'["users"] = reader["users"] /\ (warned => warned')
    BY <1>1, <1>4, <1>5, Kinds
  <2>2. TornInv /\ Reading("users") => ~ Busy("users")'
    BY <1>1, <1>2 DEF TornInv, TornRead
  <2>3. MovedInv /\ starts = 1 => \A i \in DOMAIN writers' : writers'[i].dir = "home"
    BY <1>1 DEF MovedInv
  <2> QED
    BY <1>1, <2>1, <2>2, <2>3, WarnFrame
<1>6. CASE f = "users"
  <2>1. ASSUME MovedInv
        PROVE  MovedInv'
    <3>1. starts = 1
      BY <1>1, <1>6, <2>1 DEF MovedInv
    <3>2. ~ disk'["cwd"]["users"].there /\ \A i \in DOMAIN writers' : writers'[i].dir = "home"
      BY <1>1, <2>1, <3>1 DEF MovedInv
    <3> QED
      BY <1>1, <2>1, <3>1, <3>2, MovedRuns
  <2>2. ASSUME TornInv
        PROVE  TornInv'
    <3> DEFINE ls == disk[where]["users"].lines
               at == reader["users"].at
    <3>1. /\ reader["users"].dir = where /\ Torn(ls, DOMAIN passes)
          /\ HalfRead(users, ls, at, mute) /\ at > Len(ls)
      BY <1>1, <1>6, <2>2 DEF TornInv, TornRead
    <3>2. users \in Seq(Login) /\ mute \in BOOLEAN /\ where \in Dir
      BY DEF TypeInv, TableType, ControlType
    <3>3. ls \in Seq(Line("users"))
      <4>1. disk[where]["users"] \in FileOf("users")
        BY <3>2, Kinds DEF TypeInv, DiskType
      <4> QED
        BY <4>1 DEF FileOf
    <3>4. at \in Nat
      BY <1>3, Kinds
    <3> HIDE DEF ls, at
    <3>5. mute => DOMAIN passes \subseteq Names(users)
      <4> SUFFICES ASSUME mute
                   PROVE  DOMAIN passes \subseteq Names(users)
        OBVIOUS
      <4>1. HalfRead(users, ls, at, TRUE)
        BY <3>1, <3>2 DEF HalfRead
      <4> QED
        BY <3>1, <3>2, <3>3, <3>4, <4>1, WholeRead
    <3>6. AllHere' \/ warned'
      BY <1>1, <1>6, <3>5 DEF AllHere
    <3>7. TornRead'
      BY <1>4, <1>6, <3>6 DEF TornRead
    <3> QED
      BY <1>1, <2>2, <3>7, TornRuns
  <2> QED
    BY <2>1, <2>2
<1> QED
  BY <1>5, <1>6, Kinds

LEMMA WarnWriteLine ==
  ASSUME TypeInv, NEW i, WriteLine(i)
  PROVE  (MovedInv => MovedInv') /\ (TornInv => TornInv')
<1>1. /\ Runs /\ i \in DOMAIN writers
      /\ UNCHANGED <<pc, args, home, starts, where, saveAll, users, mute, warned, reader, passes>>
  BY DEF WriteLine, started, memory, told
<1>2. /\ writers[i] \in Writer
      /\ disk'[writers[i].dir][writers[i].table].there = disk[writers[i].dir][writers[i].table].there
      /\ \A d \in Dir, g \in Table :
           d # writers[i].dir \/ g # writers[i].table => disk'[d][g] = disk[d][g]
  BY LineWritten, Zenon
<1>3. /\ DOMAIN writers' = DOMAIN writers
      /\ \A j \in DOMAIN writers : writers'[j].table = writers[j].table /\ writers'[j].dir = writers[j].dir
  BY WriterAfter
<1>4. Busy("users")' <=> Busy("users")
  BY <1>3 DEF Busy
<1>5. writers[i].table \in Table /\ writers[i].dir \in Dir /\ where \in Dir
  BY <1>2, WriterIs DEF TypeInv, ControlType
<1>6. disk'["cwd"]["users"].there = disk["cwd"]["users"].there
  BY <1>2, <1>5, Kinds
<1>7. ~ Busy("users") => disk'[where]["users"] = disk[where]["users"]
  <2> SUFFICES ASSUME ~ Busy("users")
               PROVE  disk'[where]["users"] = disk[where]["users"]
    OBVIOUS
  <2>1. writers[i].table # "users"
    BY <1>1 DEF Busy
  <2> QED
    BY <1>2, <1>5, <2>1, Kinds
<1>8. TornInv /\ Reading("users") => disk'[where]["users"] = disk[where]["users"] /\ ~ Busy("users")'
  BY <1>1, <1>4, <1>7 DEF TornInv, TornRead
<1>9. MovedInv /\ starts = 1 => \A j \in DOMAIN writers' : writers'[j].dir = "home"
  BY <1>3 DEF MovedInv
<1> QED
  BY <1>1, <1>6, <1>8, <1>9, WarnFrame

LEMMA WarnWriteEnd ==
  ASSUME TypeInv, NEW i, WriteEnd(i)
  PROVE  (MovedInv => MovedInv') /\ (TornInv => TornInv')
<1>1. /\ Runs /\ (warned => warned')
      /\ UNCHANGED <<pc, args, home, starts, where, saveAll, users, mute, disk, reader, passes>>
  BY DEF WriteEnd, FileClosed, started, told
<1>2. \A j \in DOMAIN writers' : \E k \in DOMAIN writers : writers'[j] = writers[k]
  BY WriterGone
<1>3. Busy("users")' => Busy("users")
  BY <1>2 DEF Busy
<1>4. TornInv /\ Reading("users") => ~ Busy("users")'
  BY <1>1, <1>3 DEF TornInv, TornRead
<1>5. MovedInv /\ starts = 1 => \A j \in DOMAIN writers' : writers'[j].dir = "home"
  BY <1>2 DEF MovedInv
<1> QED
  BY <1>1, <1>4, <1>5, WarnFrame

\* A command of the API that saves a table. Oddities other than these two are none of this.
LEMMA WarnSaved ==
  ASSUME TypeInv, Runs, NEW f \in Table, Oddity(f), odd' \subseteq {"torn", "moved"},
         NEW ls \in Seq(Line(f)), Save(f, where, ls),
         UNCHANGED <<pc, args, home, starts, where, saveAll, reader, warned>>,
         f = "sites" => UNCHANGED <<users, mute>>,
         Names(users') = Names(users), DOMAIN passes' = DOMAIN passes
  PROVE  (MovedInv => MovedInv') /\ (TornInv => TornInv')
<1>1. ~ Reading(f)
  BY DEF Oddity
<1> DEFINE w == Opened(f, where, ls)
<1>2. writers' = Append(writers, w) /\ disk' = [disk EXCEPT ![where][f] = Empty]
  BY DEF Save
<1>3. where \in Dir /\ writers \in Seq(Writer) /\ DiskType
  BY DEF TypeInv, ControlType, OpenType
<1>4. w \in Writer /\ w.table = f /\ w.dir = where
  <2>1. w \in Writer
    BY <1>3, OpenedIs
  <2> QED
    BY <2>1 DEF Opened
<1> HIDE DEF w
<1>5. \A j \in DOMAIN writers' : (j \in DOMAIN writers /\ writers'[j] = writers[j]) \/ writers'[j] = w
  <2>1. /\ DOMAIN writers' = 1 .. Len(writers) + 1 /\ DOMAIN writers = 1 .. Len(writers)
        /\ Len(writers) \in Nat /\ writers'[Len(writers) + 1] = w
        /\ \A j \in DOMAIN writers : writers'[j] = writers[j]
    BY <1>2, <1>3, <1>4, AppendIs
  <2> QED
    BY <2>1
<1>6. disk'[where][f] = Empty /\ \A d \in Dir, g \in Table : d # where \/ g # f => disk'[d][g] = disk[d][g]
  BY <1>2, <1>3, DiskSet, EmptyIs
<1>7. Reading("users")' <=> Reading("users")
  BY DEF Reading
<1>8. AllHere' <=> AllHere
  BY DEF AllHere
<1>9. ASSUME MovedInv
      PROVE  MovedInv'
  <2>1. ASSUME starts = 1
        PROVE  ~ disk'["cwd"]["users"].there /\ \A j \in DOMAIN writers' : writers'[j].dir = "home"
    <3>1. where = "home" /\ ~ disk["cwd"]["users"].there /\ \A j \in DOMAIN writers : writers[j].dir = "home"
      BY <1>9, <2>1 DEF MovedInv, Runs
    <3>2. disk'["cwd"]["users"] = disk["cwd"]["users"]
      BY <1>6, <3>1, Kinds
    <3>3. \A j \in DOMAIN writers' : writers'[j].dir = "home"
      BY <1>4, <1>5, <3>1
    <3> QED
      BY <3>1, <3>2, <3>3
  <2>2. starts = 2 => ~ Reading("users")' /\ AllHere'
    BY <1>7, <1>8, <1>9 DEF MovedInv
  <2> QED
    BY <1>9, <2>1, <2>2, MovedRuns
<1>10. ASSUME TornInv
       PROVE  TornInv'
  <2>1. TornRead
    BY <1>10 DEF TornInv
  <2>2. TornRead'
    <3>1. CASE Reading("users")
      <4>1. f = "sites" /\ f # "users"
        BY <1>1, <3>1, Kinds
      <4>2. disk'[where]["users"] = disk[where]["users"]
        BY <1>3, <1>6, <4>1, Kinds
      <4>3. ~ Busy("users")
        BY <2>1, <3>1 DEF TornRead
      <4>4. ~ Busy("users")'
        BY <1>4, <1>5, <4>1, <4>3 DEF Busy
      <4> QED
        BY <2>1, <4>1, <4>2, <4>4, TornFrame
    <3>2. CASE ~ Reading("users")
      BY <1>7, <1>8, <2>1, <3>2 DEF TornRead
    <3> QED
      BY <3>1, <3>2
  <2> QED
    BY <1>10, <2>2, TornRuns
<1> QED
  BY <1>9, <1>10

LEMMA WarnSetPass ==
  ASSUME TypeInv, NEW u \in User, SetPass(u), odd' \subseteq {"torn", "moved"}
  PROVE  (MovedInv => MovedInv') /\ (TornInv => TornInv')
<1>1. /\ Runs /\ Oddity("users") /\ Save("users", where, UserLines(users'))
      /\ UNCHANGED <<pc, args, home, starts, where, saveAll, reader, warned>>
  BY DEF SetPass, Asks, started
<1>2. PICK i \in DOMAIN users, new \in {"old", "new"} :
        /\ users[i][1] = u /\ users' \in Seq(Login) /\ DOMAIN users' = DOMAIN users
        /\ users'[i] = <<u, new>> /\ \A j \in DOMAIN users : j # i => users'[j] = users[j]
        /\ passes' = [passes EXCEPT ![u] = new]
  BY PasswordSet
<1>3. Names(users') = Names(users)
  <2>1. \A j \in DOMAIN users : users'[j][1] = users[j][1]
    BY <1>2
  <2> QED
    BY <1>2, <2>1 DEF Names
<1>4. DOMAIN passes' = DOMAIN passes
  BY <1>2
<1>5. UserLines(users') \in Seq(Line("users"))
  BY <1>2, UserLinesType
<1> QED
  BY <1>1, <1>3, <1>4, <1>5, WarnSaved, Kinds

LEMMA WarnSites ==
  ASSUME TypeInv, odd' \subseteq {"torn", "moved"}, Runs, sites' \in Seq(Held),
         Oddity("sites"), Save("sites", where, SiteLines(sites')),
         UNCHANGED <<pc, started, where, saveAll, port, conf, users, mute, warned, reader, passes>>
  PROVE  (MovedInv => MovedInv') /\ (TornInv => TornInv')
<1>1. SiteLines(sites') \in Seq(Line("sites"))
  BY SiteLinesType
<1>2. UNCHANGED <<pc, args, home, starts, where, saveAll, users, mute, warned, reader, passes>>
  BY DEF started
<1> QED
  BY <1>1, <1>2, WarnSaved, Kinds

LEMMA WarnApi ==
  ASSUME TypeInv, Api, odd' \subseteq {"torn", "moved"}
  PROVE  (MovedInv => MovedInv') /\ (TornInv => TornInv')
<1>1. ASSUME NEW u \in User, SetPass(u)
      PROVE  (MovedInv => MovedInv') /\ (TornInv => TornInv')
  BY <1>1, WarnSetPass
<1>2. ASSUME NEW given \in Given, SiteAdd(given)
      PROVE  (MovedInv => MovedInv') /\ (TornInv => TornInv')
  <2>1. sites' \in Seq(Held)
    BY <1>2, SiteAdded
  <2> QED
    BY <1>2, <2>1, WarnSites DEF SiteAdd, Asks
<1>3. ASSUME NEW given \in Given, NEW i \in DOMAIN sites, NEW name \in BOOLEAN,
             SiteMod(i, given, name)
      PROVE  (MovedInv => MovedInv') /\ (TornInv => TornInv')
  <2>1. sites' \in Seq(Held)
    BY <1>3, SiteModified
  <2> QED
    BY <1>3, <2>1, WarnSites DEF SiteMod, Asks
<1>4. ASSUME NEW i \in DOMAIN sites, SiteDel(i)
      PROVE  (MovedInv => MovedInv') /\ (TornInv => TornInv')
  <2>1. sites' \in Seq(Held)
    BY <1>4, SiteDeleted
  <2> QED
    BY <1>4, <2>1, WarnSites DEF SiteDel, Asks
<1> QED
  BY <1>1, <1>2, <1>3, <1>4 DEF Api

\* The second start.
LEMMA WarnStart ==
  ASSUME TypeInv, Start, starts' <= 2
  PROVE  (MovedInv => MovedInv') /\ (TornInv => TornInv')
<1> DEFINE old == ~home /\ disk["cwd"]["sites"].there
           dir == IF old \/ (home /\ args.cwd) THEN "cwd" ELSE "home"
<1>1. /\ pc = "down" /\ starts' = starts + 1 /\ home' = TRUE /\ where' = dir /\ saveAll' = old
      /\ pc' = (IF ~home /\ ~old /\ ~args.cert THEN "down" ELSE "settings")
      /\ UNCHANGED <<args, users, sites, mute, warned, disk, handle, reader, writers, wanted, passes>>
  BY DEF Start, memory, files
<1>2. ASSUME home
      PROVE  pc' = "settings" /\ saveAll' = FALSE /\ where' = Base /\ ~ Runs /\ ~ Runs'
  BY <1>1, <1>2 DEF Base, Runs
<1>3. starts \in {1, 2} => starts = 1 /\ starts' = 2
  BY <1>1
<1>4. Base' = Base
  BY <1>1 DEF Base
<1>5. ASSUME MovedInv
      PROVE  MovedInv'
  <2>1. /\ starts \in {1, 2} /\ home /\ args.cwd /\ DOMAIN passes = {Admin}
    BY <1>5 DEF MovedInv
  <2>2. ~ disk["cwd"]["users"].there
    BY <1>3, <1>5, <2>1 DEF MovedInv
  <2>3. where' = "cwd"
    BY <1>2, <2>1 DEF Base
  <2>4. /\ starts' = 2 /\ home' = TRUE /\ saveAll' = FALSE /\ pc' = "settings" /\ ~ Runs'
        /\ args'.cwd /\ DOMAIN passes' = {Admin} /\ ~ disk'["cwd"]["users"].there
    BY <1>1, <1>2, <1>3, <2>1, <2>2
  <2> QED
    BY <2>3, <2>4 DEF MovedInv
<1>6. ASSUME TornInv
      PROVE  TornInv'
  <2>1. starts \in {1, 2} /\ home
    BY <1>6 DEF TornInv
  <2>2. TornThere /\ writers = <<>>
    BY <1>2, <1>3, <1>6, <2>1 DEF TornInv
  <2>3. TornThere'
    BY <1>1, <1>4, <2>2 DEF TornThere
  <2>4. /\ starts' = 2 /\ home' = TRUE /\ saveAll' = FALSE /\ pc' = "settings" /\ ~ Runs'
        /\ where' = Base' /\ writers' = <<>>
    BY <1>1, <1>2, <1>3, <1>4, <2>1, <2>2
  <2> QED
    BY <2>3, <2>4 DEF TornInv
<1> QED
  BY <1>5, <1>6

LEMMA WarnSettingsRead ==
  ASSUME TypeInv, SettingsRead
  PROVE  (MovedInv => MovedInv') /\ (TornInv => TornInv')
<1>1. /\ pc = "settings" /\ pc' = (IF saveAll THEN "wait" ELSE "up")
      /\ reader' = [f \in Table |->
           IF disk[where][f].there THEN [dir |-> where, at |-> 1] ELSE NotReading]
      /\ mute' = ~disk[where]["users"].there
      /\ UNCHANGED <<args, home, starts, where, saveAll, warned, passes>>
  BY DEF SettingsRead, started, told
<1>2. ~ Runs /\ Runs' /\ where \in Dir /\ DiskType
  BY <1>1 DEF Runs, TypeInv, ControlType
<1>3. CASE disk[where]["users"].there
  <2>1. users' = <<>> /\ disk' = disk /\ writers' = writers
    BY <1>3 DEF SettingsRead
  <2>2. reader'["users"] = [dir |-> where, at |-> 1]
    BY <1>1, <1>3, Kinds
  <2>3. reader'["users"].dir = where /\ reader'["users"].at = 1
    BY <2>2
  <2>4. Reading("users")'
    BY <2>3 DEF Reading
  <2>5. ASSUME MovedInv
        PROVE  MovedInv'
    <3>1. starts = 1
      <4>1. starts \in {1, 2} /\ (starts = 2 => where = "cwd" /\ ~ disk["cwd"]["users"].there)
        BY <1>1, <2>5 DEF MovedInv
      <4> QED
        BY <1>3, <4>1
    <3>2. writers' = <<>>
      BY <1>2, <2>1, <2>5, <3>1 DEF MovedInv
    <3> QED
      BY <1>1, <1>2, <2>1, <2>5, <3>1, <3>2 DEF MovedInv
  <2>6. ASSUME TornInv
        PROVE  TornInv'
    <3>1. where = Base /\ TornThere /\ writers = <<>> /\ ~ saveAll /\ starts # 1
      BY <1>1, <1>2, <2>6 DEF TornInv
    <3> DEFINE ls == disk[where]["users"].lines
    <3>2. Torn(ls, DOMAIN passes)
      BY <1>3, <3>1 DEF TornThere
    <3>3. ls \in Seq(Line("users"))
      <4>1. disk[where]["users"] \in FileOf("users")
        BY <1>2, Kinds DEF DiskType
      <4> QED
        BY <4>1 DEF FileOf
    <3>4. disk'[where']["users"].lines = ls /\ DOMAIN passes' = DOMAIN passes /\ where' = where /\ mute' = FALSE
      BY <1>1, <1>3, <2>1
    <3> HIDE DEF ls
    <3>5. HalfRead(<<>>, ls, 1, FALSE)
      <4>1. Len(ls) \in Nat
        BY <3>3
      <4>2. 1 <= Len(ls) + 1 /\ 1 .. 1 - 1 = {}
        BY <4>1
      <4>3. Names(<<>>) = {}
        BY DEF Names
      <4> QED
        BY <4>2, <4>3 DEF HalfRead
    <3>6. ~ Busy("users")'
      BY <2>1, <3>1 DEF Busy
    <3>7. TornRead'
      BY <2>1, <2>3, <2>4, <3>2, <3>4, <3>5, <3>6 DEF TornRead
    <3>8. Base' = Base
      BY <1>1 DEF Base
    <3> QED
      BY <1>1, <1>2, <2>6, <3>1, <3>7, <3>8 DEF TornInv
  <2> QED
    BY <2>5, <2>6
<1>4. CASE ~ disk[where]["users"].there
  <2>1. /\ users' = <<<<Admin, "old">>>> /\ disk' = [disk EXCEPT ![where]["users"] = Empty]
        /\ writers' = <<Opened("users", where, UserLines(users'))>>
    BY <1>4 DEF SettingsRead
  <2>2. ~ Reading("users")'
    <3>1. reader'["users"] = NotReading /\ NotReading.at = 0
      BY <1>1, <1>4, Kinds DEF NotReading
    <3> QED
      BY <3>1 DEF Reading
  <2>3. Names(users') = {Admin}
    <3>1. DOMAIN users' = {1} /\ users'[1] = <<Admin, "old">>
      BY <2>1
    <3> QED
      BY <3>1 DEF Names
  <2>4. \A d \in Dir : d # where => disk'[d]["users"] = disk[d]["users"]
    BY <1>2, <2>1, DiskSet, EmptyIs, Kinds
  <2>5. \A i \in DOMAIN writers' : writers'[i].dir = where
    <3> DEFINE w == Opened("users", where, UserLines(users'))
    <3>1. w.dir = where
      BY DEF Opened
    <3> HIDE DEF w
    <3>2. writers' = <<w>>
      BY <2>1 DEF w
    <3> QED
      BY <3>1, <3>2
  <2>6. ASSUME MovedInv
        PROVE  MovedInv'
    <3>1. DOMAIN passes = {Admin} /\ ~ saveAll
      BY <2>6 DEF MovedInv
    <3>2. AllHere'
      BY <1>1, <2>3, <3>1 DEF AllHere
    <3>3. starts = 1 => ~ disk'["cwd"]["users"].there /\ \A i \in DOMAIN writers' : writers'[i].dir = "home"
      BY <1>1, <2>4, <2>5, <2>6, Kinds DEF MovedInv
    <3> QED
      BY <1>1, <1>2, <2>2, <2>6, <3>1, <3>2, <3>3 DEF MovedInv
  <2>7. ASSUME TornInv
        PROVE  TornInv'
    <3>1. where = Base /\ TornThere /\ ~ saveAll /\ starts # 1
      BY <1>1, <2>7 DEF TornInv
    <3>2. DOMAIN passes = {Admin}
      BY <1>4, <3>1 DEF TornThere
    <3>3. AllHere'
      BY <1>1, <2>3, <3>2 DEF AllHere
    <3>4. TornRead'
      BY <2>2, <3>3 DEF TornRead
    <3>5. Base' = Base
      BY <1>1 DEF Base
    <3> QED
      BY <1>1, <1>2, <2>7, <3>1, <3>4, <3>5 DEF TornInv
  <2> QED
    BY <2>6, <2>7
<1> QED
  BY <1>3, <1>4

LEMMA WarnStop ==
  ASSUME TypeInv, Stop
  PROVE  (MovedInv => MovedInv') /\ (TornInv => TornInv')
<1>1. /\ pc # "down" /\ pc' = "down" /\ saveAll' = FALSE /\ writers' = <<>>
      /\ UNCHANGED <<args, home, starts, where, disk, passes>>
  BY DEF Stop, started
<1>2. ~ Runs' /\ DOMAIN writers' = {}
  BY <1>1 DEF Runs
<1>3. MovedInv => MovedInv'
  BY <1>1, <1>2 DEF MovedInv
<1>4. TornInv => TornInv'
  <2>1. TornInv => starts # 1
    BY <1>1 DEF TornInv
  <2> QED
    BY <1>1, <1>2, <2>1 DEF TornInv
<1> QED
  BY <1>3, <1>4

\* The first that is odd.
LEMMA WarnFirstStart ==
  ASSUME TypeInv, CleanInv, Start, odd = {}, odd' # {}
  PROVE  "moved" \in odd' /\ MovedInv'
<1> DEFINE old == ~home /\ disk["cwd"]["sites"].there
           dir == IF old \/ (home /\ args.cwd) THEN "cwd" ELSE "home"
<1>1. /\ pc = "down" /\ starts' = starts + 1 /\ home' = TRUE /\ where' = dir /\ saveAll' = old
      /\ odd' = odd \cup (IF args.cwd /\ dir = "home" THEN {"moved"} ELSE {})
      /\ pc' \in {"down", "settings"}
      /\ UNCHANGED <<args, users, sites, mute, warned, disk, handle, reader, writers, wanted, passes>>
  BY DEF Start, memory, files
<1>2. args.cwd /\ dir = "home" /\ "moved" \in odd'
  BY <1>1
<1>3. ~ home /\ ~ old /\ ~ disk["cwd"]["sites"].there
  BY <1>2
<1>4. ModeInv /\ ~ Runs /\ ~ Runs'
  BY <1>1, CleanIs DEF Runs
<1>5. writers = <<>> /\ UsersKept
  BY <1>4, Quiet
<1>6. starts = 0 /\ ~ disk["cwd"]["users"].there
  BY <1>3, <1>4 DEF ModeInv
<1>7. DOMAIN passes = {Admin}
  <2>1. Data = "cwd"
    BY <1>3 DEF Data
  <2>2. {<<u, passes[u]>> : u \in DOMAIN passes} = {<<Admin, "old">>}
    BY <1>5, <1>6, <2>1 DEF UsersKept, Book
  <2>3. \A u \in DOMAIN passes : u = Admin
    <3> TAKE u \in DOMAIN passes
    <3>1. <<u, passes[u]>> = <<Admin, "old">>
      BY <2>2
    <3> QED
      BY <3>1
  <2>4. \E u \in DOMAIN passes : <<u, passes[u]>> = <<Admin, "old">>
    BY <2>2
  <2> QED
    BY <2>3, <2>4
<1>8. /\ starts' = 1 /\ home' = TRUE /\ saveAll' = FALSE /\ where' = "home" /\ writers' = <<>>
      /\ args'.cwd /\ DOMAIN passes' = {Admin} /\ ~ disk'["cwd"]["users"].there /\ pc' # "wait"
  <2>1. saveAll' = FALSE
    BY <1>1, <1>3
  <2>2. where' = "home"
    BY <1>1, <1>2
  <2>3. starts' = 1
    BY <1>1, <1>6
  <2> HIDE DEF old, dir
  <2> QED
    BY <1>1, <1>2, <1>5, <1>6, <1>7, <2>1, <2>2, <2>3
<1>9. MovedInv'
  BY <1>4, <1>8 DEF MovedInv
<1> QED
  BY <1>2, <1>9

LEMMA WarnFirstStop ==
  ASSUME TypeInv, CleanInv, Stop, odd = {}, odd' # {}, odd' \subseteq {"torn", "moved"}, starts <= 2
  PROVE  "moved" \notin odd' /\ TornInv'
<1>1. /\ pc # "down" /\ pc' = "down" /\ saveAll' = FALSE
      /\ odd' = odd \cup (IF writers # <<>> THEN {"torn"} ELSE {})
                    \cup (IF saveAll THEN {"halfway"} ELSE {})
      /\ writers' = <<>>
      /\ UNCHANGED <<args, home, starts, where, disk, passes>>
  BY DEF Stop, started
<1>2. ~ saveAll /\ writers # <<>> /\ "moved" \notin odd'
  BY <1>1
<1>3. /\ ModeInv /\ OpenInv /\ FileInv /\ WriterInv /\ ReaderInv /\ where = Data
      /\ users \in Seq(Login) /\ where \in Dir /\ writers \in Seq(Writer)
      /\ \A d \in Dir, f \in Table : disk[d][f].lines \in Seq(Line(f))
  BY <1>1, CleanIs
<1>4. Runs
  BY <1>2, <1>3 DEF OpenInv
<1>5. home /\ starts # 0 /\ starts \in Nat
  <2>1. starts \in Nat
    BY StoreAssumption DEF TypeInv, ControlType
  <2> QED
    BY <1>1, <1>3, <2>1 DEF ModeInv
<1>6. where = Base /\ Base' = Base
  BY <1>1, <1>2, <1>3, <1>5 DEF Data, Base
<1>7. disk[where]["users"].there /\ disk[where]["users"].lines \in Seq(Line("users"))
  BY <1>3, <1>4, Kinds DEF FileInv
<1>8. Torn(disk[where]["users"].lines, DOMAIN passes)
  <2>1. CASE Busy("users")
    <3>1. PICK i \in DOMAIN writers : writers[i].table = "users"
      BY <2>1 DEF Busy
    <3>2. writers[i].dir = where /\ ~ Reading("users")
      BY <1>3, <3>1 DEF OpenInv
    <3>3. Written(disk[where]["users"], writers[i], UserLines(users))
      BY <1>3, <3>1, <3>2 DEF WriterInv, LinesOf
    <3>4. GoodUsers(users)
      BY <1>3, <1>4, <3>2 DEF ReaderInv, UsersRead
    <3>5. writers[i].lines \in Seq(Line("users"))
      <4>1. writers[i] \in Writer
        BY <1>3
      <4> QED
        BY <3>1, <4>1, WriterIs
    <3> QED
      BY <1>3, <1>7, <3>3, <3>4, <3>5, TornWritten
  <2>2. CASE ~ Busy("users")
    <3>1. GoodUserLines(disk[where]["users"].lines)
      BY <1>3, <1>7, <2>2 DEF FileInv, UsersKept
    <3> QED
      BY <1>7, <3>1, TornKept
  <2> QED
    BY <2>1, <2>2
<1>9. TornThere'
  BY <1>1, <1>6, <1>7, <1>8 DEF TornThere
<1>10. starts' \in {1, 2} /\ home' /\ ~ Runs'
  <2>1. starts \in {1, 2}
    BY <1>5
  <2> QED
    BY <1>1, <1>5, <2>1 DEF Runs
<1>11. TornInv'
  BY <1>1, <1>9, <1>10 DEF TornInv
<1> QED
  BY <1>2, <1>11

\* What the oddities may become.
LEMMA OddOnly ==
  ASSUME TypeInv, Next
  PROVE  /\ starts' = starts \/ (Start /\ starts' = starts + 1)
         /\ home => ("moved" \in odd' <=> "moved" \in odd)
         /\ ~ Start /\ ~ Stop /\ odd' \subseteq {"torn", "moved"} => odd' = odd
<1>1. CASE Start
  <2>1. starts' = starts + 1
    BY <1>1 DEF Start
  <2>2. home => odd' = odd
    BY <1>1 DEF Start
  <2> QED
    BY <1>1, <2>1, <2>2
<1>2. CASE Stop
  BY <1>2 DEF Stop, started
<1>3. CASE SettingsRead \/ SaveAll
  BY <1>3 DEF SettingsRead, SaveAll, started, told
<1>4. CASE Files
  <2>1. ASSUME NEW f \in Table, ReadLine(f) \/ ReadEnd(f)
        PROVE  odd' = odd /\ starts' = starts
    BY <2>1 DEF ReadLine, ReadEnd, started, told
  <2>2. ASSUME NEW i \in DOMAIN writers, WriteLine(i) \/ WriteEnd(i)
        PROVE  odd' = odd /\ starts' = starts
    BY <2>2 DEF WriteLine, WriteEnd, started, told
  <2>3. odd' = odd /\ starts' = starts
    BY <1>4, <2>1, <2>2 DEF Files
  <2> QED
    BY <2>3
<1>5. CASE Api
  <2>1. starts' = starts /\ (Oddity("users") \/ Oddity("sites"))
    BY <1>5 DEF Api, SetPass, SiteAdd, SiteMod, SiteDel, started
  <2>2. \A f : Oddity(f) => /\ "moved" \in odd' <=> "moved" \in odd
                            /\ odd' \subseteq {"torn", "moved"} => odd' = odd
    BY DEF Oddity
  <2> QED
    BY <2>1, <2>2
<1> QED
  BY <1>1, <1>2, <1>3, <1>4, <1>5 DEF Next, Engine

LEMMA WarnStep ==
  ASSUME TypeInv, CleanInv, WarnInv, [Next]_vars
  PROVE  WarnInv'
<1> SUFFICES ASSUME odd' \subseteq {"torn", "moved"}, odd' # {}, starts' <= 2
             PROVE  IF "moved" \in odd' THEN MovedInv' ELSE TornInv'
  BY DEF WarnInv
<1>0. starts \in Nat
  BY StoreAssumption DEF TypeInv, ControlType
<1>1. CASE UNCHANGED vars
  <2>1. IF "moved" \in odd THEN MovedInv ELSE TornInv
    BY <1>1 DEF WarnInv, vars
  <2>2. (MovedInv => MovedInv') /\ (TornInv => TornInv')
    BY <1>1 DEF vars, MovedInv, TornInv, TornThere, TornRead, AllHere, Runs, Reading, Base, Busy
  <2> QED
    BY <1>1, <2>1, <2>2 DEF vars
<1>2. CASE Next /\ odd = {}
  <2>1. Start \/ Stop
    BY <1>2, OddOnly
  <2>2. CASE Start
    BY <1>2, <2>2, WarnFirstStart
  <2>3. CASE Stop
    <3>1. starts <= 2
      BY <2>3 DEF Stop, started
    <3> QED
      BY <1>2, <2>3, <3>1, WarnFirstStop
  <2> QED
    BY <2>1, <2>2, <2>3
<1>3. CASE Next /\ odd # {}
  <2>1. odd \subseteq odd' /\ starts <= 2
    BY <1>0, <1>3, OddGrows, OddOnly
  <2>2. IF "moved" \in odd THEN MovedInv ELSE TornInv
    BY <1>3, <2>1 DEF WarnInv
  <2>3. home /\ pc # "wait"
    BY <2>2 DEF MovedInv, TornInv
  <2>4. "moved" \in odd' <=> "moved" \in odd
    BY <1>3, <2>3, OddOnly
  <2>5. (MovedInv => MovedInv') /\ (TornInv => TornInv')
    <3>1. CASE Engine
      <4>1. ~ SaveAll
        BY <2>3 DEF SaveAll
      <4> QED
        BY <3>1, <4>1, WarnStart, WarnSettingsRead, WarnStop DEF Engine
    <3>2. CASE Files
      <4>1. ASSUME NEW f \in Table, ReadLine(f) \/ ReadEnd(f)
            PROVE  (MovedInv => MovedInv') /\ (TornInv => TornInv')
        BY <4>1, WarnReadLine, WarnReadEnd
      <4>2. ASSUME NEW i \in DOMAIN writers, WriteLine(i) \/ WriteEnd(i)
            PROVE  (MovedInv => MovedInv') /\ (TornInv => TornInv')
        BY <4>2, WarnWriteLine, WarnWriteEnd
      <4> QED
        BY <3>2, <4>1, <4>2 DEF Files
    <3>3. CASE Api
      BY <3>3, WarnApi
    <3> QED
      BY <1>3, <3>1, <3>2, <3>3 DEF Next
  <2> QED
    BY <2>2, <2>4, <2>5
<1> QED
  BY <1>1, <1>2, <1>3

LEMMA WarnHolds == Spec => [](TypeInv /\ CleanInv /\ WarnInv)
<1>1. Init => TypeInv /\ CleanInv /\ WarnInv
  <2>1. Init => WarnInv
    BY DEF Init, WarnInv
  <2> QED
    BY <2>1, TypeInit, CleanInit
<1>2. TypeInv /\ CleanInv /\ WarnInv /\ [Next]_vars => (TypeInv /\ CleanInv /\ WarnInv)'
  BY TypeStep, CleanStep, WarnStep
<1> QED
  BY <1>1, <1>2, PTL DEF Spec

LEMMA WarnMeans ==
  ASSUME TypeInv, CleanInv, WarnInv
  PROVE  WarnedOfLoss
<1> SUFFICES ASSUME pc = "up", ~ Reading("users"), odd \subseteq {"torn", "moved"}, starts = 2,
                    NEW u \in DOMAIN passes, \A i \in DOMAIN users : users[i][1] # u
             PROVE  warned
  BY DEF WarnedOfLoss
<1>1. ~ AllHere
  BY DEF AllHere, Names
<1>2. Runs
  BY DEF Runs
<1>3. CASE odd = {}
  <2>1. UsersRead
    BY <1>2, <1>3, CleanIs DEF ReaderInv
  <2>2. Passes(users) = Book
    BY <2>1 DEF UsersRead, GoodUsers
  <2>3. Names(users) = DOMAIN passes
    BY <2>2, BookNames
  <2> QED
    BY <1>1, <2>3 DEF AllHere
<1>4. CASE odd # {}
  <2>1. IF "moved" \in odd THEN MovedInv ELSE TornInv
    BY <1>4 DEF WarnInv
  <2> QED
    BY <1>1, <1>2, <2>1 DEF MovedInv, TornInv, TornRead
<1> QED
  BY <1>3, <1>4

\* users_handler and the MUTE line (engine/users.c:133-170): when the engine died at any line of
\* the file of users, or the files were moved, the second start either has all users or
\* says that some may be missing.
THEOREM LossIsWarnedOf == Spec => []WarnedOfLoss
<1>1. TypeInv /\ CleanInv /\ WarnInv => WarnedOfLoss
  BY WarnMeans
<1> QED
  BY <1>1, WarnHolds, PTL

=============================================================================

-------------------------- MODULE ConfigStoreProofs --------------------------
(***************************************************************************)
(* What every behaviour of ConfigStore satisfies, for any number of        *)
(* callers, presets and documents, and any number of crashes and failures. *)
(***************************************************************************)
EXTENDS ConfigStore, FiniteSetTheorems, FunctionTheorems, TLAPS

(***************************************************************************)
(* The lists.  Keep takes the first mention of each name, in order: the    *)
(* k-th item is at the place that k - 1 of the chosen places precede.      *)
(***************************************************************************)
Rank(I, i) == Cardinality({j \in I : j < i})

\* In a finite set of numbers every rank from 0 on is taken, once.
LEMMA Ranks ==
  ASSUME NEW I \in SUBSET Nat, IsFiniteSet(I)
  PROVE  /\ Cardinality(I) \in Nat
         /\ \A i \in I : Rank(I, i) \in 0..(Cardinality(I) - 1)
         /\ \A i, j \in I : Rank(I, i) = Rank(I, j) => i = j
         /\ \A k \in 0..(Cardinality(I) - 1) : \E i \in I : Rank(I, i) = k
PROOF
<1> DEFINE card   == Cardinality(I)
           low(i) == {j \in I : j < i}
           rank   == [i \in I |-> Rank(I, i)]
<1>1. card \in Nat
  BY FS_CardinalityType
<1>2. \A i : IsFiniteSet(low(i)) /\ Cardinality(low(i)) \in Nat
  BY FS_Subset, FS_CardinalityType
<1>3. \A i \in I : Rank(I, i) \in 0..(card - 1)
  <2> TAKE i \in I
  <2>1. low(i) \in SUBSET I /\ low(i) # I
    BY i \notin low(i)
  <2>2. Cardinality(low(i)) <= card /\ Cardinality(low(i)) # card
    BY <2>1, FS_Subset
  <2> QED BY <1>1, <1>2, <2>2 DEF Rank
<1>4. \A i, j \in I : i < j => Rank(I, i) < Rank(I, j)
  <2> TAKE i, j \in I
  <2> HAVE i < j
  <2>1. \A k \in I : k < i => k < j
    BY i \in Nat, j \in Nat
  <2>2. low(i) \in SUBSET low(j)
    BY <2>1
  <2>3. i \in low(j) /\ i \notin low(i)
    BY i \in Nat
  <2>4. Cardinality(low(i)) <= Cardinality(low(j)) /\ Cardinality(low(i)) # Cardinality(low(j))
    BY <1>2, <2>2, <2>3, FS_Subset
  <2> QED BY <1>2, <2>4 DEF Rank
<1>5. \A i, j \in I : Rank(I, i) = Rank(I, j) => i = j
  <2> TAKE i, j \in I
  <2>1. i \in Nat /\ j \in Nat /\ Rank(I, i) \in Nat /\ Rank(I, j) \in Nat
    BY <1>1, <1>3
  <2> QED BY <1>4, <2>1
<1>6. rank \in Injection(I, 0..(card - 1))
  BY <1>3, <1>5 DEF Injection, IsInjective
<1>7. IsFiniteSet(0..(card - 1)) /\ Cardinality(0..(card - 1)) = card
  <2>1. 0 \in Int /\ card - 1 \in Int
    BY <1>1
  <2> QED BY <1>1, <2>1, FS_Interval
<1>8. rank \in Surjection(I, 0..(card - 1))
  BY <1>6, <1>7, FS_Injection
<1>9. \A k \in 0..(card - 1) : \E i \in I : Rank(I, i) = k
  BY <1>8 DEF Surjection
<1> QED BY <1>1, <1>3, <1>5, <1>9

\* What a sequence names it names somewhere first.
LEMMA FirstMention ==
  ASSUME NEW X, NEW raw \in Seq(X), NEW n \in ToSet(raw)
  PROVE  \E i \in DOMAIN raw : raw[i] = n /\ \A j \in 1..(i - 1) : raw[j] # n
PROOF
<1> DEFINE I == {i \in DOMAIN raw : raw[i] = n}
<1>1. DOMAIN raw = 1..Len(raw) /\ Len(raw) \in Nat
  OBVIOUS
<1>2. I \in SUBSET Nat /\ I # {} /\ IsFiniteSet(I)
  <2>1. IsFiniteSet(1..Len(raw))
    BY <1>1, FS_Interval
  <2> QED BY <1>1, <2>1, FS_Subset DEF ToSet
<1>3. Cardinality(I) \in Nat /\ Cardinality(I) # 0
  BY <1>2, FS_EmptySet, FS_CardinalityType
<1>4. PICK i \in I : Rank(I, i) = 0
  <2> HIDE DEF I
  <2>1. 0 \in 0..(Cardinality(I) - 1)
    BY <1>3
  <2> QED BY <1>2, <2>1, Ranks
<1>5. ASSUME NEW j \in 1..(i - 1) PROVE raw[j] # n
  <2>1. SUFFICES ASSUME raw[j] = n PROVE FALSE
    OBVIOUS
  <2>2. i \in 1..Len(raw)
    BY <1>1
  <2>3. j \in I /\ j < i
    BY <1>1, <2>1, <2>2
  <2>4. {k \in I : k < i} # {} /\ IsFiniteSet({k \in I : k < i})
    BY <1>2, <2>3, FS_Subset
  <2> QED BY <1>4, <2>4, FS_EmptySet DEF Rank
<1> QED BY <1>5

\* Keep names what of S the sequence names, once each.
LEMMA Kept ==
  ASSUME NEW X, NEW S \in SUBSET X, NEW raw \in Seq(X), S \subseteq ToSet(raw)
  PROVE  /\ Keep(S, raw) \in Seq(X)
         /\ ToSet(Keep(S, raw)) = S
         /\ Len(Keep(S, raw)) = Cardinality(S)
PROOF
<1> DEFINE I     == Firsts(S, raw)
           card  == Cardinality(I)
           at(k) == CHOOSE i \in I : Cardinality({j \in I : j < i}) = k - 1
           name  == [i \in I |-> raw[i]]
<1>1. DOMAIN raw = 1..Len(raw) /\ Len(raw) \in Nat
  OBVIOUS
<1>2. I \in SUBSET DOMAIN raw /\ I \in SUBSET Nat /\ IsFiniteSet(I)
  <2>1. IsFiniteSet(1..Len(raw))
    BY <1>1, FS_Interval
  <2> QED BY <1>1, <2>1, FS_Subset DEF Firsts
<1>3. name \in Bijection(I, S)
  <2>1. name \in [I -> S]
    BY DEF Firsts
  <2>2. \A i, j \in I : raw[i] = raw[j] => i = j
    <3> TAKE i, j \in I
    <3> HAVE raw[i] = raw[j]
    <3>1. i \in 1..Len(raw) /\ j \in 1..Len(raw)
      BY <1>1, <1>2
    <3>2. i \notin 1..(j - 1) /\ j \notin 1..(i - 1)
      BY DEF Firsts
    <3> QED BY <1>1, <3>1, <3>2
  <2>3. ASSUME NEW n \in S PROVE \E i \in I : raw[i] = n
    BY <2>3, FirstMention DEF Firsts
  <2> HIDE DEF I
  <2>4. name \in Injection(I, S)
    BY <2>1, <2>2 DEF Injection, IsInjective
  <2>5. name \in Surjection(I, S)
    BY <2>1, <2>3 DEF Surjection
  <2> QED BY <2>4, <2>5 DEF Bijection
<1>4. Cardinality(S) = card
  <2>1. ExistsBijection(I, S)
    BY <1>3 DEF ExistsBijection
  <2> QED BY <1>2, <2>1, FS_Bijection
<1>5. card \in Nat
  BY <1>2, FS_CardinalityType
<1>6. \A k \in 1..card : at(k) \in I /\ Rank(I, at(k)) = k - 1
  <2> TAKE k \in 1..card
  <2>1. k - 1 \in 0..(card - 1)
    BY <1>5
  <2>2. \E i \in I : Rank(I, i) = k - 1
    BY <1>2, <2>1, Ranks
  <2> QED BY <2>2 DEF Rank
<1>7. \A i \in I : \E k \in 1..card : at(k) = i
  <2> TAKE i \in I
  <2> DEFINE k == Rank(I, i) + 1
  <2>1. k \in 1..card /\ k - 1 = Rank(I, i)
    <3>1. Rank(I, i) \in 0..(card - 1)
      BY <1>2, Ranks
    <3> QED BY <1>5, <3>1
  <2>2. at(k) \in I /\ Rank(I, at(k)) = Rank(I, i)
    BY <1>6, <2>1
  <2> HIDE DEF k, at
  <2>3. at(k) = i
    BY <1>2, <2>2, Ranks
  <2> QED BY <2>1, <2>3
<1>8. Keep(S, raw) = [k \in 1..card |-> raw[at(k)]]
  BY DEF Keep
<1>9. \A n : n \in S <=> \E i \in I : raw[i] = n
  <2> HIDE DEF I
  <2> QED BY <1>3 DEF Bijection, Injection, Surjection
<1> HIDE DEF I, card, at, name
<1>10. Keep(S, raw) \in [1..card -> X]
  BY <1>2, <1>6, <1>8
<1>11. Keep(S, raw) \in Seq(X) /\ Len(Keep(S, raw)) = card
  BY <1>5, <1>10
<1>12. ToSet(Keep(S, raw)) = {raw[at(k)] : k \in 1..card}
  BY <1>8 DEF ToSet
<1>13. {raw[at(k)] : k \in 1..card} = S
  BY <1>6, <1>7, <1>9
<1> QED BY <1>4, <1>11, <1>12, <1>13

(***************************************************************************)
(* The inductive invariant.                                                *)
(***************************************************************************)
FilesOK ==
  /\ there \subseteq Names /\ dirty \subseteq Paths /\ litter \subseteq Names \cup {Base}
  /\ disk = [p \in Paths |-> disk[p]]
  /\ \A p \in Paths : disk[p].st \in {"none", "empty", "cut", "whole"}

CallersOK ==
  /\ pc \in [Callers -> Stages] /\ cmd \in [Callers -> Asked \cup {NoCmd}]
  /\ seen \in [Callers -> SUBSET Names]
  /\ text = [c \in Callers |-> text[c]]
  /\ todo \in [Callers -> SUBSET (SeedNames \cup PresetFiles \cup {"temp"})]

BoundsOK ==
  calls \in 0..MaxCalls /\ crashes \in Nat /\ fails \in Nat /\ crashes + fails <= MaxTroubles

\* A caller is where its command brings it.
Stage(c) ==
  /\ pc[c] \in {"seed", "seedwrite"} => todo[c] \subseteq SeedNames
  /\ pc[c] \in {"copy", "copying"} => cmd[c].op = "copy"
  /\ pc[c] = "copying" => todo[c] \subseteq PresetFiles \cup {"temp"}
  /\ pc[c] = "rename" => cmd[c].op = "rename" /\ ~Refused(cmd[c])
  /\ pc[c] \in {"order", "listed"} => cmd[c].op \in Lists /\ ~Refused(cmd[c])
  /\ pc[c] = "rmdir" => cmd[c].op = "delete" /\ ~Refused(cmd[c])
  /\ pc[c] \in {"open", "plain"} => cmd[c].op \in {"put", "write"}

\* What may be renamed over a document is all there, and on the disk.
Temp(c) ==
  /\ tmp[c] = [at |-> tmp[c].at, file |-> tmp[c].file, synced |-> tmp[c].synced]
  /\ tmp[c].at \in Names \cup {Base, None}
  /\ tmp[c].at # None => pc[c] \in {"fill", "sync", "publish"}
  /\ tmp[c].at # None => tmp[c].file.st \in {"empty", "whole"}
  /\ tmp[c].at # None /\ pc[c] \in {"sync", "publish"} => tmp[c].file.st = "whole"
  /\ tmp[c].at # None /\ pc[c] = "publish" => tmp[c].synced
  /\ tmp[c].at = Base => DirOf(cmd[c].path) = Base
TempsOK == tmp = [c \in Callers |-> tmp[c]] /\ \A c \in Callers : Temp(c)

\* The documents have reached the disk: no crash can cut them.
Synced == dirty \cap Atomic = {}

\* The presets have been seeded, as far as a caller relies on it.
Seeded(c) ==
  /\ pc[c] \in {"copy", "copying", "seedwrite", "order", "listed"} => Seeds[1] \in there
  /\ pc[c] = "seed" => todo[c] = SeedNames \/ Seeds[1] \in there
  /\ pc[c] \in {"body", "write"} /\ cmd[c].op \in Lists => Seeds[1] \in there
SeedsKept == (there # {} => Seeds[1] \in there) /\ \A c \in Callers : Seeded(c)

Typed == FilesOK /\ CallersOK /\ BoundsOK /\ TempsOK /\ \A c \in Callers : Stage(c)

\* A list is complete from the moment it is made until it is on the disk.
Order == <<Base, "order">>
OrderNames == disk[Order].v \in Seq(Names)
Complete(c) ==
  /\ text[c] \in Seq(Names)
  /\ ToSet(text[c]) = seen[c] /\ Len(text[c]) = Cardinality(seen[c])
Listed(c) ==
  /\ pc[c] = "listed" \/ (cmd[c].op = "reorder" /\ pc[c] \in Writing) => Complete(c)
  /\ cmd[c].op = "reorder" /\ pc[c] \in {"sync", "publish"} /\ tmp[c].at # None =>
       tmp[c].file.v \in Seq(Names)
ListsKept == OrderNames /\ \A c \in Callers : Listed(c)

IInv == Typed /\ Synced /\ ConfWhole /\ SeedsKept /\ NothingLeftBehind /\ ListsKept

(***************************************************************************)
(* What commands look like                                                 *)
(***************************************************************************)
LEMMA Constants ==
  /\ SeedNames \subseteq Names /\ Seeds[1] \in SeedNames
  /\ Base \notin Names /\ None \notin Names \cup {Base}
PROOF
<1>1. Seeds \in Seq(Names) /\ Seeds # <<>>
  BY StoreAssumption
<1>2. DOMAIN Seeds = 1..Len(Seeds) /\ Len(Seeds) \in Nat /\ Len(Seeds) # 0
  BY <1>1
<1>3. SeedNames = {Seeds[i] : i \in DOMAIN Seeds}
  BY DEF SeedNames, ToSet
<1>4. 1 \in DOMAIN Seeds
  BY <1>2
<1> QED BY <1>1, <1>2, <1>3, <1>4, StoreAssumption

LEMMA PathOf ==
  ASSUME NEW m \in Asked \cup {NoCmd}
  PROVE  /\ m.path \in Paths
         /\ m.op \in {"put", "write", "erase", "none"} => m.path \notin Atomic
         /\ m.op \in {"copy", "rename", "delete", "settings", "mcp"} => m.name \in Names
         /\ m.op \in {"copy", "rename"} => m.to \in Names
         /\ m.op = "reorder" => m.arg \in Seq(Names)
         /\ m.path = Order => m.op = "reorder"
PROOF
<1> DEFINE Fine ==
      /\ m.path \in Paths
      /\ m.op \in {"put", "write", "erase", "none"} => m.path \notin Atomic
      /\ m.op \in {"copy", "rename", "delete", "settings", "mcp"} => m.name \in Names
      /\ m.op \in {"copy", "rename"} => m.to \in Names
      /\ m.op = "reorder" => m.arg \in Seq(Names)
      /\ m.path = Order => m.op = "reorder"
<1> SUFFICES Fine
  OBVIOUS
<1> HIDE DEF Fine
<1>1. /\ <<Base, "plan">> \in Paths /\ <<Base, "object">> \in Paths
      /\ <<Base, "order">> \in Paths /\ <<Base, "label">> \in Paths
      /\ \A d \in Documents : <<Base, d>> \in Paths
      /\ \A n \in Names : <<n, "settings">> \in Paths /\ <<n, "mcp">> \in Paths
  BY DEF Paths, BaseFiles, PresetFiles
<1>2. <<Base, "plan">> \notin Atomic /\ <<Base, "object">> \notin Atomic
  BY StoreAssumption DEF Atomic
<1>3. /\ Order \notin {<<Base, "plan">>, <<Base, "object">>, <<Base, "label">>}
      /\ \A d \in Documents : Order # <<Base, d>>
      /\ \A n \in Names : \A f : Order # <<n, f>>
  BY StoreAssumption, Constants DEF Order
<1>4. CASE m = NoCmd
  <2>1. m.op = "none" /\ m.path = <<Base, "plan">>
    BY <1>4 DEF NoCmd
  <2> QED BY <1>1, <1>2, <1>3, <2>1 DEF Fine
<1>5. CASE m \in {Between("list", None, None)}
  <2>1. m.op = "list" /\ m.path = <<Base, "plan">>
    BY <1>5 DEF Between, NoCmd
  <2> QED BY <1>1, <1>3, <2>1 DEF Fine
<1>6. CASE m \in PlainCommands
  <2>1. m.op \in {"put", "write", "erase"} /\ m.path \in {<<Base, "object">>, <<Base, "plan">>}
    BY <1>6 DEF PlainCommands, Write, NoCmd
  <2> QED BY <1>1, <1>2, <1>3, <2>1 DEF Fine
<1>7. CASE m \in {Between("copy", s, d) : s \in Names, d \in Names}
  <2>1. PICK s \in Names, d \in Names : m = Between("copy", s, d)
    BY <1>7
  <2>2. m.op = "copy" /\ m.name = s /\ m.to = d /\ m.path = <<Base, "plan">>
    BY <2>1 DEF Between, NoCmd
  <2> QED BY <1>1, <1>3, <2>2 DEF Fine
<1>8. CASE m \in {Between("rename", s, d) : s \in Names, d \in Names}
  <2>1. PICK s \in Names, d \in Names : m = Between("rename", s, d)
    BY <1>8
  <2>2. m.op = "rename" /\ m.name = s /\ m.to = d /\ m.path = <<Base, "plan">>
    BY <2>1 DEF Between, NoCmd
  <2> QED BY <1>1, <1>3, <2>2 DEF Fine
<1>9. CASE m \in {Between("delete", n, None) : n \in Names}
  <2>1. PICK n \in Names : m = Between("delete", n, None)
    BY <1>9
  <2>2. m.op = "delete" /\ m.name = n /\ m.path = <<Base, "plan">>
    BY <2>1 DEF Between, NoCmd
  <2> QED BY <1>1, <1>3, <2>2 DEF Fine
<1>10. CASE m \in {Write("reorder", "order", r) : r \in Raw}
  <2>1. PICK r \in Raw : m = Write("reorder", "order", r)
    BY <1>10
  <2>2. m.op = "reorder" /\ m.path = <<Base, "order">> /\ m.arg = r
    BY <2>1 DEF Write, NoCmd
  <2> QED BY <1>1, <1>3, <2>2, StoreAssumption DEF Fine
<1>11. CASE m \in {OfPreset("settings", n, <<f, v>>) : n \in Names, f \in 1..2, v \in Values}
  <2>1. PICK n \in Names, f \in 1..2, v \in Values : m = OfPreset("settings", n, <<f, v>>)
    BY <1>11
  <2>2. m.op = "settings" /\ m.name = n /\ m.path = <<n, "settings">>
    BY <2>1 DEF OfPreset, NoCmd
  <2> QED BY <1>1, <1>3, <2>2 DEF Fine
<1>12. CASE m \in {OfPreset("mcp", n, <<1>>) : n \in Names}
  <2>1. PICK n \in Names : m = OfPreset("mcp", n, <<1>>)
    BY <1>12
  <2>2. m.op = "mcp" /\ m.name = n /\ m.path = <<n, "mcp">>
    BY <2>1 DEF OfPreset, NoCmd
  <2> QED BY <1>1, <1>3, <2>2 DEF Fine
<1>13. CASE m \in {Write("sync", d, <<v>>) : d \in Documents, v \in Values}
  <2>1. PICK d \in Documents, v \in Values : m = Write("sync", d, <<v>>)
    BY <1>13
  <2>2. m.op = "sync" /\ m.path = <<Base, d>>
    BY <2>1 DEF Write, NoCmd
  <2> QED BY <1>1, <1>3, <2>2 DEF Fine
<1>14. CASE m \in {Write("label", "label", a) : a \in LabelTexts}
  <2>1. PICK a \in LabelTexts : m = Write("label", "label", a)
    BY <1>14
  <2>2. m.op = "label" /\ m.path = <<Base, "label">>
    BY <2>1 DEF Write, NoCmd
  <2> QED BY <1>1, <1>3, <2>2 DEF Fine
<1> QED
  <2>1. m = NoCmd \/ m \in PresetCommands \/ m \in BaseCommands
    BY AskedAssumption DEF Commands
  <2>2. CASE m \in PresetCommands
    <3> DEFINE lists    == {Between("list", None, None)}
               copies   == {Between("copy", s, d) : s \in Names, d \in Names}
               renames  == {Between("rename", s, d) : s \in Names, d \in Names}
               deletes  == {Between("delete", n, None) : n \in Names}
               settings == {OfPreset("settings", n, <<f, v>>) : n \in Names, f \in 1..2, v \in Values}
               mcps     == {OfPreset("mcp", n, <<1>>) : n \in Names}
    <3>1. PresetCommands = lists \cup copies \cup renames \cup deletes \cup settings \cup mcps
      BY DEF PresetCommands
    <3>2. /\ m \in lists => Fine
          /\ m \in copies => Fine
          /\ m \in renames => Fine
          /\ m \in deletes => Fine
          /\ m \in settings => Fine
          /\ m \in mcps => Fine
      BY <1>5, <1>7, <1>8, <1>9, <1>11, <1>12
    <3> HIDE DEF lists, copies, renames, deletes, settings, mcps
    <3> QED BY <2>2, <3>1, <3>2
  <2>3. CASE m \in BaseCommands
    <3>1. \/ m \in PlainCommands
          \/ m \in {Write("reorder", "order", r) : r \in Raw}
          \/ m \in {Write("sync", d, <<v>>) : d \in Documents, v \in Values}
          \/ m \in {Write("label", "label", a) : a \in LabelTexts}
      BY <2>3 DEF BaseCommands
    <3> QED BY <3>1, <1>6, <1>10, <1>13, <1>14
  <2> QED BY <2>1, <2>2, <2>3, <1>4

LEMMA InitInv == Init => IInv
PROOF
<1> SUFFICES ASSUME Init PROVE IInv
  OBVIOUS
<1> USE StoreAssumption, Constants DEF Init, NoTemp, Missing, Empty, Whole
<1>1. PICK old \in {{}} \cup {SeedNames \cup more : more \in SUBSET (Names \ SeedNames)},
           order \in {Missing} \cup {Whole(r) : r \in Raw} :
        /\ there = old
        /\ disk = [p \in Paths |->
             IF p = <<Base, "order">> THEN order
             ELSE IF p[1] \in old /\ p[2] = "settings" THEN Whole(Fresh) ELSE Missing]
  OBVIOUS
<1>2. there \subseteq Names /\ (there # {} => Seeds[1] \in there)
  BY <1>1
<1>3. \A p \in Paths : disk[p].st \in {"none", "whole"}
  BY <1>1
<1>4. FilesOK
  BY <1>1, <1>2, <1>3 DEF FilesOK
<1>5. CallersOK /\ BoundsOK
  BY DEF CallersOK, BoundsOK, Stages
<1>6. TempsOK /\ \A c \in Callers : Stage(c)
  BY DEF TempsOK, Temp, Stage
<1>7. Atomic \subseteq Paths
  BY DEF Atomic, Paths, BaseFiles
<1>8. Synced /\ ConfWhole /\ SeedsKept /\ NothingLeftBehind
  BY <1>2, <1>3, <1>7 DEF Synced, ConfWhole, SeedsKept, Seeded, NothingLeftBehind
<1>9. ListsKept
  <2>1. Order \in Paths
    BY DEF Order, Paths, BaseFiles
  <2>2. order.v \in Seq(Names)
    <3>1. CASE order = Missing
      BY <3>1
    <3>2. CASE \E r \in Raw : order = Whole(r)
      BY <3>2
    <3> QED BY <1>1, <3>1, <3>2
  <2>3. disk[Order] = order
    BY <1>1, <2>1 DEF Order
  <2> QED BY <2>2, <2>3 DEF ListsKept, OrderNames, Listed, Writing
<1> QED BY <1>4, <1>5, <1>6, <1>8, <1>9 DEF IInv, Typed

(***************************************************************************)
(* The callers                                                             *)
(***************************************************************************)
LEMMA CallersStep ==
  ASSUME Typed, NEW c \in Callers, Step(c)
  PROVE  CallersOK' /\ \A x \in Callers : Stage(x)'
PROOF
<1> USE DEF Typed, CallersOK, Stage, Stages, Go, files, locals, bounds
<1>1. NoCmd.op = "none"
  BY DEF NoCmd
<1>2. CASE Answer(c)
  BY <1>1, <1>2 DEF Answer
<1>3. CASE Begin(c)
  BY <1>3 DEF Begin
<1>4. CASE Ensure(c)
  BY <1>4 DEF Ensure
<1>5. CASE SeedDir(c)
  BY <1>5 DEF SeedDir
<1>6. CASE SeedWrite(c)
  BY <1>6 DEF SeedWrite
<1>7. CASE SeedFails(c) \/ Refuse(c) \/ ListPresets(c) \/ Copied(c) \/ RenamePreset(c) \/ RemoveDir(c)
           \/ WriteFails(c) \/ RenameTemp(c) \/ WritePlain(c) \/ PlainFails(c) \/ DeleteFile(c)
  BY <1>2, <1>7 DEF SeedFails, Refuse, ListPresets, Copied, RenamePreset, RemoveDir, WriteFails,
                    RenameTemp, WritePlain, PlainFails, DeleteFile
<1>8. CASE ReadNames(c)
  BY <1>8 DEF ReadNames, FilesOK
<1>9. CASE ReadOrder(c) \/ ReorderPresets(c)
  BY <1>9 DEF ReadOrder, ReorderPresets
<1>10. CASE CopyPreset(c)
  BY <1>2, <1>10 DEF CopyPreset
<1>11. CASE CopyDir(c)
  <2>1. Present(cmd[c].name) \cup (IF HasTemp(cmd[c].name) THEN {"temp"} ELSE {}) \subseteq PresetFiles \cup {"temp"}
    BY DEF Present
  <2> QED BY <1>2, <1>11, <2>1 DEF CopyDir
<1>12. CASE CopyFile(c)
  BY <1>2, <1>12 DEF CopyFile
<1>13. CASE DeletePreset(c)
  BY <1>2, <1>13 DEF DeletePreset
<1>14. CASE SyncSettings(c) \/ SyncDocument(c) \/ SyncLabel(c)
  BY <1>2, <1>14 DEF SyncSettings, SyncDocument, SyncLabel
<1>15. CASE CreateTemp(c) \/ FillTemp(c) \/ SyncTemp(c)
  BY <1>2, <1>15 DEF CreateTemp, FillTemp, SyncTemp
<1>16. CASE OpenPlain(c) \/ TruncatePlain(c)
  BY <1>2, <1>16 DEF OpenPlain, TruncatePlain
<1> QED
  BY <1>3, <1>4, <1>5, <1>6, <1>7, <1>8, <1>9, <1>10, <1>11, <1>12, <1>13, <1>14, <1>15, <1>16 DEF Step

(***************************************************************************)
(* The files                                                               *)
(***************************************************************************)
LEMMA PathParts ==
  /\ \A p \in Paths : /\ p[1] \in Names \cup {Base}
                      /\ p[1] \in Names => p[2] \in PresetFiles
  /\ \A n \in Names, f \in PresetFiles : <<n, f>> \in Paths
  /\ \A p \in Atomic : p \in Paths /\ p[1] = Base
PROOF BY Constants DEF Paths, Atomic, BaseFiles

LEMMA Places ==
  ASSUME Typed, NEW c \in Callers
  PROVE  /\ cmd[c].path \in Paths /\ DirOf(cmd[c].path) \in Names \cup {Base}
         /\ pc[c] \in {"copy", "copying", "rename"} => cmd[c].name \in Names /\ cmd[c].to \in Names
         /\ cmd[c].op \in {"delete", "settings", "mcp"} => cmd[c].name \in Names
         /\ pc[c] \in {"open", "plain"} \/ cmd[c].op \in {"put", "write", "erase"} =>
              cmd[c].path \notin Atomic
PROOF BY PathOf, PathParts DEF Typed, CallersOK, Stage, DirOf

LEMMA FilesStep ==
  ASSUME Typed, NEW c \in Callers, Step(c)
  PROVE  FilesOK'
PROOF
<1>1. FilesOK
  BY DEF Typed
<1>2. \A n \in NextSeed(c) : n \in todo[c]
  BY DEF NextSeed
<1>3. pc[c] \in {"seed", "seedwrite"} => todo[c] \subseteq Names
  BY Constants DEF Typed, Stage
<1> USE PathParts, <1>1 DEF FilesOK, Missing, Empty, Cut, Whole, files, PresetFiles
<1>4. CASE UNCHANGED files
  BY <1>4
<1>5. CASE SeedDir(c)
  <2>1. PICK n \in NextSeed(c) : /\ there' = there \cup {n}
                                 /\ disk' = [disk EXCEPT ![<<n, "settings">>] = Empty]
                                 /\ dirty' = dirty \cup {<<n, "settings">>}
    BY <1>5 DEF SeedDir
  <2>2. n \in Names /\ litter' = litter
    BY <1>2, <1>3, <1>5, <2>1 DEF SeedDir, Go
  <2>3. <<n, "settings">> \in Paths
    BY <2>2
  <2>4. there' \subseteq Names /\ dirty' \subseteq Paths
    BY <2>1, <2>2, <2>3
  <2> QED BY <2>1, <2>2, <2>3, <2>4
<1>6. CASE SeedWrite(c)
  BY <1>2, <1>3, <1>6 DEF SeedWrite, Go
<1>7. CASE SeedFails(c)
  BY <1>2, <1>3, <1>7 DEF SeedFails
<1>8. CASE CopyDir(c)
  BY <1>8, Places DEF CopyDir
<1>9. CASE CopyFile(c)
  <2>1. cmd[c].name \in Names /\ cmd[c].to \in Names /\ todo[c] \subseteq PresetFiles \cup {"temp"}
    BY <1>9, Places DEF CopyFile, Typed, Stage
  <2>2. CASE UNCHANGED <<disk, dirty, litter>>
    BY <1>9, <2>2 DEF CopyFile
  <2>3. CASE UNCHANGED <<disk, dirty>> /\ litter' = litter \cup {cmd[c].to}
    BY <1>9, <2>1, <2>3 DEF CopyFile
  <2>4. CASE UNCHANGED litter /\ \E f \in PresetFiles :
                 /\ disk' = [disk EXCEPT ![<<cmd[c].to, f>>] = disk[<<cmd[c].name, f>>]]
                 /\ dirty' = dirty \cup {<<cmd[c].to, f>>}
    <3>1. PICK f \in PresetFiles : /\ disk' = [disk EXCEPT ![<<cmd[c].to, f>>] = disk[<<cmd[c].name, f>>]]
                                    /\ dirty' = dirty \cup {<<cmd[c].to, f>>}
      BY <2>4
    <3>2. <<cmd[c].to, f>> \in Paths /\ <<cmd[c].name, f>> \in Paths
      BY <2>1
    <3>3. dirty' \subseteq Paths
      BY <3>1, <3>2
    <3>4. there' = there /\ litter' = litter
      BY <1>9, <2>4 DEF CopyFile
    <3> QED BY <3>1, <3>2, <3>3, <3>4
  <2> QED BY <1>9, <2>1, <2>2, <2>3, <2>4 DEF CopyFile
<1>10. CASE RenamePreset(c)
  <2>1. cmd[c].name \in Names /\ cmd[c].to \in Names
    BY <1>10, Places DEF RenamePreset
  <2>2. CASE UNCHANGED files
    BY <2>2
  <2>3. CASE ~UNCHANGED files
    <3> DEFINE old == cmd[c].name
               new == cmd[c].to
    <3>1. /\ there' = (there \ {old}) \cup {new}
          /\ disk' = [p \in Paths |-> IF p[1] = new THEN disk[<<old, p[2]>>]
                                      ELSE IF p[1] = old THEN Missing ELSE disk[p]]
          /\ dirty' = {p \in dirty : p[1] \notin {old, new}}
                      \cup {<<new, p[2]>> : p \in {q \in dirty : q[1] = old}}
          /\ litter' = {IF d = old THEN new ELSE d : d \in litter}
      BY <1>10, <2>3 DEF RenamePreset
    <3>2. there' \subseteq Names /\ litter' \subseteq Names \cup {Base}
      BY <2>1, <3>1
    <3>3. \A q \in dirty : q[1] = old => q[2] \in PresetFiles
      BY <2>1
    <3>4. dirty' \subseteq Paths
      BY <2>1, <3>1, <3>3
    <3>5. \A p \in Paths : p[1] = new => <<old, p[2]>> \in Paths
      BY <2>1
    <3>6. disk' = [p \in Paths |-> disk'[p]] /\ \A p \in Paths : disk'[p].st \in {"none", "empty", "cut", "whole"}
      BY <3>1, <3>5
    <3> QED BY <3>2, <3>4, <3>6
  <2> QED BY <2>2, <2>3
<1>11. CASE DeletePreset(c)
  BY <1>11 DEF DeletePreset
<1>12. CASE RemoveDir(c)
  BY <1>12 DEF RemoveDir
<1>13. CASE SyncLabel(c)
  BY <1>13 DEF SyncLabel
<1>14. CASE CreateTemp(c) \/ FillTemp(c) \/ SyncTemp(c)
  BY <1>14 DEF CreateTemp, FillTemp, SyncTemp
<1>15. CASE WriteFails(c)
  BY <1>15 DEF WriteFails, GiveUp, Typed, TempsOK, Temp, TempOf
<1>16. CASE RenameTemp(c)
  <2>1. /\ tmp[c].at \in Names \cup {Base, None} /\ (tmp[c].at # None => tmp[c].file.st = "whole")
        /\ cmd[c].path \in Paths /\ None \notin Names \cup {Base} /\ DirOf(cmd[c].path) \in Names \cup {Base}
    BY <1>16, Places, Constants DEF Typed, TempsOK, Temp, RenameTemp
  <2>2. CASE tmp[c].at = DirOf(cmd[c].path)
    BY <1>16, <2>1, <2>2 DEF RenameTemp, TempOf
  <2>3. CASE tmp[c].at # DirOf(cmd[c].path)
    BY <1>16, <2>1, <2>3 DEF RenameTemp, TempOf, GiveUp
  <2> QED BY <2>2, <2>3
<1>17. CASE TruncatePlain(c) \/ WritePlain(c) \/ PlainFails(c) \/ DeleteFile(c)
  BY <1>17, Places DEF TruncatePlain, WritePlain, PlainFails, DeleteFile
<1>18. CASE \/ Begin(c) \/ Ensure(c) \/ Refuse(c) \/ ReadNames(c) \/ ReadOrder(c) \/ ListPresets(c)
            \/ ReorderPresets(c) \/ CopyPreset(c) \/ Copied(c) \/ SyncSettings(c) \/ SyncDocument(c)
            \/ OpenPlain(c)
  BY <1>4, <1>18 DEF Begin, Ensure, Refuse, ReadNames, ReadOrder, ListPresets, ReorderPresets, CopyPreset,
                     Copied, SyncSettings, SyncDocument, OpenPlain
<1> QED
  BY <1>5, <1>6, <1>7, <1>8, <1>9, <1>10, <1>11, <1>12, <1>13, <1>14, <1>15, <1>16, <1>17, <1>18 DEF Step

LEMMA BoundsStep ==
  ASSUME Typed, NEW c \in Callers, Step(c)
  PROVE  BoundsOK'
PROOF
<1> USE StoreAssumption DEF Typed, BoundsOK, bounds
<1>1. CASE Begin(c)
  BY <1>1 DEF Begin
<1>2. CASE SeedFails(c) \/ WriteFails(c) \/ PlainFails(c)
  BY <1>2 DEF SeedFails, WriteFails, PlainFails
<1>3. CASE UNCHANGED bounds
  BY <1>3
<1> QED
  BY <1>1, <1>2, <1>3 DEF Step, Ensure, SeedDir, SeedWrite, Refuse, ReadNames, ReadOrder, ListPresets,
     ReorderPresets, CopyPreset, CopyDir, CopyFile, Copied, RenamePreset, DeletePreset, RemoveDir,
     SyncSettings, SyncDocument, SyncLabel, CreateTemp, FillTemp, SyncTemp, RenameTemp, OpenPlain,
     TruncatePlain, WritePlain, DeleteFile

\* A step of one caller leaves the others where they are.
LEMMA OthersStay ==
  ASSUME Typed, NEW c \in Callers, Step(c), NEW x \in Callers, x # c
  PROVE  /\ pc'[x] = pc[x] /\ cmd'[x] = cmd[x] /\ todo'[x] = todo[x]
         /\ seen'[x] = seen[x] /\ text'[x] = text[x]
PROOF
<1> USE DEF Typed, CallersOK, Go, files, locals, bounds
<1>1. CASE Answer(c)
  BY <1>1 DEF Answer
<1>2. CASE Begin(c) \/ Ensure(c) \/ SeedDir(c) \/ SeedWrite(c)
  BY <1>2 DEF Begin, Ensure, SeedDir, SeedWrite
<1>3. CASE SeedFails(c) \/ Refuse(c) \/ ListPresets(c) \/ Copied(c) \/ RenamePreset(c) \/ RemoveDir(c)
           \/ WriteFails(c) \/ RenameTemp(c) \/ WritePlain(c) \/ PlainFails(c) \/ DeleteFile(c)
  BY <1>1, <1>3 DEF SeedFails, Refuse, ListPresets, Copied, RenamePreset, RemoveDir, WriteFails,
                    RenameTemp, WritePlain, PlainFails, DeleteFile
<1>4. CASE ReadNames(c) \/ ReadOrder(c) \/ ReorderPresets(c)
  BY <1>4 DEF ReadNames, ReadOrder, ReorderPresets
<1>5. CASE CopyPreset(c)
  BY <1>1, <1>5 DEF CopyPreset
<1>6. CASE CopyDir(c)
  BY <1>1, <1>6 DEF CopyDir
<1>7. CASE CopyFile(c)
  BY <1>1, <1>7 DEF CopyFile
<1>8. CASE DeletePreset(c)
  BY <1>1, <1>8 DEF DeletePreset
<1>9. CASE SyncSettings(c) \/ SyncDocument(c) \/ SyncLabel(c)
  BY <1>1, <1>9 DEF SyncSettings, SyncDocument, SyncLabel
<1>10. CASE CreateTemp(c) \/ FillTemp(c) \/ SyncTemp(c)
  BY <1>1, <1>10 DEF CreateTemp, FillTemp, SyncTemp
<1>11. CASE OpenPlain(c) \/ TruncatePlain(c)
  BY <1>1, <1>11 DEF OpenPlain, TruncatePlain
<1> QED
  BY <1>2, <1>3, <1>4, <1>5, <1>6, <1>7, <1>8, <1>9, <1>10, <1>11 DEF Step

(***************************************************************************)
(* The temporary files                                                     *)
(***************************************************************************)
\* Only write_file_atomic makes temporary files; a preset that is renamed or
\* deleted takes those in its directory with it.
LEMMA TempsStep ==
  ASSUME Typed, NEW c \in Callers, Step(c)
  PROVE  TempsOK'
PROOF
<1>1. /\ \A x \in Callers : Temp(x)
      /\ tmp = [x \in Callers |-> tmp[x]]
  BY DEF Typed, TempsOK
<1>2. \A x \in Callers \ {c} : pc'[x] = pc[x] /\ cmd'[x] = cmd[x]
  BY OthersStay
<1>3. pc \in [Callers -> Stages] /\ cmd = [x \in Callers |-> cmd[x]]
  BY DEF Typed, CallersOK
<1> DEFINE Outside == pc[c] \notin {"fill", "sync", "publish"}
\* One caller's file, or none; the others' stay.
<1>4. ASSUME tmp' = [tmp EXCEPT ![c] = NoTemp]
      PROVE  TempsOK'
  <2>1. Temp(c)'
    BY <1>1, <1>4, Constants DEF Temp, NoTemp
  <2>2. \A x \in Callers \ {c} : Temp(x)'
    BY <1>1, <1>2, <1>4 DEF Temp
  <2>3. tmp' = [x \in Callers |-> tmp'[x]]
    BY <1>1, <1>4
  <2> QED BY <2>1, <2>2, <2>3 DEF TempsOK
<1>5. ASSUME UNCHANGED tmp, Outside
      PROVE  TempsOK'
  <2>1. Temp(c)'
    BY <1>1, <1>5, Constants DEF Temp
  <2>2. \A x \in Callers \ {c} : Temp(x)'
    BY <1>1, <1>2, <1>5 DEF Temp
  <2>3. tmp' = [x \in Callers |-> tmp'[x]]
    BY <1>1, <1>5
  <2> QED BY <2>1, <2>2, <2>3 DEF TempsOK
<1>6. ASSUME NEW old \in Names, NEW new \in Names \cup {None}, Outside,
             tmp' = [t \in Callers |-> IF tmp[t].at = old THEN [tmp[t] EXCEPT !.at = new] ELSE tmp[t]]
      PROVE  TempsOK'
  <2>1. ASSUME NEW x \in Callers, tmp[x].at # old PROVE tmp'[x] = tmp[x]
    BY <1>1, <1>6, <2>1
  <2>2. ASSUME NEW x \in Callers, tmp[x].at = old
        PROVE  tmp'[x] = [at |-> new, file |-> tmp[x].file, synced |-> tmp[x].synced]
    BY <1>1, <1>6, <2>2 DEF Temp
  <2>3. old # None /\ new # Base
    BY Constants
  <2>4. tmp[c].at # old
    BY <1>1, <1>6, <2>3 DEF Temp
  <2>5. Temp(c)'
    BY <1>1, <1>6, <2>1, <2>4, Constants DEF Temp
  <2>6. ASSUME NEW x \in Callers \ {c} PROVE Temp(x)'
    <3>1. CASE tmp[x].at = old
      <4>0. x \in Callers
        OBVIOUS
      <4>7. tmp'[x] = [at |-> new, file |-> tmp[x].file, synced |-> tmp[x].synced]
        BY <2>2, <3>1, <4>0
      <4>1. tmp'[x].at = new /\ tmp'[x].file = tmp[x].file
        BY <4>7
      <4>6. tmp'[x].synced = tmp[x].synced
        BY <4>7
      <4>2. Temp(x) /\ tmp[x].at # None /\ pc'[x] = pc[x]
        BY <1>1, <1>2, <2>3, <3>1
      <4>3. tmp'[x] = [at |-> tmp'[x].at, file |-> tmp'[x].file, synced |-> tmp'[x].synced]
        BY <4>1, <4>6, <4>7
      <4>4. tmp[x].file.st \in {"empty", "whole"} /\ pc[x] \in {"fill", "sync", "publish"}
        BY <4>2 DEF Temp
      <4>5. /\ pc[x] \in {"sync", "publish"} => tmp[x].file.st = "whole"
            /\ pc[x] = "publish" => tmp[x].synced
        BY <4>2 DEF Temp
      <4> QED BY <2>3, <4>1, <4>2, <4>3, <4>4, <4>5, <4>6 DEF Temp
    <3>2. CASE tmp[x].at # old
      BY <1>1, <1>2, <2>1, <3>2 DEF Temp
    <3> QED BY <3>1, <3>2
  <2>7. tmp' = [x \in Callers |-> tmp'[x]]
    BY <1>6
  <2> QED BY <2>5, <2>6, <2>7 DEF TempsOK
<1> HIDE DEF Outside
<1>7. CASE CreateTemp(c)
  <2>1. CASE UNCHANGED tmp
    BY <1>5, <1>7, <2>1 DEF CreateTemp, Outside
  <2>2. CASE ~UNCHANGED tmp
    <3>1. /\ tmp' = [tmp EXCEPT ![c] = [at |-> DirOf(cmd[c].path), file |-> Empty, synced |-> FALSE]]
          /\ pc' = [pc EXCEPT ![c] = "fill"] /\ cmd' = cmd
      BY <1>7, <2>2 DEF CreateTemp, TempOf, Go, locals
    <3>2. DirOf(cmd[c].path) \in Names \cup {Base}
      BY Places
    <3>3. Temp(c)'
      BY <1>1, <1>3, <3>1, <3>2, Constants DEF Temp, Empty
    <3>4. \A x \in Callers \ {c} : Temp(x)'
      BY <1>1, <1>2, <3>1 DEF Temp
    <3> QED BY <1>1, <3>1, <3>3, <3>4 DEF TempsOK
  <2> QED BY <2>1, <2>2
<1>8. CASE FillTemp(c)
  <2>1. /\ tmp' = [tmp EXCEPT ![c].file = Whole(text[c])] /\ pc[c] = "fill"
        /\ pc' = [pc EXCEPT ![c] = "sync"] /\ cmd' = cmd
    BY <1>8 DEF FillTemp, TempOf, Go, locals
  <2>2. tmp'[c] = [at |-> tmp[c].at, file |-> Whole(text[c]), synced |-> tmp[c].synced]
    BY <1>1, <2>1 DEF Temp
  <2>3. Temp(c)'
    BY <1>1, <1>3, <2>1, <2>2 DEF Temp, Whole
  <2>4. \A x \in Callers \ {c} : Temp(x)'
    BY <1>1, <1>2, <2>1 DEF Temp
  <2> QED BY <1>1, <2>1, <2>3, <2>4 DEF TempsOK
<1>9. CASE SyncTemp(c)
  <2>1. /\ tmp' = [tmp EXCEPT ![c].synced = TRUE] /\ pc[c] = "sync"
        /\ pc' = [pc EXCEPT ![c] = "publish"] /\ cmd' = cmd
    BY <1>9 DEF SyncTemp, TempOf, Go, locals
  <2>2. tmp'[c] = [at |-> tmp[c].at, file |-> tmp[c].file, synced |-> TRUE]
    <3>1. tmp'[c] = [tmp[c] EXCEPT !.synced = TRUE]
      BY <1>1, <2>1
    <3>2. tmp[c] = [at |-> tmp[c].at, file |-> tmp[c].file, synced |-> tmp[c].synced]
      BY <1>1 DEF Temp
    <3> QED BY <3>1, <3>2
  <2>3. Temp(c)'
    BY <1>1, <1>3, <2>1, <2>2 DEF Temp
  <2>4. \A x \in Callers \ {c} : Temp(x)'
    BY <1>1, <1>2, <2>1 DEF Temp
  <2> QED BY <1>1, <2>1, <2>3, <2>4 DEF TempsOK
<1>10. CASE WriteFails(c) \/ RenameTemp(c)
  BY <1>4, <1>10 DEF WriteFails, RenameTemp, GiveUp, TempOf
<1>11. CASE RenamePreset(c)
  <2>1. CASE UNCHANGED files
    BY <1>5, <1>11, <2>1 DEF RenamePreset, Outside, files
  <2>2. CASE ~UNCHANGED files
    <3>1. cmd[c].name \in Names /\ cmd[c].to \in Names
      BY <1>11, Places DEF RenamePreset
    <3>2. Outside /\ tmp' = [t \in Callers |-> IF tmp[t].at = cmd[c].name
                                               THEN [tmp[t] EXCEPT !.at = cmd[c].to] ELSE tmp[t]]
      BY <1>11, <2>2 DEF RenamePreset, Outside
    <3> QED BY <1>6, <3>1, <3>2
  <2> QED BY <2>1, <2>2
<1>12. CASE DeletePreset(c)
  <2>1. CASE UNCHANGED tmp
    BY <1>5, <1>12, <2>1 DEF DeletePreset, Outside
  <2>2. CASE ~UNCHANGED tmp
    <3>1. cmd[c].name \in Names
      BY <1>12, Places DEF DeletePreset
    <3>2. Outside /\ tmp' = [t \in Callers |-> IF tmp[t].at = cmd[c].name
                                               THEN [tmp[t] EXCEPT !.at = None] ELSE tmp[t]]
      BY <1>12, <2>2 DEF DeletePreset, Outside
    <3> QED BY <1>6, <3>1, <3>2
  <2> QED BY <2>1, <2>2
<1>13. CASE \/ Begin(c) \/ Ensure(c) \/ SeedDir(c) \/ SeedWrite(c) \/ SeedFails(c) \/ Refuse(c)
            \/ ReadNames(c) \/ ReadOrder(c) \/ ListPresets(c) \/ ReorderPresets(c)
  <2>1. UNCHANGED tmp /\ Outside
    BY <1>13 DEF Begin, Ensure, SeedDir, SeedWrite, SeedFails, Refuse, ReadNames, ReadOrder, ListPresets,
                 ReorderPresets, Outside, files, Go
  <2> QED BY <1>5, <2>1
<1>14. CASE \/ CopyPreset(c) \/ CopyDir(c) \/ CopyFile(c) \/ Copied(c) \/ RemoveDir(c)
            \/ SyncSettings(c) \/ SyncDocument(c) \/ SyncLabel(c)
  <2>1. UNCHANGED tmp /\ Outside
    BY <1>14 DEF CopyPreset, CopyDir, CopyFile, Copied, RemoveDir, SyncSettings, SyncDocument, SyncLabel,
                 Outside, files, Go
  <2> QED BY <1>5, <2>1
<1>15. CASE OpenPlain(c) \/ TruncatePlain(c) \/ WritePlain(c) \/ PlainFails(c) \/ DeleteFile(c)
  <2>1. UNCHANGED tmp /\ Outside
    BY <1>15 DEF OpenPlain, TruncatePlain, WritePlain, PlainFails, DeleteFile, Outside, files, Go
  <2> QED BY <1>5, <2>1
<1> QED
  BY <1>7, <1>8, <1>9, <1>10, <1>11, <1>12, <1>13, <1>14, <1>15 DEF Step

(***************************************************************************)
(* The documents                                                           *)
(***************************************************************************)
\* Nothing but a synced temporary file is put in a document's place.
LEMMA StoreStep ==
  ASSUME Typed, Synced, ConfWhole, NEW c \in Callers, Step(c)
  PROVE  Synced' /\ ConfWhole'
PROOF
<1>1. /\ disk = [p \in Paths |-> disk[p]]
      /\ \A p \in Atomic : p \in Paths /\ p[1] = Base /\ p \notin dirty /\ disk[p].st \in {"none", "whole"}
  BY PathParts DEF Typed, FilesOK, Synced, ConfWhole
<1>2. ASSUME \A p \in Atomic : /\ p \notin dirty'
                               /\ disk'[p] = disk[p] \/ disk'[p].st \in {"none", "whole"}
      PROVE  Synced' /\ ConfWhole'
  BY <1>1, <1>2 DEF Synced, ConfWhole
<1>3. CASE UNCHANGED <<disk, dirty>>
  BY <1>1, <1>2, <1>3
<1>4. ASSUME NEW n \in Names, NEW p \in Atomic PROVE p[1] # n
  BY <1>1, Constants
<1>5. \A n \in NextSeed(c) : pc[c] \in {"seed", "seedwrite"} => n \in Names
  BY Constants DEF NextSeed, Typed, Stage
<1>6. CASE SeedDir(c)
  BY <1>1, <1>2, <1>4, <1>5, <1>6 DEF SeedDir, Go
<1>7. CASE SeedWrite(c)
  BY <1>1, <1>2, <1>4, <1>5, <1>7 DEF SeedWrite, Go
<1>8. CASE SeedFails(c)
  BY <1>1, <1>2, <1>4, <1>5, <1>8 DEF SeedFails
<1>9. CASE CopyFile(c)
  <2>1. cmd[c].to \in Names
    BY <1>9, Places DEF CopyFile
  <2>2. \/ UNCHANGED <<disk, dirty>>
        \/ \E f \in todo[c] : /\ disk' = [disk EXCEPT ![<<cmd[c].to, f>>] = disk[<<cmd[c].name, f>>]]
                              /\ dirty' = dirty \cup {<<cmd[c].to, f>>}
    BY <1>9 DEF CopyFile
  <2> QED BY <1>1, <1>2, <1>3, <1>4, <2>1, <2>2
<1>10. CASE RenamePreset(c)
  <2>1. cmd[c].name \in Names /\ cmd[c].to \in Names
    BY <1>10, Places DEF RenamePreset
  <2>2. CASE UNCHANGED files
    BY <1>3, <2>2 DEF files
  <2>3. CASE ~UNCHANGED files
    <3> DEFINE old == cmd[c].name
               new == cmd[c].to
    <3>1. /\ disk' = [p \in Paths |-> IF p[1] = new THEN disk[<<old, p[2]>>]
                                      ELSE IF p[1] = old THEN Missing ELSE disk[p]]
          /\ dirty' = {p \in dirty : p[1] \notin {old, new}}
                      \cup {<<new, p[2]>> : p \in {q \in dirty : q[1] = old}}
      BY <1>10, <2>3 DEF RenamePreset
    <3>2. ASSUME NEW p \in Atomic PROVE p \notin dirty' /\ disk'[p] = disk[p]
      <4>1. p[1] # new /\ p[1] # old /\ p \in Paths
        BY <1>1, <1>4, <2>1
      <4>2. \A q \in dirty : p # <<new, q[2]>>
        BY <4>1
      <4> QED BY <1>1, <3>1, <4>1, <4>2
    <3> QED BY <1>2, <3>2
  <2> QED BY <2>2, <2>3
<1>11. CASE DeletePreset(c)
  <2>1. cmd[c].name \in Names
    BY <1>11, Places DEF DeletePreset
  <2> QED BY <1>1, <1>2, <1>4, <1>11, <2>1 DEF DeletePreset
<1>12. CASE SyncLabel(c)
  <2>1. cmd[c].path \in Paths
    BY Places
  <2> QED BY <1>1, <1>2, <1>12, <2>1 DEF SyncLabel, Missing
<1>13. CASE RenameTemp(c)
  <2>1. CASE tmp[c].at = DirOf(cmd[c].path)
    <3>1. tmp[c].synced /\ tmp[c].file.st = "whole" /\ cmd[c].path \in Paths
      BY <1>13, <2>1, Places, Constants DEF RenameTemp, Typed, TempsOK, Temp
    <3>2. disk' = [disk EXCEPT ![cmd[c].path] = tmp[c].file] /\ dirty' = dirty \ {cmd[c].path}
      BY <1>13, <2>1, <3>1 DEF RenameTemp, TempOf
    <3> QED BY <1>1, <1>2, <3>1, <3>2
  <2>2. CASE tmp[c].at # DirOf(cmd[c].path)
    BY <1>3, <1>13, <2>2 DEF RenameTemp, TempOf
  <2> QED BY <2>1, <2>2
<1>14. CASE TruncatePlain(c) \/ WritePlain(c) \/ PlainFails(c) \/ DeleteFile(c)
  <2>1. cmd[c].path \in Paths /\ cmd[c].path \notin Atomic
    BY <1>14, Places DEF TruncatePlain, WritePlain, PlainFails, DeleteFile, Go
  <2> QED BY <1>1, <1>2, <1>14, <2>1 DEF TruncatePlain, WritePlain, PlainFails, DeleteFile
<1>15. CASE \/ Begin(c) \/ Ensure(c) \/ Refuse(c) \/ ReadNames(c) \/ ReadOrder(c) \/ ListPresets(c)
            \/ ReorderPresets(c) \/ CopyPreset(c) \/ CopyDir(c) \/ Copied(c) \/ RemoveDir(c)
  BY <1>3, <1>15 DEF Begin, Ensure, Refuse, ReadNames, ReadOrder, ListPresets, ReorderPresets, CopyPreset,
                     CopyDir, Copied, RemoveDir, files
<1>16. CASE \/ SyncSettings(c) \/ SyncDocument(c) \/ CreateTemp(c) \/ FillTemp(c) \/ SyncTemp(c)
            \/ WriteFails(c) \/ OpenPlain(c)
  BY <1>3, <1>16 DEF SyncSettings, SyncDocument, CreateTemp, FillTemp, SyncTemp, WriteFails, OpenPlain, files
<1> QED
  BY <1>6, <1>7, <1>8, <1>9, <1>10, <1>11, <1>12, <1>13, <1>14, <1>15, <1>16 DEF Step

(***************************************************************************)
(* The seeds                                                               *)
(***************************************************************************)
\* No command takes a seed's directory away, and a caller that goes on has
\* found presets or has made the first seed's.
LEMMA SeedsStep ==
  ASSUME Typed, SeedsKept, NEW c \in Callers, Step(c)
  PROVE  SeedsKept'
PROOF
<1>1. /\ there # {} => Seeds[1] \in there
      /\ \A x \in Callers : Seeded(x)
      /\ pc \in [Callers -> Stages] /\ cmd = [x \in Callers |-> cmd[x]]
      /\ todo = [x \in Callers |-> todo[x]]
  BY DEF Typed, CallersOK, SeedsKept
<1>2. \A x \in Callers \ {c} : pc'[x] = pc[x] /\ cmd'[x] = cmd[x] /\ todo'[x] = todo[x]
  BY OthersStay
<1>3. Seeds[1] \in SeedNames
  BY Constants
\* The directories stay, or the first seed is among them.
<1>4. ASSUME there \subseteq there', there' # {} => Seeds[1] \in there', Seeded(c)'
      PROVE  SeedsKept'
  <2>1. \A x \in Callers \ {c} : Seeded(x)'
    BY <1>1, <1>2, <1>4 DEF Seeded
  <2> QED BY <1>4, <2>1 DEF SeedsKept
<1>5. ASSUME Seeds[1] \in there => Seeds[1] \in there', there' # {} => Seeds[1] \in there', Seeded(c)'
      PROVE  SeedsKept'
  <2>1. \A x \in Callers \ {c} : Seeded(x)'
    BY <1>1, <1>2, <1>5 DEF Seeded
  <2> QED BY <1>5, <2>1 DEF SeedsKept
<1>6. ASSUME Answer(c) PROVE Seeded(c)'
  BY <1>1, <1>6 DEF Answer, Seeded
<1>7. CASE Begin(c)
  BY <1>1, <1>4, <1>7 DEF Begin, Go, Seeded, files, Lists
<1>8. CASE Ensure(c)
  BY <1>1, <1>4, <1>8 DEF Ensure, Go, Seeded, files
<1>9. CASE SeedDir(c)
  <2>1. PICK n \in NextSeed(c) : there' = there \cup {n}
    BY <1>9 DEF SeedDir
  <2>2. todo[c] = SeedNames => n = Seeds[1]
    <3>1. ASSUME todo[c] = SeedNames PROVE n = Seeds[1]
      <4>1. PICK i \in DOMAIN Seeds : Seeds[i] = n /\ \A j \in 1..(i - 1) : Seeds[j] \notin SeedNames
        BY <3>1 DEF NextSeed
      <4>2. DOMAIN Seeds = 1..Len(Seeds) /\ Len(Seeds) \in Nat
        BY StoreAssumption
      <4>3. i = 1
        BY <1>3, <4>1, <4>2
      <4> QED BY <4>1, <4>3
    <3> QED BY <3>1
  <2>3. Seeds[1] \in there'
    BY <1>1, <1>9, <2>1, <2>2 DEF SeedDir, Go, Seeded
  <2>4. Seeded(c)'
    BY <1>1, <1>9, <2>3 DEF SeedDir, Go, Seeded, locals
  <2> QED BY <1>4, <2>1, <2>3, <2>4
<1>10. CASE SeedWrite(c)
  <2>1. Seeds[1] \in there /\ there' = there
    BY <1>1, <1>10 DEF SeedWrite, Go, Seeded
  <2>2. pc' \in [Callers -> Stages] /\ pc'[c] \in {"body", "seed"} /\ cmd' = cmd
    BY <1>1, <1>10 DEF SeedWrite, Go, Stages
  <2>3. Seeded(c)'
    BY <2>1, <2>2 DEF Seeded
  <2> QED BY <1>4, <2>1, <2>3
<1>11. CASE SeedFails(c) \/ Refuse(c) \/ ListPresets(c) \/ Copied(c) \/ WriteFails(c) \/ RenameTemp(c)
            \/ WritePlain(c) \/ PlainFails(c) \/ DeleteFile(c)
  <2>1. Answer(c) /\ there' = there
    BY <1>11 DEF SeedFails, Refuse, ListPresets, Copied, WriteFails, RenameTemp, WritePlain, PlainFails,
                 DeleteFile, files
  <2> QED BY <1>1, <1>4, <1>6, <2>1
<1>12. CASE ReadNames(c) \/ ReadOrder(c) \/ ReorderPresets(c)
  BY <1>1, <1>4, <1>12 DEF ReadNames, ReadOrder, ReorderPresets, Go, Seeded, files, Lists
<1>13. CASE CopyPreset(c)
  <2>1. CASE Answer(c)
    BY <1>1, <1>4, <1>6, <1>13, <2>1 DEF CopyPreset, files
  <2>2. CASE ~Answer(c)
    <3>1. cmd[c].name \in there /\ there' = there /\ cmd' = cmd /\ pc' = [pc EXCEPT ![c] = cmd[c].op]
          /\ cmd[c].op \in {"copy", "rename"}
      BY <1>13, <2>2 DEF CopyPreset, Go, locals, files
    <3>2. Seeded(c)'
      BY <1>1, <3>1 DEF Seeded, Lists
    <3> QED BY <1>1, <1>4, <3>1, <3>2
  <2> QED BY <2>1, <2>2
<1>14. CASE CopyDir(c)
  <2>1. Seeds[1] \in there /\ there \subseteq there'
    BY <1>1, <1>14 DEF CopyDir, Seeded
  <2>2. Answer(c) \/ pc' = [pc EXCEPT ![c] = "copying"]
    BY <1>14 DEF CopyDir, Go
  <2>3. Seeded(c)'
    BY <1>1, <1>6, <2>1, <2>2 DEF Seeded
  <2> QED BY <1>4, <2>1, <2>3
<1>15. CASE CopyFile(c)
  <2>1. Seeds[1] \in there /\ there' = there /\ (Answer(c) \/ pc' = pc)
    BY <1>1, <1>15 DEF CopyFile, Seeded
  <2>2. Seeded(c)'
    BY <1>1, <1>6, <1>15, <2>1 DEF CopyFile, Seeded
  <2> QED BY <1>4, <2>1, <2>2
<1>16. CASE RenamePreset(c)
  <2>1. Answer(c) /\ cmd[c].name # Seeds[1]
    BY <1>3, <1>16 DEF RenamePreset, Typed, Stage, Refused
  <2>2. CASE UNCHANGED files
    BY <1>1, <1>4, <1>6, <2>1, <2>2 DEF files
  <2>3. CASE ~UNCHANGED files
    <3>1. cmd[c].name \in there /\ there' = (there \ {cmd[c].name}) \cup {cmd[c].to}
      BY <1>16, <2>3 DEF RenamePreset
    <3> QED BY <1>1, <1>5, <1>6, <2>1, <3>1
  <2> QED BY <2>2, <2>3
<1>17. CASE DeletePreset(c)
  <2>1. there' = there /\ (Answer(c) \/ pc' = [pc EXCEPT ![c] = "rmdir"])
    BY <1>17 DEF DeletePreset, Go
  <2> QED BY <1>1, <1>4, <1>6, <2>1 DEF Seeded
<1>18. CASE RemoveDir(c)
  <2>1. Answer(c) /\ cmd[c].name # Seeds[1] /\ there' \in {there, there \ {cmd[c].name}}
    BY <1>3, <1>18 DEF RemoveDir, Typed, Stage, Refused
  <2> QED BY <1>1, <1>5, <1>6, <2>1
<1>19. CASE SyncSettings(c) \/ SyncDocument(c) \/ SyncLabel(c)
  <2>1. /\ there' = there /\ cmd[c].op \notin Lists
        /\ Answer(c) \/ (pc' = [pc EXCEPT ![c] = "write"] /\ cmd' = cmd)
    BY <1>19 DEF SyncSettings, SyncDocument, SyncLabel, Go, files, Lists
  <2>2. Seeded(c)'
    BY <1>1, <1>6, <2>1 DEF Seeded
  <2> QED BY <1>1, <1>4, <2>1, <2>2
<1>20. CASE CreateTemp(c) \/ FillTemp(c) \/ SyncTemp(c) \/ TruncatePlain(c)
  <2>1. /\ there' = there
        /\ Answer(c) \/ pc' \in {[pc EXCEPT ![c] = s] : s \in {"fill", "sync", "publish", "plain"}}
    BY <1>20 DEF CreateTemp, FillTemp, SyncTemp, TruncatePlain, Go
  <2> QED BY <1>1, <1>4, <1>6, <2>1 DEF Seeded
<1>21. CASE OpenPlain(c)
  <2>1. there' = there /\ (Answer(c) \/ pc' = [pc EXCEPT ![c] = "open"])
    BY <1>21 DEF OpenPlain, Go, files
  <2> QED BY <1>1, <1>4, <1>6, <2>1 DEF Seeded
<1> QED
  BY <1>7, <1>8, <1>9, <1>10, <1>11, <1>12, <1>13, <1>14, <1>15, <1>16, <1>17, <1>18, <1>19, <1>20, <1>21
     DEF Step

(***************************************************************************)
(* What is left behind                                                     *)
(***************************************************************************)
\* A writer that gives up in the base directory finds its file there.
LEMMA LitterStep ==
  ASSUME Typed, NothingLeftBehind, NEW c \in Callers, Step(c)
  PROVE  NothingLeftBehind'
PROOF
<1>1. crashes' = crashes
  BY DEF Step, Begin, Ensure, SeedDir, SeedWrite, SeedFails, Refuse, ReadNames, ReadOrder, ListPresets,
     ReorderPresets, CopyPreset, CopyDir, CopyFile, Copied, RenamePreset, DeletePreset, RemoveDir,
     SyncSettings, SyncDocument, SyncLabel, CreateTemp, FillTemp, SyncTemp, WriteFails, RenameTemp,
     OpenPlain, TruncatePlain, WritePlain, PlainFails, DeleteFile, bounds
<1>2. ASSUME Base \in litter' => Base \in litter PROVE NothingLeftBehind'
  BY <1>1, <1>2 DEF NothingLeftBehind
<1>3. CASE litter' = litter
  BY <1>2, <1>3
<1>4. ASSUME GiveUp(c) PROVE NothingLeftBehind'
  <2>1. tmp[c].at = Base => DirOf(cmd[c].path) = Base
    BY DEF Typed, TempsOK, Temp
  <2> QED BY <1>2, <1>4, <2>1 DEF GiveUp, TempOf
<1>5. CASE CopyFile(c)
  <2>1. cmd[c].to # Base
    BY <1>5, Places, Constants DEF CopyFile
  <2>2. litter' = litter \/ litter' = litter \cup {cmd[c].to}
    BY <1>5 DEF CopyFile
  <2> QED BY <1>2, <2>1, <2>2
<1>6. CASE RenamePreset(c)
  <2>1. cmd[c].to # Base
    BY <1>6, Places, Constants DEF RenamePreset
  <2>2. litter' = litter \/ litter' = {IF d = cmd[c].name THEN cmd[c].to ELSE d : d \in litter}
    BY <1>6 DEF RenamePreset, files
  <2> QED BY <1>2, <2>1, <2>2
<1>7. CASE DeletePreset(c)
  BY <1>2, <1>7 DEF DeletePreset
<1>8. CASE WriteFails(c)
  BY <1>4, <1>8 DEF WriteFails
<1>9. CASE RenameTemp(c)
  BY <1>3, <1>4, <1>9 DEF RenameTemp
<1>10. CASE \/ Begin(c) \/ Ensure(c) \/ SeedDir(c) \/ SeedWrite(c) \/ SeedFails(c) \/ Refuse(c)
            \/ ReadNames(c) \/ ReadOrder(c) \/ ListPresets(c) \/ ReorderPresets(c) \/ CopyPreset(c)
            \/ CopyDir(c) \/ Copied(c) \/ RemoveDir(c) \/ SyncSettings(c)
  BY <1>3, <1>10 DEF Begin, Ensure, SeedDir, SeedWrite, SeedFails, Refuse, ReadNames, ReadOrder,
     ListPresets, ReorderPresets, CopyPreset, CopyDir, Copied, RemoveDir, SyncSettings, files
<1>11. CASE \/ SyncDocument(c) \/ SyncLabel(c) \/ CreateTemp(c) \/ FillTemp(c) \/ SyncTemp(c)
            \/ OpenPlain(c) \/ TruncatePlain(c) \/ WritePlain(c) \/ PlainFails(c) \/ DeleteFile(c)
  BY <1>3, <1>11 DEF SyncDocument, SyncLabel, CreateTemp, FillTemp, SyncTemp, OpenPlain, TruncatePlain,
     WritePlain, PlainFails, DeleteFile, files
<1> QED BY <1>5, <1>6, <1>7, <1>8, <1>9, <1>10, <1>11 DEF Step

(***************************************************************************)
(* The lists                                                               *)
(***************************************************************************)
LEMMA JoinedNames ==
  ASSUME NEW X, NEW s \in Seq(X), NEW t \in Seq(X)
  PROVE  s \o t \in Seq(X) /\ ToSet(t) \subseteq ToSet(s \o t)
PROOF
<1>1. /\ s \o t \in Seq(X) /\ Len(s \o t) = Len(s) + Len(t)
      /\ Len(s) \in Nat /\ Len(t) \in Nat
      /\ \A i \in 1..Len(t) : (s \o t)[Len(s) + i] = t[i]
  OBVIOUS
<1>2. DOMAIN t = 1..Len(t) /\ DOMAIN (s \o t) = 1..(Len(s) + Len(t))
  BY <1>1
<1>3. \A i \in 1..Len(t) : Len(s) + i \in 1..(Len(s) + Len(t))
  BY <1>1
<1> QED BY <1>1, <1>2, <1>3 DEF ToSet

\* The temporary file of another caller is left alone, or taken away.
LEMMA OtherTemps ==
  ASSUME Typed, NEW c \in Callers, Step(c), NEW x \in Callers, x # c
  PROVE  tmp'[x].file = tmp[x].file /\ (tmp'[x].at # None => tmp[x].at # None)
PROOF
<1>1. tmp = [y \in Callers |-> tmp[y]]
      /\ tmp[x] = [at |-> tmp[x].at, file |-> tmp[x].file, synced |-> tmp[x].synced]
  BY DEF Typed, TempsOK, Temp
<1>2. CASE tmp' = tmp
  BY <1>2
<1>3. CASE RenamePreset(c)
  <2>1. cmd[c].name \in Names
    BY <1>3, Places DEF RenamePreset
  <2>2. CASE UNCHANGED files
    BY <2>2 DEF files
  <2>3. CASE tmp' = [t \in Callers |->
                      IF tmp[t].at = cmd[c].name THEN [tmp[t] EXCEPT !.at = cmd[c].to] ELSE tmp[t]]
    BY <1>1, <2>1, <2>3, Constants
  <2> QED BY <1>3, <2>2, <2>3 DEF RenamePreset
<1>4. CASE DeletePreset(c)
  BY <1>1, <1>4 DEF DeletePreset
<1>5. CASE CreateTemp(c) \/ FillTemp(c) \/ SyncTemp(c) \/ WriteFails(c) \/ RenameTemp(c)
  BY <1>1, <1>5 DEF CreateTemp, FillTemp, SyncTemp, WriteFails, RenameTemp, GiveUp, TempOf
<1>6. CASE \/ Begin(c) \/ Ensure(c) \/ SeedDir(c) \/ SeedWrite(c) \/ SeedFails(c) \/ Refuse(c)
           \/ ReadNames(c) \/ ReadOrder(c) \/ ListPresets(c) \/ ReorderPresets(c) \/ CopyPreset(c)
           \/ CopyDir(c) \/ CopyFile(c) \/ Copied(c) \/ RemoveDir(c)
  BY <1>2, <1>6 DEF Begin, Ensure, SeedDir, SeedWrite, SeedFails, Refuse, ReadNames, ReadOrder,
     ListPresets, ReorderPresets, CopyPreset, CopyDir, CopyFile, Copied, RemoveDir, files
<1>7. CASE \/ SyncSettings(c) \/ SyncDocument(c) \/ SyncLabel(c)
           \/ OpenPlain(c) \/ TruncatePlain(c) \/ WritePlain(c) \/ PlainFails(c) \/ DeleteFile(c)
  BY <1>2, <1>7 DEF SyncSettings, SyncDocument, SyncLabel, OpenPlain, TruncatePlain,
     WritePlain, PlainFails, DeleteFile, files
<1> QED BY <1>3, <1>4, <1>5, <1>6, <1>7 DEF Step

\* preset_order.conf holds names: only reorder_presets writes it.
LEMMA OrderStep ==
  ASSUME Typed, ListsKept, NEW c \in Callers, Step(c)
  PROVE  OrderNames'
PROOF
<1>1. /\ disk = [p \in Paths |-> disk[p]] /\ OrderNames
      /\ Order \in Paths /\ Order \in Atomic /\ Order[1] = Base
  BY DEF Typed, FilesOK, ListsKept, Order, Paths, Atomic, BaseFiles
<1>2. CASE disk'[Order] = disk[Order]
  BY <1>1, <1>2 DEF OrderNames
<1>3. ASSUME NEW n \in Names PROVE \A f : Order # <<n, f>>
  BY Constants DEF Order
<1>4. \A n \in NextSeed(c) : pc[c] \in {"seed", "seedwrite"} => n \in Names
  BY Constants DEF NextSeed, Typed, Stage
<1>5. CASE SeedDir(c) \/ SeedWrite(c) \/ SeedFails(c)
  <2>1. \E n \in NextSeed(c) : \E v : n \in Names /\ disk' = [disk EXCEPT ![<<n, "settings">>] = v]
    BY <1>4, <1>5 DEF SeedDir, SeedWrite, SeedFails, Go
  <2> QED BY <1>1, <1>2, <1>3, <2>1
<1>6. CASE CopyFile(c)
  <2>1. cmd[c].to \in Names
    BY <1>6, Places DEF CopyFile
  <2> QED BY <1>1, <1>2, <1>3, <1>6, <2>1 DEF CopyFile
<1>7. CASE RenamePreset(c)
  <2>1. cmd[c].name # Base /\ cmd[c].to # Base
    BY <1>7, Places, Constants DEF RenamePreset
  <2> QED BY <1>1, <1>2, <1>7, <2>1 DEF RenamePreset, files
<1>8. CASE DeletePreset(c)
  <2>1. cmd[c].name # Base
    BY <1>8, Places, Constants DEF DeletePreset
  <2> QED BY <1>1, <1>2, <1>8, <2>1 DEF DeletePreset
<1>9. CASE SyncLabel(c)
  <2>1. disk' = disk \/ disk' = [disk EXCEPT ![cmd[c].path] = Missing]
    BY <1>9 DEF SyncLabel
  <2>2. Missing.v \in Seq(Names)
    BY DEF Missing
  <2> QED BY <1>1, <1>2, <2>1, <2>2 DEF OrderNames
<1>10. CASE RenameTemp(c)
  <2>1. CASE disk' = disk \/ cmd[c].path # Order
    BY <1>1, <1>2, <1>10, <2>1 DEF RenameTemp
  <2>2. CASE tmp[c].at = DirOf(cmd[c].path) /\ cmd[c].path = Order
    <3>1. cmd[c].op = "reorder" /\ pc[c] = "publish" /\ tmp[c].at # None
      BY <1>10, <2>2, PathOf, Places, Constants DEF Typed, CallersOK, RenameTemp
    <3>2. tmp[c].file.v \in Seq(Names)
      BY <3>1 DEF ListsKept, Listed
    <3> QED BY <1>1, <1>10, <2>2, <3>2 DEF RenameTemp, TempOf, OrderNames
  <2> QED BY <1>10, <2>1, <2>2 DEF RenameTemp, TempOf
<1>11. CASE TruncatePlain(c) \/ WritePlain(c) \/ PlainFails(c) \/ DeleteFile(c)
  <2>1. cmd[c].path # Order
    BY <1>1, <1>11, Places DEF TruncatePlain, WritePlain, PlainFails, DeleteFile, Go
  <2> QED BY <1>1, <1>2, <1>11, <2>1 DEF TruncatePlain, WritePlain, PlainFails, DeleteFile
<1>12. CASE \/ Begin(c) \/ Ensure(c) \/ Refuse(c) \/ ReadNames(c) \/ ReadOrder(c) \/ ListPresets(c)
            \/ ReorderPresets(c) \/ CopyPreset(c) \/ CopyDir(c) \/ Copied(c) \/ RemoveDir(c)
  BY <1>2, <1>12 DEF Begin, Ensure, Refuse, ReadNames, ReadOrder, ListPresets, ReorderPresets,
     CopyPreset, CopyDir, Copied, RemoveDir, files
<1>13. CASE \/ SyncSettings(c) \/ SyncDocument(c) \/ CreateTemp(c) \/ FillTemp(c) \/ SyncTemp(c)
            \/ WriteFails(c) \/ OpenPlain(c)
  BY <1>2, <1>13 DEF SyncSettings, SyncDocument, CreateTemp, FillTemp, SyncTemp, WriteFails, OpenPlain, files
<1> QED BY <1>5, <1>6, <1>7, <1>8, <1>9, <1>10, <1>11, <1>12, <1>13 DEF Step

\* A list is made of what was read, and stays as it was made until the
\* command answers.
LEMMA ListStep ==
  ASSUME Typed, ListsKept, NEW c \in Callers, Step(c)
  PROVE  Listed(c)'
PROOF
<1>1. /\ pc \in [Callers -> Stages] /\ seen \in [Callers -> SUBSET Names]
      /\ cmd = [x \in Callers |-> cmd[x]] /\ cmd[c] \in Asked \cup {NoCmd}
      /\ text = [x \in Callers |-> text[x]] /\ tmp = [x \in Callers |-> tmp[x]]
      /\ Stage(c) /\ Listed(c)
  BY DEF Typed, CallersOK, TempsOK, ListsKept
<1>3. NoCmd.op = "none"
  BY DEF NoCmd
<1>4. CASE pc'[c] \notin Writing \cup {"listed"}
  BY <1>4 DEF Listed, Writing
<1>5. CASE Answer(c)
  BY <1>1, <1>4, <1>5 DEF Answer, Writing
<1>6. CASE /\ cmd'[c] = cmd[c] /\ text'[c] = text[c] /\ seen'[c] = seen[c]
           /\ pc'[c] \in {"write", "fill"} /\ pc[c] \in Writing
  BY <1>1, <1>6 DEF Listed, Complete, Writing
<1>7. CASE ReadOrder(c)
  <2> DEFINE saved == IF disk[Order].st = "whole" THEN disk[Order].v ELSE <<>>
  <2>1. pc'[c] = "listed" /\ seen'[c] = seen[c] /\ text'[c] = Keep(seen[c], saved \o Alphabet)
    BY <1>1, <1>7 DEF ReadOrder, Go, Listing, Order
  <2>2. saved \in Seq(Names) /\ Alphabet \in Seq(Names) /\ seen[c] \in SUBSET Names
    BY <1>1, StoreAssumption DEF ListsKept, OrderNames
  <2> HIDE DEF saved
  <2>3. saved \o Alphabet \in Seq(Names) /\ seen[c] \subseteq ToSet(saved \o Alphabet)
    BY <2>2, JoinedNames DEF Names
  <2> DEFINE list == Keep(seen[c], saved \o Alphabet)
  <2>4. list \in Seq(Names) /\ ToSet(list) = seen[c] /\ Len(list) = Cardinality(seen[c])
    BY <2>2, <2>3, Kept
  <2>5. text'[c] = list
    BY <2>1
  <2> HIDE DEF list
  <2>6. Complete(c)'
    BY <2>1, <2>4, <2>5 DEF Complete
  <2> QED BY <2>1, <2>6 DEF Listed
<1>8. CASE ReorderPresets(c)
  <2>1. /\ pc[c] = "listed" /\ pc'[c] = "write" /\ seen'[c] = seen[c] /\ cmd[c].op = "reorder"
        /\ text'[c] = Keep(seen[c], cmd[c].arg \o text[c])
    BY <1>1, <1>8 DEF ReorderPresets, Go
  <2>2. cmd[c].arg \in Seq(Names) /\ text[c] \in Seq(Names) /\ ToSet(text[c]) = seen[c]
    BY <1>1, <2>1, PathOf DEF Listed, Complete
  <2>3. cmd[c].arg \o text[c] \in Seq(Names) /\ seen[c] \subseteq ToSet(cmd[c].arg \o text[c])
    BY <2>2, JoinedNames
  <2> DEFINE list == Keep(seen[c], cmd[c].arg \o text[c])
  <2>4. list \in Seq(Names) /\ ToSet(list) = seen[c] /\ Len(list) = Cardinality(seen[c])
    BY <1>1, <2>3, Kept
  <2>5. text'[c] = list
    BY <2>1
  <2> HIDE DEF list
  <2>6. Complete(c)'
    BY <2>1, <2>4, <2>5 DEF Complete
  <2> QED BY <2>1, <2>6 DEF Listed
<1>9. CASE SyncSettings(c) \/ SyncDocument(c) \/ SyncLabel(c)
  <2>1. CASE Answer(c)
    BY <1>5, <2>1
  <2>2. CASE pc'[c] = "write" /\ cmd'[c].op # "reorder"
    BY <2>2 DEF Listed
  <2> QED BY <1>1, <1>9, <2>1, <2>2 DEF SyncSettings, SyncDocument, SyncLabel, Go
<1>10. CASE CreateTemp(c)
  <2>1. CASE Answer(c)
    BY <1>5, <2>1
  <2>2. CASE Go(c, "write", "fill") /\ UNCHANGED locals
    BY <1>1, <1>6, <2>2 DEF Go, locals, Writing
  <2> QED BY <1>10, <2>1, <2>2 DEF CreateTemp
<1>11. CASE FillTemp(c)
  <2>1. /\ pc[c] = "fill" /\ pc'[c] = "sync" /\ UNCHANGED locals
        /\ tmp' = [tmp EXCEPT ![c].file = Whole(text[c])]
    BY <1>1, <1>11 DEF FillTemp, Go, TempOf
  <2>2. tmp'[c].file.v = text[c]
    <3>1. tmp[c] = [at |-> tmp[c].at, file |-> tmp[c].file, synced |-> tmp[c].synced]
      BY DEF Typed, TempsOK, Temp
    <3> QED BY <1>1, <2>1, <3>1 DEF Whole
  <2> QED BY <1>1, <2>1, <2>2 DEF Listed, Complete, Writing, locals
<1>12. CASE SyncTemp(c)
  <2>1. /\ pc[c] = "sync" /\ pc'[c] = "publish" /\ UNCHANGED locals
        /\ tmp' = [tmp EXCEPT ![c].synced = TRUE]
    BY <1>1, <1>12 DEF SyncTemp, Go, TempOf
  <2>2. tmp'[c].file = tmp[c].file /\ tmp'[c].at = tmp[c].at
    <3>1. tmp[c] = [at |-> tmp[c].at, file |-> tmp[c].file, synced |-> tmp[c].synced]
      BY DEF Typed, TempsOK, Temp
    <3> QED BY <1>1, <2>1, <3>1
  <2> QED BY <1>1, <2>1, <2>2 DEF Listed, Complete, Writing, locals
<1>13. CASE \/ Begin(c) \/ Ensure(c) \/ SeedDir(c) \/ SeedWrite(c) \/ ReadNames(c)
            \/ OpenPlain(c) \/ TruncatePlain(c)
  BY <1>1, <1>4, <1>5, <1>13 DEF Begin, Ensure, SeedDir, SeedWrite, ReadNames, OpenPlain, TruncatePlain,
     Go, Writing
<1>14. CASE \/ SeedFails(c) \/ Refuse(c) \/ ListPresets(c) \/ Copied(c) \/ RenamePreset(c) \/ RemoveDir(c)
            \/ WriteFails(c) \/ RenameTemp(c) \/ WritePlain(c) \/ PlainFails(c) \/ DeleteFile(c)
  BY <1>5, <1>14 DEF SeedFails, Refuse, ListPresets, Copied, RenamePreset, RemoveDir, WriteFails,
     RenameTemp, WritePlain, PlainFails, DeleteFile
<1>15. CASE CopyPreset(c) \/ CopyDir(c) \/ CopyFile(c) \/ DeletePreset(c)
  <2>1. CASE Answer(c)
    BY <1>5, <2>1
  <2>2. CASE pc'[c] \in {"copy", "rename", "copying", "rmdir"}
    BY <1>4, <2>2 DEF Writing
  <2> QED BY <1>1, <1>15, <2>1, <2>2 DEF CopyPreset, CopyDir, CopyFile, DeletePreset, Go
<1> QED BY <1>7, <1>8, <1>9, <1>10, <1>11, <1>12, <1>13, <1>14, <1>15 DEF Step

LEMMA ListsStep ==
  ASSUME Typed, ListsKept, NEW c \in Callers, Step(c)
  PROVE  ListsKept'
PROOF
<1>1. ASSUME NEW x \in Callers, x # c PROVE Listed(x)'
  <2>1. Listed(x)
    BY DEF ListsKept
  <2> QED BY <1>1, <2>1, OthersStay, OtherTemps DEF Listed, Complete
<1> QED BY <1>1, ListStep, OrderStep DEF ListsKept

(***************************************************************************)
(* The whole system                                                        *)
(***************************************************************************)
\* The machine may stop at any moment: only what is not synced is cut.
LEMMA CrashStep == IInv /\ Crash => IInv'
PROOF
<1> SUFFICES ASSUME IInv, Crash PROVE IInv'
  OBVIOUS
<1>1. /\ FilesOK /\ CallersOK /\ BoundsOK /\ Synced /\ ConfWhole /\ SeedsKept
      /\ \A c \in Callers : Temp(c)
  BY DEF IInv, Typed, TempsOK
<1>2. PICK cut \in SUBSET dirty :
        disk' = [p \in Paths |-> IF p \in cut /\ disk[p].st = "whole" THEN Cut ELSE disk[p]]
  BY DEF Crash
<1>3. litter' \subseteq Names \cup {Base}
  BY <1>1 DEF Crash, FilesOK, Temp
<1>4. FilesOK'
  BY <1>1, <1>2, <1>3 DEF Crash, FilesOK, Cut
<1>5. CallersOK' /\ \A c \in Callers : Stage(c)'
  BY DEF Crash, CallersOK, Stage, Stages
<1>6. BoundsOK'
  BY <1>1, StoreAssumption DEF Crash, BoundsOK
<1>7. TempsOK'
  BY Constants DEF Crash, TempsOK, Temp, NoTemp
<1>8. Synced' /\ ConfWhole'
  BY <1>1, <1>2, PathParts DEF Crash, Synced, ConfWhole
<1>9. SeedsKept'
  BY <1>1 DEF Crash, SeedsKept, Seeded
<1>10. NothingLeftBehind'
  BY <1>1 DEF Crash, NothingLeftBehind, BoundsOK
<1>11. ListsKept'
  <2>1. disk = [p \in Paths |-> disk[p]] /\ Order \in Paths
    BY <1>1 DEF FilesOK, Order, Paths, BaseFiles
  <2>2. disk'[Order] = disk[Order] \/ disk'[Order] = Cut
    BY <1>2, <2>1
  <2>3. OrderNames'
    <3>1. Cut.v \in Seq(Names) /\ OrderNames
      BY DEF Cut, IInv, ListsKept
    <3> QED BY <2>2, <3>1 DEF OrderNames
  <2> QED BY <2>3 DEF Crash, ListsKept, Listed, Writing
<1> QED BY <1>4, <1>5, <1>6, <1>7, <1>8, <1>9, <1>10, <1>11 DEF IInv, Typed

LEMMA StutterStep == IInv /\ UNCHANGED vars => IInv'
PROOF
BY DEF IInv, Typed, FilesOK, CallersOK, BoundsOK, TempsOK, Temp, Stage, Synced, ConfWhole, SeedsKept,
       Seeded, NothingLeftBehind, ListsKept, OrderNames, Listed, Complete, vars, files, locals, bounds

LEMMA NextInv == IInv /\ [Next]_vars => IInv'
PROOF
<1> SUFFICES ASSUME IInv, [Next]_vars PROVE IInv'
  OBVIOUS
<1>1. ASSUME NEW c \in Callers, Step(c) PROVE IInv'
  <2>1. Typed /\ Synced /\ ConfWhole /\ SeedsKept /\ NothingLeftBehind /\ ListsKept
    BY DEF IInv
  <2>2. Typed'
    BY <1>1, <2>1, CallersStep, FilesStep, BoundsStep, TempsStep DEF Typed
  <2>3. Synced' /\ ConfWhole' /\ SeedsKept' /\ NothingLeftBehind' /\ ListsKept'
    BY <1>1, <2>1, StoreStep, SeedsStep, LitterStep, ListsStep
  <2> QED BY <2>2, <2>3 DEF IInv
<1> QED BY <1>1, CrashStep, StutterStep DEF Next

LEMMA Invariant == Spec => []IInv
PROOF BY InitInv, NextInv, PTL DEF Spec

(***************************************************************************)
(* The theorems                                                            *)
(***************************************************************************)
\* Every variable keeps its type, and a temporary file has a writer.
THEOREM TypeCorrect == Spec => []TypeOK
PROOF
<1>1. IInv => TypeOK
  BY DEF IInv, Typed, FilesOK, CallersOK, BoundsOK, TempsOK, Temp, TypeOK, Writing
<1> QED BY <1>1, Invariant, PTL

\* dirs.rs, write_file_atomic: whoever writes, whatever fails and whenever the
\* machine stops, no document is ever half written.
THEOREM DocumentsWhole == Spec => []ConfWhole
PROOF
<1>1. IInv => ConfWhole
  BY DEF IInv
<1> QED BY <1>1, Invariant, PTL

\* dirs.rs, ensure: from the first seed on that seed stays, so an ensure that
\* looks at the root then finds it non-empty and seeds nothing.
THEOREM SeedsForGood == Spec => []SeededForGood
PROOF
<1>1. IInv => SeededForGood
  BY DEF IInv, SeedsKept, Seeded, SeededForGood
<1> QED BY <1>1, Invariant, PTL

\* dirs.rs, write_file_atomic: a write that fails takes its temporary file
\* away; only a crash leaves one in the base directory.
THEOREM NothingLeft == Spec => []NothingLeftBehind
PROOF
<1>1. IInv => NothingLeftBehind
  BY DEF IInv
<1> QED BY <1>1, Invariant, PTL

\* presets.rs, list_preset_names and reorder_presets: whatever the order file
\* says and whoever changes the directories meanwhile, a list names every
\* preset that was read, once, and nothing else.
THEOREM ListsComplete == Spec => []ListComplete
PROOF
<1>1. IInv => ListComplete
  BY DEF IInv, ListsKept, Listed, Complete, ListComplete
<1> QED BY <1>1, Invariant, PTL
=============================================================================

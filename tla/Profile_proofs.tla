--------------------------- MODULE Profile_proofs ---------------------------
(***************************************************************************)
(* Proofs about profile files: for every directory, revision and edit, a   *)
(* file that is untouched since it was saved loads again as the profile    *)
(* that was saved, and what a program holds is a profile it can run; and   *)
(* about the console program: for every command line and profile, what it  *)
(* runs is the profile with the options over it.                           *)
(***************************************************************************)
EXTENDS ProfileFiles, CommandLine, SequenceTheorems, FiniteSetTheorems, TLAPS

-----------------------------------------------------------------------------
(* Tables.                                                                 *)

(* One table before another, and a table with one key set.                 *)
LEMMA OverFacts ==
    ASSUME NEW f, NEW g
    PROVE  /\ DOMAIN Over(f, g) = DOMAIN f \cup DOMAIN g
           /\ \A k \in DOMAIN f : Over(f, g)[k] = f[k]
           /\ \A k \in DOMAIN g : k \notin DOMAIN f => Over(f, g)[k] = g[k]
  BY DEF Over

LEMMA WithDomain ==
    ASSUME NEW f, NEW key, NEW value
    PROVE  DOMAIN With(f, key, value) = DOMAIN f \cup {key}
  BY DEF With

LEMMA WithKey ==
    ASSUME NEW f, NEW key, NEW value
    PROVE  With(f, key, value)[key] = value
  BY DEF With

LEMMA WithOther ==
    ASSUME NEW f, NEW key, NEW value
    PROVE  \A k \in DOMAIN f : k # key => With(f, key, value)[k] = f[k]
  BY DEF With

(* A table of which only some keys are kept.                               *)
LEMMA RestrictFacts ==
    ASSUME NEW f, NEW S
    PROVE  /\ DOMAIN Restrict(f, S) = S
           /\ \A k \in S : Restrict(f, S)[k] = f[k]
  BY DEF Restrict

(* Four tables with no key in common.                                      *)
Disjoint(a, b, c, d) ==
    /\ a \cap b = {} /\ a \cap c = {} /\ a \cap d = {}
    /\ b \cap c = {} /\ b \cap d = {} /\ c \cap d = {}

(* What is written of four tables has the keys of all.                     *)
LEMMA WrittenDomain ==
    ASSUME NEW n, NEW i, NEW f, NEW t
    PROVE  DOMAIN Written(n, i, f, t) = DOMAIN n \cup DOMAIN i \cup DOMAIN f \cup DOMAIN t
  BY DEF Written

(* And each value in the form of its table.                                *)
LEMMA WrittenFacts ==
    ASSUME NEW n, NEW i, NEW f, NEW t,
           Disjoint(DOMAIN n, DOMAIN i, DOMAIN f, DOMAIN t)
    PROVE  /\ \A k \in DOMAIN n : Written(n, i, f, t)[k] = JsonNumber(n[k])
           /\ \A k \in DOMAIN i : Written(n, i, f, t)[k] = JsonInt(i[k])
           /\ \A k \in DOMAIN f : Written(n, i, f, t)[k] = JsonFlag(f[k])
           /\ \A k \in DOMAIN t : Written(n, i, f, t)[k] = JsonText(t[k])
  BY DEF Written, Disjoint

-----------------------------------------------------------------------------
(* Reading what was written.                                               *)

(* A value of the type of its helper is what the helper gives.             *)
LEMMA NumberRead ==
    ASSUME NEW o, NEW k \in DOMAIN o, NEW v, NEW fallback, o[k] = JsonNumber(v)
    PROVE  Has(o, k, "number") /\ o[k].number = v /\ Number(o, k, fallback) = v
  BY DEF JsonNumber, Number, Has

(* A whole number is whole in quarters.                                    *)
LEMMA QuartersOfWhole ==
    ASSUME NEW n \in Int
    PROVE  (Unit * n) % Unit = 0 /\ (Unit * n) \div Unit = n
  BY DEF Unit

(* toInt reads an int that was written as one.                             *)
LEMMA IntRead ==
    ASSUME NEW o, NEW k \in DOMAIN o, NEW v \in ExactInts, NEW fallback, o[k] = JsonInt(v),
           LargestInt \in Nat
    PROVE  WholeNumber(o, k, fallback) = v
<1>1. Has(o, k, "number") /\ o[k].number = Unit * v BY DEF JsonInt, JsonNumber, Has
<1>2. v \in Int BY DEF ExactInts
<1>3. Exact(o[k].number) BY <1>1, <1>2, QuartersOfWhole DEF Exact, ExactInts
<1> QED BY <1>1, <1>2, <1>3, QuartersOfWhole DEF WholeNumber

LEMMA FlagRead ==
    ASSUME NEW o, NEW k \in DOMAIN o, NEW v, NEW fallback, o[k] = JsonFlag(v)
    PROVE  Flag(o, k, fallback) = v
  BY DEF JsonFlag, Flag, Has

LEMMA TextRead ==
    ASSUME NEW o, NEW k \in DOMAIN o, NEW v, NEW fallback, o[k] = JsonText(v)
    PROVE  Text(o, k, fallback) = v
  BY DEF JsonText, Text, Has

(* A key that is missing gives the fallback.                               *)
LEMMA NothingRead ==
    ASSUME NEW o, NEW k, k \notin DOMAIN o, NEW fallback
    PROVE  /\ Number(o, k, fallback) = fallback
           /\ WholeNumber(o, k, fallback) = fallback
           /\ Flag(o, k, fallback) = fallback
           /\ Text(o, k, fallback) = fallback
  BY DEF Number, WholeNumber, Flag, Text, Has

(* A helper reads nothing but its key.                                     *)
LEMMA SameRead ==
    ASSUME NEW o, NEW u, NEW k, k \in DOMAIN o <=> k \in DOMAIN u,
           k \in DOMAIN o => o[k] = u[k], NEW fallback
    PROVE  /\ Number(o, k, fallback) = Number(u, k, fallback)
           /\ WholeNumber(o, k, fallback) = WholeNumber(u, k, fallback)
           /\ Flag(o, k, fallback) = Flag(u, k, fallback)
           /\ Text(o, k, fallback) = Text(u, k, fallback)
  BY DEF Number, WholeNumber, Flag, Text, Has

(* Whatever is in the document, toInt gives an int.                        *)
LEMMA WholeNumberType ==
    ASSUME NEW o, NEW k, NEW fallback \in ExactInts
    PROVE  WholeNumber(o, k, fallback) \in ExactInts
  BY DEF WholeNumber, Exact, ExactInts

-----------------------------------------------------------------------------
(* Keys.                                                                   *)
LEMMA TopKeys ==
    /\ Disjoint(DOMAIN ProfileNumbers, DOMAIN ProfileIntegers \cup DOMAIN Unsigned,
                DOMAIN ProfileFlags, DOMAIN ProfileTexts \cup {"track.path", "replay.path"})
    /\ DOMAIN ProfileIntegers \cap DOMAIN Unsigned = {}
    /\ DOMAIN ProfileTexts \cap {"track.path", "replay.path"} = {}
    /\ "schema_version" \notin DOMAIN ProfileNumbers \cup DOMAIN ProfileIntegers
                \cup DOMAIN Unsigned \cup DOMAIN ProfileFlags \cup DOMAIN ProfileTexts
  BY SMTT(60) DEF Disjoint, ProfileNumbers, ProfileIntegers, Unsigned, ProfileFlags, ProfileTexts,
     Seeds, Variations

(* Keys of an output beside those of the tables.                           *)
OutputNames == {"type", "path", "filter"}
LEMMA OutputKeys ==
    /\ Disjoint(DOMAIN OutputNumbers, DOMAIN OutputIntegers, DOMAIN OutputFlags,
                DOMAIN OutputTexts \cup OutputNames)
    /\ DOMAIN OutputTexts \cap OutputNames = {}
  BY DEF Disjoint, OutputNumbers, OutputIntegers, OutputFlags, OutputTexts, OutputNames

-----------------------------------------------------------------------------
(* The top of a document.                                                  *)
TopPaths == {"track.path", "replay.path"}

(* The bounds are numbers with the defaults below them.                    *)
LEMMA Bounds ==
    /\ LongestPeriod \in Nat /\ LongestPeriod >= 10110
    /\ LongestInterval \in Nat /\ LongestInterval >= 100 /\ LongestInterval <= LongestPeriod
    /\ LongestTick \in Nat /\ LongestTick >= 100
    /\ LargestPort \in Nat /\ LargestPort >= 10110
  BY SMT DEF LongestPeriod, LongestInterval, LongestTick, LargestPort

(* What the assumption says of the limits.                                 *)
LEMMA Limits ==
    ASSUME ProfileAssumption
    PROVE  /\ LargestInt \in Nat /\ LargestInt >= LongestPeriod /\ LargestInt >= 10110
           /\ LargestSeed \in Nat /\ LargestSeed >= 2026
           /\ NineDigits \in Nat /\ NineDigits >= 239
           /\ None \notin Int
  BY Bounds DEF ProfileAssumption

(* A period is an int.                                                     *)
LEMMA PeriodExact ==
    ASSUME ProfileAssumption, NEW n \in Period
    PROVE  n \in ExactInts
<1>1. LargestInt \in Nat /\ LargestInt >= LongestPeriod BY Limits
<1> QED BY <1>1, Bounds DEF ExactInts, Period

(* The defaults of a profile and of an output have their types.            *)
LEMMA Defaults ==
    ASSUME ProfileAssumption
    PROVE  /\ ProfileNumbers \in [DOMAIN ProfileNumbers -> Int]
           /\ ProfileIntegers \in [DOMAIN ProfileIntegers -> ExactInts]
           /\ IsTable(ProfileFlags, DOMAIN ProfileFlags)
           /\ IsTable(ProfileTexts, DOMAIN ProfileTexts)
           /\ IsTable(Unsigned, DOMAIN Unsigned)
           /\ \A k \in DOMAIN Unsigned : Unsigned[k] \in 0 .. Largest[k]
           /\ OutputNumbers \in [DOMAIN OutputNumbers -> Int]
           /\ OutputIntegers \in [DOMAIN OutputIntegers -> ExactInts]
           /\ IsTable(OutputFlags, DOMAIN OutputFlags)
           /\ IsTable(OutputTexts, DOMAIN OutputTexts)
<1> USE Limits
<1>1. ProfileNumbers \in [DOMAIN ProfileNumbers -> Int]
  BY DEF ProfileNumbers
<1>2. ProfileIntegers \in [DOMAIN ProfileIntegers -> ExactInts]
  BY DEF ProfileIntegers, ExactInts
<1>3. IsTable(ProfileFlags, DOMAIN ProfileFlags) /\ IsTable(ProfileTexts, DOMAIN ProfileTexts)
  BY DEF ProfileFlags, ProfileTexts, IsTable
<1>4. IsTable(Unsigned, DOMAIN Unsigned) BY DEF Unsigned, IsTable
<1>5. \A k \in DOMAIN Unsigned : Unsigned[k] \in 0 .. Largest[k] BY DEF Unsigned, Largest
<1>6. OutputNumbers \in [DOMAIN OutputNumbers -> Int] BY DEF OutputNumbers
<1>7. OutputIntegers \in [DOMAIN OutputIntegers -> ExactInts]
  BY DEF OutputIntegers, ExactInts
<1>8. IsTable(OutputFlags, DOMAIN OutputFlags) /\ IsTable(OutputTexts, DOMAIN OutputTexts)
  BY DEF OutputFlags, OutputTexts, IsTable
<1> QED BY <1>1, <1>2, <1>3, <1>4, <1>5, <1>6, <1>7, <1>8

(* The keys of the top of a document that was written, and their values.   *)
LEMMA TopWritten ==
    ASSUME NEW p, Sound(p)
    PROVE  LET t == TopToJson(p)
           IN  /\ DOMAIN t = DOMAIN ProfileNumbers \cup DOMAIN ProfileIntegers
                    \cup DOMAIN Unsigned \cup DOMAIN ProfileFlags \cup DOMAIN ProfileTexts
                    \cup TopPaths \cup {"schema_version"}
               /\ \A k \in DOMAIN ProfileNumbers : t[k] = JsonNumber(p.numbers[k])
               /\ \A k \in DOMAIN ProfileIntegers : t[k] = JsonInt(p.integers[k])
               /\ \A k \in DOMAIN Unsigned : t[k] = JsonInt(p.unsigned[k])
               /\ \A k \in DOMAIN ProfileFlags : t[k] = JsonFlag(p.flags[k])
               /\ \A k \in DOMAIN ProfileTexts : t[k] = JsonText(p.texts[k])
               /\ t["track.path"] = JsonText(p.track_path)
               /\ t["replay.path"] = JsonText(p.replay_path)
               /\ t["schema_version"] = JsonInt(CurrentSchemaVersion)
<1> DEFINE paths == [k \in TopPaths |-> IF k = "track.path" THEN p.track_path
                                        ELSE p.replay_path]
           integers == Over(p.integers, p.unsigned)
           texts == Over(p.texts, paths)
           w == Written(p.numbers, integers, p.flags, texts)
<1>1. TopToJson(p) = With(w, "schema_version", JsonInt(CurrentSchemaVersion))
  BY DEF TopToJson, TopPaths
<1>2. /\ DOMAIN p.numbers = DOMAIN ProfileNumbers
      /\ DOMAIN p.integers = DOMAIN ProfileIntegers
      /\ DOMAIN p.unsigned = DOMAIN Unsigned
      /\ DOMAIN p.flags = DOMAIN ProfileFlags
      /\ DOMAIN p.texts = DOMAIN ProfileTexts
  BY DEF Sound, SoundValues, IsTable
<1>3. /\ DOMAIN integers = DOMAIN ProfileIntegers \cup DOMAIN Unsigned
      /\ \A k \in DOMAIN ProfileIntegers : integers[k] = p.integers[k]
      /\ \A k \in DOMAIN Unsigned : integers[k] = p.unsigned[k]
  <2>1. /\ DOMAIN integers = DOMAIN p.integers \cup DOMAIN p.unsigned
        /\ \A k \in DOMAIN p.integers : integers[k] = p.integers[k]
        /\ \A k \in DOMAIN p.unsigned : k \notin DOMAIN p.integers => integers[k] = p.unsigned[k]
    BY OverFacts
  <2> HIDE DEF integers
  <2> QED BY <1>2, <2>1, TopKeys
<1>4. /\ DOMAIN texts = DOMAIN ProfileTexts \cup TopPaths
      /\ \A k \in DOMAIN ProfileTexts : texts[k] = p.texts[k]
      /\ texts["track.path"] = p.track_path /\ texts["replay.path"] = p.replay_path
  <2>1. DOMAIN paths = TopPaths /\ paths["track.path"] = p.track_path
        /\ paths["replay.path"] = p.replay_path
    BY DEF TopPaths
  <2> HIDE DEF paths
  <2>2. /\ DOMAIN texts = DOMAIN p.texts \cup DOMAIN paths
        /\ \A k \in DOMAIN p.texts : texts[k] = p.texts[k]
        /\ \A k \in DOMAIN paths : k \notin DOMAIN p.texts => texts[k] = paths[k]
    BY OverFacts
  <2> HIDE DEF texts
  <2> QED BY <1>2, <2>1, <2>2, TopKeys DEF TopPaths
<1> HIDE DEF integers, texts
<1>5. Disjoint(DOMAIN p.numbers, DOMAIN integers, DOMAIN p.flags, DOMAIN texts)
  BY <1>2, <1>3, <1>4, TopKeys DEF TopPaths
<1>6. DOMAIN w = DOMAIN p.numbers \cup DOMAIN integers \cup DOMAIN p.flags \cup DOMAIN texts
  BY DEF Written
<1>7. /\ \A k \in DOMAIN p.numbers : w[k] = JsonNumber(p.numbers[k])
      /\ \A k \in DOMAIN integers : w[k] = JsonInt(integers[k])
      /\ \A k \in DOMAIN p.flags : w[k] = JsonFlag(p.flags[k])
      /\ \A k \in DOMAIN texts : w[k] = JsonText(texts[k])
  <2>1. \A k \in DOMAIN p.numbers : w[k] = JsonNumber(p.numbers[k]) BY <1>5, WrittenFacts
  <2>2. \A k \in DOMAIN integers : w[k] = JsonInt(integers[k]) BY <1>5, WrittenFacts
  <2>3. \A k \in DOMAIN p.flags : w[k] = JsonFlag(p.flags[k]) BY <1>5, WrittenFacts
  <2>4. \A k \in DOMAIN texts : w[k] = JsonText(texts[k]) BY <1>5, WrittenFacts
  <2> HIDE DEF w
  <2> QED BY <2>1, <2>2, <2>3, <2>4
<1> HIDE DEF w
<1>8. "schema_version" \notin DOMAIN w
  BY <1>6, <1>2, <1>3, <1>4, TopKeys DEF TopPaths
<1>9. /\ DOMAIN TopToJson(p) = DOMAIN w \cup {"schema_version"}
      /\ TopToJson(p)["schema_version"] = JsonInt(CurrentSchemaVersion)
      /\ \A k \in DOMAIN w : TopToJson(p)[k] = w[k]
  <2>1. DOMAIN TopToJson(p) = DOMAIN w \cup {"schema_version"} BY <1>1, WithDomain
  <2>2. TopToJson(p)["schema_version"] = JsonInt(CurrentSchemaVersion) BY <1>1, WithKey
  <2>3. \A k \in DOMAIN w : TopToJson(p)[k] = w[k] BY <1>1, <1>8, WithOther
  <2> QED BY <2>1, <2>2, <2>3
<1>10. "track.path" \in DOMAIN texts /\ "replay.path" \in DOMAIN texts
  BY <1>4 DEF TopPaths
<1> QED BY <1>2, <1>3, <1>4, <1>6, <1>9, <1>10, <1>7

(* migrate changes the marker and nothing that is read.                    *)
LEMMA Migrated ==
    ASSUME NEW top, NEW version
    PROVE  LET m == Migrate(top, version)
           IN  \A k : k # "schema_version" /\ k # "mode"
                    => (k \in DOMAIN m <=> k \in DOMAIN top) /\ (k \in DOMAIN top => m[k] = top[k])
  BY DEF Migrate, With

(* The mode is read as it is when there is one.                            *)
LEMMA MigratedMode ==
    ASSUME NEW top, NEW version, "mode" \in DOMAIN top
    PROVE  LET m == Migrate(top, version) IN "mode" \in DOMAIN m /\ m["mode"] = top["mode"]
  BY DEF Migrate, With

(* What the readers find in the top that was written.                      *)
LEMMA TopRead ==
    ASSUME ProfileAssumption, NEW p, Sound(p)
    PROVE  LET t == TopToJson(p)
               m == Migrate(t, WholeNumber(t, "schema_version", 0))
           IN  /\ WholeNumber(t, "schema_version", 0) = CurrentSchemaVersion
               /\ Numbers(m, ProfileNumbers) = p.numbers
               /\ Integers_(m, ProfileIntegers) = p.integers
               /\ Flags(m, ProfileFlags) = p.flags
               /\ Texts(m, ProfileTexts) = p.texts
               /\ [k \in DOMAIN Unsigned |-> Number(m, k, Unit * Unsigned[k]) \div Unit]
                    = p.unsigned
               /\ \A k \in DOMAIN Unsigned : ~ Refused(t, k, Largest[k])
               /\ Text(m, "track.path", NoPath) = p.track_path
               /\ Text(m, "replay.path", NoPath) = p.replay_path
<1> DEFINE t == TopToJson(p)
           m == Migrate(t, WholeNumber(t, "schema_version", 0))
           all == DOMAIN ProfileNumbers \cup DOMAIN ProfileIntegers \cup DOMAIN Unsigned
                  \cup DOMAIN ProfileFlags \cup DOMAIN ProfileTexts \cup TopPaths
<1>1. /\ LargestInt \in Nat /\ LargestInt >= LongestPeriod
      /\ CurrentSchemaVersion \in ExactInts
  BY Limits DEF CurrentSchemaVersion, ExactInts
<1>2. /\ DOMAIN t = all \cup {"schema_version"}
      /\ \A k \in DOMAIN ProfileNumbers : t[k] = JsonNumber(p.numbers[k])
      /\ \A k \in DOMAIN ProfileIntegers : t[k] = JsonInt(p.integers[k])
      /\ \A k \in DOMAIN Unsigned : t[k] = JsonInt(p.unsigned[k])
      /\ \A k \in DOMAIN ProfileFlags : t[k] = JsonFlag(p.flags[k])
      /\ \A k \in DOMAIN ProfileTexts : t[k] = JsonText(p.texts[k])
      /\ t["track.path"] = JsonText(p.track_path)
      /\ t["replay.path"] = JsonText(p.replay_path)
      /\ t["schema_version"] = JsonInt(CurrentSchemaVersion)
  BY TopWritten
<1> HIDE DEF t
<1>3. WholeNumber(t, "schema_version", 0) = CurrentSchemaVersion
  BY <1>1, <1>2, IntRead
<1>4. \A k \in all : k \in DOMAIN m /\ m[k] = t[k]
  <2>1. "schema_version" \notin all BY TopKeys DEF TopPaths
  <2>2. "mode" \in DOMAIN t BY <1>2 DEF ProfileTexts
  <2> QED BY <1>2, <2>1, <2>2, Migrated, MigratedMode
<1> HIDE DEF m
<1>5. Numbers(m, ProfileNumbers) = p.numbers
  <2>1. p.numbers = [k \in DOMAIN ProfileNumbers |-> p.numbers[k]] BY DEF Sound, SoundValues
  <2>2. ASSUME NEW k \in DOMAIN ProfileNumbers
        PROVE  Number(m, k, ProfileNumbers[k]) = p.numbers[k]
    BY <1>2, <1>4, NumberRead
  <2> QED BY <2>1, <2>2 DEF Numbers
<1>6. Integers_(m, ProfileIntegers) = p.integers
  <2>1. p.integers \in [DOMAIN ProfileIntegers -> ExactInts] BY DEF Sound, SoundValues
  <2>2. ASSUME NEW k \in DOMAIN ProfileIntegers
        PROVE  WholeNumber(m, k, ProfileIntegers[k]) = p.integers[k]
    BY <1>1, <1>2, <1>4, <2>1, IntRead
  <2> QED BY <2>1, <2>2 DEF Integers_
<1>7. Flags(m, ProfileFlags) = p.flags
  <2>1. p.flags = [k \in DOMAIN ProfileFlags |-> p.flags[k]] BY DEF Sound, SoundValues, IsTable
  <2>2. ASSUME NEW k \in DOMAIN ProfileFlags PROVE Flag(m, k, ProfileFlags[k]) = p.flags[k]
    BY <1>2, <1>4, FlagRead
  <2> QED BY <2>1, <2>2 DEF Flags
<1>8. Texts(m, ProfileTexts) = p.texts
  <2>1. p.texts = [k \in DOMAIN ProfileTexts |-> p.texts[k]] BY DEF Sound, SoundValues, IsTable
  <2>2. ASSUME NEW k \in DOMAIN ProfileTexts PROVE Text(m, k, ProfileTexts[k]) = p.texts[k]
    BY <1>2, <1>4, TextRead
  <2> QED BY <2>1, <2>2 DEF Texts
<1>9. /\ [k \in DOMAIN Unsigned |-> Number(m, k, Unit * Unsigned[k]) \div Unit] = p.unsigned
      /\ \A k \in DOMAIN Unsigned : ~ Refused(t, k, Largest[k])
  <2>1. p.unsigned = [k \in DOMAIN Unsigned |-> p.unsigned[k]] BY DEF Sound, SoundValues, IsTable
  <2>2. ASSUME NEW k \in DOMAIN Unsigned
        PROVE  /\ Number(m, k, Unit * Unsigned[k]) \div Unit = p.unsigned[k]
               /\ ~ Refused(t, k, Largest[k])
    <3>1. p.unsigned[k] \in 0 .. Largest[k] /\ p.unsigned[k] \in Int BY DEF Sound, SoundValues
    <3>2. t[k] = JsonNumber(Unit * p.unsigned[k]) /\ m[k] = JsonNumber(Unit * p.unsigned[k])
          /\ k \in DOMAIN t /\ k \in DOMAIN m
      BY <1>2, <1>4 DEF JsonInt
    <3>3. Number(m, k, Unit * Unsigned[k]) = Unit * p.unsigned[k]
          /\ t[k].number = Unit * p.unsigned[k]
      BY <3>2, NumberRead
    <3> QED BY <3>1, <3>3, QuartersOfWhole DEF Refused
  <2> QED BY <2>1, <2>2
<1>10. /\ Text(m, "track.path", NoPath) = p.track_path
       /\ Text(m, "replay.path", NoPath) = p.replay_path
  <2>1. "track.path" \in all /\ "replay.path" \in all BY DEF TopPaths
  <2> QED BY <1>2, <1>4, <2>1, TextRead
<1> QED BY <1>3, <1>5, <1>6, <1>7, <1>8, <1>9, <1>10 DEF t, m

-----------------------------------------------------------------------------
(* Outputs.                                                                *)

(* An output without problems, key by key.                                 *)
LEMMA NoOutputProblems ==
    ASSUME NEW o
    PROVE  OutputProblems(o) = {} <=>
            /\ o.type \in OutputTypes
            /\ \A k \in DOMAIN OutputRange : o.integers[k] \in OutputRange[k]
            /\ \A k \in DOMAIN Allowed : o.texts[k] \in Allowed[k]
            /\ o.type = "serial" => o.texts["port_name"] # ""
            /\ o.type \in {"file", "log"} => o.path # NoPath
  BY DEF OutputProblems

(* The defaults of an output are accepted.                                 *)
LEMMA DefaultsAllowed ==
    ASSUME ProfileAssumption
    PROVE  /\ \A k \in DOMAIN OutputRange : k \in DOMAIN OutputIntegers
                                            /\ OutputIntegers[k] \in OutputRange[k]
           /\ \A k \in DOMAIN Allowed : k \in DOMAIN OutputTexts /\ OutputTexts[k] \in Allowed[k]
<1>1. LargestInt \in Nat /\ LargestInt >= 10110 BY Limits
<1>2. ASSUME NEW k \in DOMAIN OutputRange
      PROVE  k \in DOMAIN OutputIntegers /\ OutputIntegers[k] \in OutputRange[k]
  BY <1>1, Bounds DEF Period, OutputRange, OutputIntegers
<1>3. ASSUME NEW k \in DOMAIN Allowed
      PROVE  k \in DOMAIN OutputTexts /\ OutputTexts[k] \in Allowed[k]
  <2>1. k \in {"encoding", "mode", "parity", "stop_bits", "flow_control"} BY DEF Allowed
  <2>2. k \in DOMAIN OutputTexts BY <2>1 DEF OutputTexts
  <2>3. CASE k = "encoding" BY <2>3 DEF Allowed, OutputTexts, Encodings
  <2>4. CASE k = "mode" BY <2>4 DEF Allowed, OutputTexts
  <2>5. CASE k = "parity" BY <2>5 DEF Allowed, OutputTexts
  <2>6. CASE k = "stop_bits" BY <2>6 DEF Allowed, OutputTexts
  <2>7. CASE k = "flow_control" BY <2>7 DEF Allowed, OutputTexts
  <2> QED BY <2>1, <2>2, <2>3, <2>4, <2>5, <2>6, <2>7
<1> QED BY <1>2, <1>3

(* The keys that an output uses are read for its type.                     *)
LEMMA UsedFacts ==
    ASSUME NEW o, o.texts["encoding"] \in Encodings, o.type \in OutputTypes
    PROVE  /\ {"type", "enabled", "encoding", "filter"} \subseteq UsedKeys(o)
           /\ UsedKeys(o) \subseteq {"type", "filter"} \cup ReadAlways \cup TypeKeys(o.type)
           /\ "path" \in UsedKeys(o) <=> o.type \in {"file", "log"}
           /\ "type" \notin ReadAlways \cup TypeKeys(o.type)
           /\ "filter" \notin ReadAlways \cup TypeKeys(o.type)
           /\ o.type = "serial" => "port_name" \in UsedKeys(o)
<1>1. EncodingKeys[o.texts["encoding"]] \subseteq ReadAlways
      /\ "path" \notin EncodingKeys[o.texts["encoding"]]
  BY DEF ReadAlways, EncodingKeys, Encodings
<1>2. "type" \notin ReadAlways /\ "filter" \notin ReadAlways
  BY DEF ReadAlways, EncodingKeys, Encodings
<1>3. {"enabled", "encoding"} \subseteq ReadAlways BY DEF ReadAlways
<1>4. /\ "path" \in TypeKeys(o.type) <=> o.type \in {"file", "log"}
      /\ "type" \notin TypeKeys(o.type)
      /\ "filter" \notin TypeKeys(o.type)
      /\ o.type = "serial" => "port_name" \in TypeKeys(o.type)
  BY DEF TypeKeys, OutputTypes
<1> QED BY <1>1, <1>2, <1>3, <1>4 DEF UsedKeys

(* The tables of a sound output have the keys of the defaults.             *)
LEMMA OutputParts ==
    ASSUME NEW o, SoundOutput(o)
    PROVE  /\ DOMAIN o.numbers = DOMAIN OutputNumbers
           /\ DOMAIN o.integers = DOMAIN OutputIntegers
           /\ \A k \in DOMAIN OutputIntegers : o.integers[k] \in ExactInts
           /\ DOMAIN o.flags = DOMAIN OutputFlags
           /\ DOMAIN o.texts = DOMAIN OutputTexts
           /\ o.texts["encoding"] \in Encodings
           /\ o.type \in OutputTypes
<1>1. "encoding" \in DOMAIN Allowed /\ Allowed["encoding"] = Encodings BY DEF Allowed
<1> QED BY <1>1, NoOutputProblems DEF SoundOutput, IsTable

(* An output is written with the keys it uses, and their values.           *)
LEMMA OutputWritten ==
    ASSUME NEW o, SoundOutput(o)
    PROVE  /\ DOMAIN OutputToJson(o) = UsedKeys(o)
           /\ \A k \in UsedKeys(o) :
                /\ k \in DOMAIN OutputNumbers => OutputToJson(o)[k] = JsonNumber(o.numbers[k])
                /\ k \in DOMAIN OutputIntegers => OutputToJson(o)[k] = JsonInt(o.integers[k])
                /\ k \in DOMAIN OutputFlags => OutputToJson(o)[k] = JsonFlag(o.flags[k])
                /\ k \in DOMAIN OutputTexts => OutputToJson(o)[k] = JsonText(o.texts[k])
                /\ k = "type" => OutputToJson(o)[k] = JsonText(o.type)
                /\ k = "path" => OutputToJson(o)[k] = JsonText(o.path)
                /\ k = "filter" => OutputToJson(o)[k] = JsonText(o.filter)
<1> DEFINE names == [type |-> o.type, path |-> o.path, filter |-> o.filter]
           texts == Over(names, o.texts)
           w == Written(o.numbers, o.integers, o.flags, texts)
<1>1. OutputToJson(o) = Restrict(w, UsedKeys(o)) BY DEF OutputToJson
<1>2. DOMAIN names = OutputNames /\ names["type"] = o.type /\ names["path"] = o.path
      /\ names["filter"] = o.filter
  BY DEF OutputNames
<1> HIDE DEF names
<1>3. /\ DOMAIN texts = DOMAIN names \cup DOMAIN o.texts
      /\ \A k \in DOMAIN names : texts[k] = names[k]
      /\ \A k \in DOMAIN o.texts : k \notin DOMAIN names => texts[k] = o.texts[k]
  BY OverFacts
<1> HIDE DEF texts
<1>4. Disjoint(DOMAIN o.numbers, DOMAIN o.integers, DOMAIN o.flags, DOMAIN texts)
  BY <1>2, <1>3, OutputKeys, OutputParts
<1>5. \A k \in DOMAIN o.numbers : w[k] = JsonNumber(o.numbers[k]) BY <1>4, WrittenFacts
<1>6. \A k \in DOMAIN o.integers : w[k] = JsonInt(o.integers[k]) BY <1>4, WrittenFacts
<1>7. \A k \in DOMAIN o.flags : w[k] = JsonFlag(o.flags[k]) BY <1>4, WrittenFacts
<1>8. \A k \in DOMAIN texts : w[k] = JsonText(texts[k]) BY <1>4, WrittenFacts
<1> HIDE DEF w
<1>9. DOMAIN OutputToJson(o) = UsedKeys(o) /\ \A k \in UsedKeys(o) : OutputToJson(o)[k] = w[k]
  BY <1>1, RestrictFacts
<1>10. "type" \in DOMAIN names /\ "path" \in DOMAIN names /\ "filter" \in DOMAIN names
  BY <1>2 DEF OutputNames
<1>11. \A k \in DOMAIN OutputTexts : k \notin DOMAIN names BY <1>2, OutputKeys
<1> QED BY <1>2, <1>3, <1>5, <1>6, <1>7, <1>8, <1>9, <1>10, <1>11, OutputParts

(* What is read of an output that was written: the keys that are used,     *)
(* and the defaults of the others.                                         *)
LEMMA OutputRead ==
    ASSUME ProfileAssumption, NEW o, SoundOutput(o)
    PROVE  LET b == OutputFromJson(OutputToJson(o))
           IN  /\ b.type = o.type /\ b.filter = o.filter
               /\ b.path = IF o.type \in {"file", "log"} THEN o.path ELSE NoPath
               /\ b.numbers = [k \in DOMAIN OutputNumbers |->
                    IF k \in UsedKeys(o) THEN o.numbers[k] ELSE OutputNumbers[k]]
               /\ b.integers = [k \in DOMAIN OutputIntegers |->
                    IF k \in UsedKeys(o) THEN o.integers[k] ELSE OutputIntegers[k]]
               /\ b.flags = [k \in DOMAIN OutputFlags |->
                    IF k \in UsedKeys(o) THEN o.flags[k] ELSE OutputFlags[k]]
               /\ b.texts = [k \in DOMAIN OutputTexts |->
                    IF k \in UsedKeys(o) THEN o.texts[k] ELSE OutputTexts[k]]
<1> DEFINE j == OutputToJson(o)
           type == Text(j, "type", "")
           taken == Restrict(j, (ReadAlways \cup TypeKeys(type)) \cap DOMAIN j)
<1>1. LargestInt \in Nat BY Limits
<1>2. o.texts["encoding"] \in Encodings /\ o.type \in OutputTypes BY OutputParts
<1>3. /\ DOMAIN j = UsedKeys(o)
      /\ \A k \in UsedKeys(o) :
                /\ k \in DOMAIN OutputNumbers => j[k] = JsonNumber(o.numbers[k])
                /\ k \in DOMAIN OutputIntegers => j[k] = JsonInt(o.integers[k])
                /\ k \in DOMAIN OutputFlags => j[k] = JsonFlag(o.flags[k])
                /\ k \in DOMAIN OutputTexts => j[k] = JsonText(o.texts[k])
                /\ k = "type" => j[k] = JsonText(o.type)
                /\ k = "path" => j[k] = JsonText(o.path)
                /\ k = "filter" => j[k] = JsonText(o.filter)
  BY OutputWritten
<1> HIDE DEF j
<1>4. type = o.type
  <2>1. "type" \in DOMAIN j /\ j["type"] = JsonText(o.type) BY <1>2, <1>3, UsedFacts
  <2> QED BY <2>1, TextRead
<1> HIDE DEF type
<1>5. \A k : k # "type" /\ k # "filter" => (k \in DOMAIN taken <=> k \in UsedKeys(o))
  BY <1>2, <1>3, <1>4, UsedFacts, RestrictFacts
<1>6. \A k \in DOMAIN taken : taken[k] = j[k] BY RestrictFacts
<1> HIDE DEF taken
<1>7. OutputFromJson(j) =
        [type |-> type,
         numbers |-> Numbers(taken, OutputNumbers),
         integers |-> Integers_(taken, OutputIntegers),
         flags |-> Flags(taken, OutputFlags),
         texts |-> Texts(taken, OutputTexts),
         path |-> Text(j, "path", NoPath), filter |-> Text(j, "filter", <<>>)]
  BY DEF OutputFromJson, type, taken
<1>8. Text(j, "filter", <<>>) = o.filter
  BY <1>2, <1>3, UsedFacts, TextRead
<1>9. Text(j, "path", NoPath) = IF o.type \in {"file", "log"} THEN o.path ELSE NoPath
  BY <1>2, <1>3, UsedFacts, TextRead, NothingRead
<1>10. ASSUME NEW k \in DOMAIN OutputNumbers
       PROVE  Number(taken, k, OutputNumbers[k])
                 = IF k \in UsedKeys(o) THEN o.numbers[k] ELSE OutputNumbers[k]
  <2>1. k # "type" /\ k # "filter" BY DEF OutputNumbers
  <2>2. CASE k \in UsedKeys(o) BY <1>3, <1>5, <1>6, <2>1, <2>2, NumberRead
  <2>3. CASE k \notin UsedKeys(o) BY <1>5, <2>1, <2>3, NothingRead
  <2> QED BY <2>2, <2>3
<1>11. ASSUME NEW k \in DOMAIN OutputIntegers
       PROVE  WholeNumber(taken, k, OutputIntegers[k])
                = IF k \in UsedKeys(o) THEN o.integers[k] ELSE OutputIntegers[k]
  <2>1. k # "type" /\ k # "filter" BY DEF OutputIntegers
  <2>2. CASE k \in UsedKeys(o)
    BY <1>1, <1>3, <1>5, <1>6, <2>1, <2>2, IntRead, OutputParts
  <2>3. CASE k \notin UsedKeys(o) BY <1>5, <2>1, <2>3, NothingRead
  <2> QED BY <2>2, <2>3
<1>12. ASSUME NEW k \in DOMAIN OutputFlags
       PROVE  Flag(taken, k, OutputFlags[k])
                = IF k \in UsedKeys(o) THEN o.flags[k] ELSE OutputFlags[k]
  <2>1. k # "type" /\ k # "filter" BY DEF OutputFlags
  <2>2. CASE k \in UsedKeys(o) BY <1>3, <1>5, <1>6, <2>1, <2>2, FlagRead
  <2>3. CASE k \notin UsedKeys(o) BY <1>5, <2>1, <2>3, NothingRead
  <2> QED BY <2>2, <2>3
<1>13. ASSUME NEW k \in DOMAIN OutputTexts
       PROVE  Text(taken, k, OutputTexts[k])
                = IF k \in UsedKeys(o) THEN o.texts[k] ELSE OutputTexts[k]
  <2>1. k # "type" /\ k # "filter" BY DEF OutputTexts
  <2>2. CASE k \in UsedKeys(o) BY <1>3, <1>5, <1>6, <2>1, <2>2, TextRead
  <2>3. CASE k \notin UsedKeys(o) BY <1>5, <2>1, <2>3, NothingRead
  <2> QED BY <2>2, <2>3
<1>14. Numbers(taken, OutputNumbers) = [k \in DOMAIN OutputNumbers |->
            IF k \in UsedKeys(o) THEN o.numbers[k] ELSE OutputNumbers[k]]
  BY <1>10 DEF Numbers
<1>15. Integers_(taken, OutputIntegers) = [k \in DOMAIN OutputIntegers |->
            IF k \in UsedKeys(o) THEN o.integers[k] ELSE OutputIntegers[k]]
  BY <1>11 DEF Integers_
<1>16. Flags(taken, OutputFlags) = [k \in DOMAIN OutputFlags |->
            IF k \in UsedKeys(o) THEN o.flags[k] ELSE OutputFlags[k]]
  BY <1>12 DEF Flags
<1>17. Texts(taken, OutputTexts) = [k \in DOMAIN OutputTexts |->
            IF k \in UsedKeys(o) THEN o.texts[k] ELSE OutputTexts[k]]
  BY <1>13 DEF Texts
<1> QED BY <1>4, <1>7, <1>8, <1>9, <1>14, <1>15, <1>16, <1>17 DEF j

(* Another path, if there was one, leaves the output sound.                *)
LEMMA MovedOutput ==
    ASSUME NEW o, SoundOutput(o), NEW path \in Paths, path = NoPath <=> o.path = NoPath
    PROVE  LET m == [o EXCEPT !.path = path]
           IN  /\ SoundOutput(m)
               /\ UsedKeys(m) = UsedKeys(o)
               /\ m.path = path
               /\ m.type = o.type /\ m.filter = o.filter
               /\ m.numbers = o.numbers /\ m.integers = o.integers
               /\ m.flags = o.flags /\ m.texts = o.texts
<1> DEFINE m == [o EXCEPT !.path = path]
<1>1. DOMAIN DefaultOutput
        = {"type", "numbers", "integers", "flags", "texts", "path", "filter"}
  BY DEF DefaultOutput
<1>2. o = [k \in DOMAIN DefaultOutput |-> o[k]] BY DEF SoundOutput, IsTable
<1>3. /\ m.path = path
      /\ m.type = o.type /\ m.filter = o.filter
      /\ m.numbers = o.numbers /\ m.integers = o.integers
      /\ m.flags = o.flags /\ m.texts = o.texts
      /\ DOMAIN m = DOMAIN o
  BY <1>1, <1>2
<1>4. m = [k \in DOMAIN DefaultOutput |-> m[k]] BY <1>1, <1>2
<1> HIDE DEF m
<1>5. UsedKeys(m) = UsedKeys(o) BY <1>3 DEF UsedKeys
<1>6. OutputProblems(m) = {} BY <1>3, NoOutputProblems DEF SoundOutput
<1>7. SoundOutput(m) BY <1>3, <1>4, <1>6 DEF SoundOutput, IsTable
<1> QED BY <1>3, <1>5, <1>7 DEF m

(* An output that was written is read without problems, and means the same.*)
LEMMA OutputReread ==
    ASSUME ProfileAssumption, NEW o, SoundOutput(o)
    PROVE  LET b == OutputFromJson(OutputToJson(o))
           IN  OutputProblems(b) = {} /\ SameOutput(o, b)
<1> DEFINE b == OutputFromJson(OutputToJson(o))
<1>1. o.texts["encoding"] \in Encodings /\ o.type \in OutputTypes BY OutputParts
<1>2. /\ b.type = o.type /\ b.filter = o.filter
      /\ b.path = IF o.type \in {"file", "log"} THEN o.path ELSE NoPath
      /\ b.numbers = [k \in DOMAIN OutputNumbers |->
           IF k \in UsedKeys(o) THEN o.numbers[k] ELSE OutputNumbers[k]]
      /\ b.integers = [k \in DOMAIN OutputIntegers |->
           IF k \in UsedKeys(o) THEN o.integers[k] ELSE OutputIntegers[k]]
      /\ b.flags = [k \in DOMAIN OutputFlags |->
           IF k \in UsedKeys(o) THEN o.flags[k] ELSE OutputFlags[k]]
      /\ b.texts = [k \in DOMAIN OutputTexts |->
           IF k \in UsedKeys(o) THEN o.texts[k] ELSE OutputTexts[k]]
  BY OutputRead
<1> HIDE DEF b
<1>3. /\ o.type \in OutputTypes
      /\ \A k \in DOMAIN OutputRange : o.integers[k] \in OutputRange[k]
      /\ \A k \in DOMAIN Allowed : o.texts[k] \in Allowed[k]
      /\ o.type = "serial" => o.texts["port_name"] # ""
      /\ o.type \in {"file", "log"} => o.path # NoPath
  BY NoOutputProblems DEF SoundOutput
<1>4. /\ \A k \in DOMAIN OutputRange : k \in DOMAIN OutputIntegers
                                       /\ OutputIntegers[k] \in OutputRange[k]
      /\ \A k \in DOMAIN Allowed : k \in DOMAIN OutputTexts /\ OutputTexts[k] \in Allowed[k]
  BY DefaultsAllowed
<1>5. OutputProblems(b) = {}
  <2>1. \A k \in DOMAIN OutputRange : b.integers[k] \in OutputRange[k] BY <1>2, <1>3, <1>4
  <2>2. \A k \in DOMAIN Allowed : b.texts[k] \in Allowed[k] BY <1>2, <1>3, <1>4
  <2>3. o.type = "serial" => b.texts["port_name"] # ""
    <3>1. "port_name" \in DOMAIN OutputTexts BY DEF OutputTexts
    <3> QED BY <1>1, <1>2, <1>3, <3>1, UsedFacts
  <2> QED BY <1>2, <1>3, <2>1, <2>2, <2>3, NoOutputProblems
<1>6. b.texts["encoding"] = o.texts["encoding"]
  <2>1. "encoding" \in DOMAIN OutputTexts BY DEF OutputTexts
  <2> QED BY <1>1, <1>2, <2>1, UsedFacts
<1>7. UsedKeys(b) = UsedKeys(o) BY <1>2, <1>6 DEF UsedKeys
<1>8. SameOutput(o, b)
  <2>1. DOMAIN o.numbers = DOMAIN OutputNumbers /\ DOMAIN o.integers = DOMAIN OutputIntegers
        /\ DOMAIN o.flags = DOMAIN OutputFlags /\ DOMAIN o.texts = DOMAIN OutputTexts
    BY OutputParts
  <2>2. \A part \in {"numbers", "integers", "flags", "texts"} :
            /\ DOMAIN o[part] = DOMAIN b[part]
            /\ \A k \in UsedKeys(o) \cap DOMAIN o[part] : o[part][k] = b[part][k]
    BY <1>2, <2>1
  <2>3. ASSUME NEW part \in {"numbers", "integers", "flags", "texts"}
        PROVE  Restrict(o[part], UsedKeys(o) \cap DOMAIN o[part])
                = Restrict(b[part], UsedKeys(b) \cap DOMAIN b[part])
    BY <1>7, <2>2 DEF Restrict
  <2> QED BY <1>2, <2>3 DEF SameOutput
<1> QED BY <1>5, <1>8 DEF b

(* An output that is read without problems is sound.                       *)
LEMMA OutputSound ==
    ASSUME ProfileAssumption, NEW j, IsObject(j), OutputProblems(OutputFromJson(j)) = {}
    PROVE  SoundOutput(OutputFromJson(j))
<1> DEFINE o == OutputFromJson(j)
           type == Text(j, "type", "")
           taken == Restrict(j, (ReadAlways \cup TypeKeys(type)) \cap DOMAIN j)
<1>1. o = [type |-> type,
           numbers |-> Numbers(taken, OutputNumbers),
           integers |-> Integers_(taken, OutputIntegers),
           flags |-> Flags(taken, OutputFlags),
           texts |-> Texts(taken, OutputTexts),
           path |-> Text(j, "path", NoPath), filter |-> Text(j, "filter", <<>>)]
  BY DEF OutputFromJson
<1>2. \A k \in DOMAIN taken : k \in DOMAIN j /\ taken[k] = j[k] BY RestrictFacts
<1> HIDE DEF o, taken, type
<1>3. IsTable(o, DOMAIN DefaultOutput) BY <1>1 DEF IsTable, DefaultOutput
<1>4. o.numbers \in [DOMAIN OutputNumbers -> Int]
  <2>1. ASSUME NEW k \in DOMAIN OutputNumbers PROVE Number(taken, k, OutputNumbers[k]) \in Int
    BY <1>2, Defaults DEF Number, Has, IsObject
  <2> QED BY <1>1, <2>1 DEF Numbers
<1>5. o.integers \in [DOMAIN OutputIntegers -> ExactInts]
  <2>1. ASSUME NEW k \in DOMAIN OutputIntegers
        PROVE  WholeNumber(taken, k, OutputIntegers[k]) \in ExactInts
    BY Defaults, WholeNumberType
  <2> QED BY <1>1, <2>1 DEF Integers_
<1>6. IsTable(o.flags, DOMAIN OutputFlags) /\ IsTable(o.texts, DOMAIN OutputTexts)
  BY <1>1 DEF Flags, Texts, IsTable
<1>7. o.path \in Paths
  <2>1. Text(j, "path", NoPath) \in Paths BY DEF Text, Has, IsObject, PathKeys, Paths
  <2> QED BY <1>1, <2>1
<1> QED BY <1>3, <1>4, <1>5, <1>6, <1>7 DEF SoundOutput, o

(* The output of a new profile is sound.                                   *)
LEMMA DefaultOutputSound ==
    ASSUME ProfileAssumption
    PROVE  SoundOutput(DefaultOutput)
<1>1. /\ \A k \in DOMAIN OutputRange : OutputIntegers[k] \in OutputRange[k]
      /\ \A k \in DOMAIN Allowed : OutputTexts[k] \in Allowed[k]
  BY DefaultsAllowed
<1>2. OutputProblems(DefaultOutput) = {}
  BY <1>1, NoOutputProblems DEF DefaultOutput, OutputTypes
<1>3. IsTable(DefaultOutput, DOMAIN DefaultOutput) BY DEF IsTable, DefaultOutput
<1>4. DefaultOutput.path \in Paths BY DEF DefaultOutput, Paths
<1> QED BY <1>2, <1>3, <1>4, Defaults DEF SoundOutput, DefaultOutput

-----------------------------------------------------------------------------
(* Profiles.                                                               *)

(* Settings and custom sentences without problems, key by key.             *)
LEMMA NoSimulationProblems ==
    ASSUME NEW p
    PROVE  SimulationProblems(p) = {} <=>
            /\ \A k \in DOMAIN ProfileRange : p.integers[k] \in ProfileRange[k]
            /\ p.texts["mode"] \in Modes
            /\ p.texts["start_time"] \in Times
            /\ ~ (p.numbers["track.speed_kn"] <= 0)
            /\ p.texts["mode"] = "track" => p.track_path # NoPath
            /\ p.texts["mode"] = "replay" => p.replay_path # NoPath
  BY DEF SimulationProblems

LEMMA NoCustomProblems ==
    ASSUME NEW p
    PROVE  CustomProblems(p) = {} <=>
            \A i \in DOMAIN p.custom_sentences :
                /\ p.custom_sentences[i].body \in Bodies
                /\ p.custom_sentences[i].id \notin SentenceIds
                /\ p.custom_sentences[i].period \in Period
                /\ \A j \in 1 .. i - 1 : EffectiveId(p.custom_sentences[j], j)
                                            # EffectiveId(p.custom_sentences[i], i)
  BY DEF CustomProblems

(* A list has the numbers up to its length; a table of those is a list.    *)
LEMMA ListDomain ==
    ASSUME NEW s, IsList(s)
    PROVE  Len(s) \in Nat /\ DOMAIN s = 1 .. Len(s) /\ s = [i \in DOMAIN s |-> s[i]]
  BY DEF IsList

LEMMA MappedList ==
    ASSUME NEW n \in Nat, NEW f, DOMAIN f = 1 .. n, f = [i \in DOMAIN f |-> f[i]]
    PROVE  IsList(f)
<1>1. f \in [1 .. n -> Range(f)] BY DEF Range
<1> QED BY <1>1 DEF IsList

(* The items of the lists are read as they were written.                   *)
LEMMA EngineRead ==
    ASSUME NEW e, e = Engine(e.label, e.running, e.rpm, e.coolant_temperature_c)
    PROVE  LET j == EngineToJson(e)
           IN  Engine(Text(j, "label", "Engine"), Flag(j, "running", FALSE),
                      Number(j, "rpm", 0), Number(j, "coolant_temperature_c", 20 * Unit)) = e
<1> DEFINE j == EngineToJson(e)
<1>1. /\ {"label", "running", "rpm", "coolant_temperature_c"} \subseteq DOMAIN j
      /\ j["label"] = JsonText(e.label)
      /\ j["running"] = JsonFlag(e.running)
      /\ j["rpm"] = JsonNumber(e.rpm)
      /\ j["coolant_temperature_c"] = JsonNumber(e.coolant_temperature_c)
  BY DEF EngineToJson
<1> HIDE DEF j
<1>2. Text(j, "label", "Engine") = e.label BY <1>1, TextRead
<1>3. Flag(j, "running", FALSE) = e.running BY <1>1 DEF JsonFlag, Flag, Has
<1>4. Number(j, "rpm", 0) = e.rpm BY <1>1, NumberRead
<1>5. Number(j, "coolant_temperature_c", 20 * Unit) = e.coolant_temperature_c
  BY <1>1, NumberRead
<1> QED BY <1>2, <1>3, <1>4, <1>5 DEF j

LEMMA DestinationRead ==
    ASSUME NEW d, NEW numbers,
           d = [name |-> d.name, numbers |-> [k \in DestinationKeys |-> d.numbers[k]]]
    PROVE  DestinationFromJson(DestinationToJson(d), numbers) = d
<1> DEFINE j == DestinationToJson(d)
           default == [latitude |-> 0, longitude |-> 0,
                    origin_latitude |-> numbers["seed.position.latitude"],
                    origin_longitude |-> numbers["seed.position.longitude"],
                    arrival_radius_m |-> 100 * Unit]
           plain == [k \in DestinationKeys |-> JsonNumber(d.numbers[k])]
<1>1. DestinationFromJson(j, numbers)
        = [name |-> Text(j, "name", "WPT"), numbers |-> Numbers(j, default)]
  BY DEF DestinationFromJson
<1>2. j = With(plain, "name", JsonText(d.name)) BY DEF DestinationToJson
<1>3. "name" \notin DestinationKeys BY DEF DestinationKeys
<1>4. DOMAIN plain = DestinationKeys
      /\ \A k \in DestinationKeys : plain[k] = JsonNumber(d.numbers[k])
  OBVIOUS
<1>5. DOMAIN default = DestinationKeys BY DEF DestinationKeys
<1> HIDE DEF plain, j, default
<1>6. DOMAIN j = DestinationKeys \cup {"name"} BY <1>2, <1>4, WithDomain
<1>7. j["name"] = JsonText(d.name) BY <1>2, WithKey
<1>8. \A k \in DestinationKeys : j[k] = JsonNumber(d.numbers[k])
  BY <1>2, <1>3, <1>4, WithOther
<1>9. Text(j, "name", "WPT") = d.name BY <1>6, <1>7, TextRead
<1>10. ASSUME NEW k \in DestinationKeys PROVE Number(j, k, default[k]) = d.numbers[k]
  BY <1>6, <1>8, NumberRead
<1>11. Numbers(j, default) = [k \in DestinationKeys |-> d.numbers[k]]
  BY <1>5, <1>10 DEF Numbers
<1> QED BY <1>1, <1>9, <1>11 DEF j

LEMMA SettingRead ==
    ASSUME ProfileAssumption, NEW id, NEW enabled, NEW talker, NEW period \in Period
    PROVE  SettingFromJson(id, [enabled |-> JsonFlag(enabled), talker |-> JsonText(talker),
                                period_ms |-> JsonInt(period)])
            = [enabled |-> enabled, talker |-> talker, period |-> period]
<1> DEFINE j == [enabled |-> JsonFlag(enabled), talker |-> JsonText(talker),
                 period_ms |-> JsonInt(period)]
<1>1. /\ {"enabled", "talker", "period_ms"} \subseteq DOMAIN j
      /\ j["enabled"] = JsonFlag(enabled) /\ j["talker"] = JsonText(talker)
      /\ j["period_ms"] = JsonInt(period)
  OBVIOUS
<1> HIDE DEF j
<1>2. period \in ExactInts /\ LargestInt \in Nat BY Limits, PeriodExact
<1>3. Flag(j, "enabled", DefaultSetting[id].enabled) = enabled
  BY <1>1 DEF JsonFlag, Flag, Has
<1>4. Text(j, "talker", "") = talker BY <1>1, TextRead
<1>5. WholeNumber(j, "period_ms", DefaultSetting[id].period) = period BY <1>1, <1>2, IntRead
<1> QED BY <1>3, <1>4, <1>5 DEF SettingFromJson, j

LEMMA CustomRead ==
    ASSUME ProfileAssumption, NEW c, c.period \in Period,
           c = [id |-> Upper(c.id), body |-> c.body, period |-> c.period,
                enabled |-> c.enabled]
    PROVE  CustomFromJson([id |-> JsonText(c.id), body |-> JsonText(c.body),
                           period_ms |-> JsonInt(c.period), enabled |-> JsonFlag(c.enabled)])
            = c
<1> DEFINE j == [id |-> JsonText(c.id), body |-> JsonText(c.body),
                 period_ms |-> JsonInt(c.period), enabled |-> JsonFlag(c.enabled)]
<1>1. /\ {"id", "body", "enabled", "period_ms"} \subseteq DOMAIN j
      /\ j["id"] = JsonText(c.id) /\ j["body"] = JsonText(c.body)
      /\ j["enabled"] = JsonFlag(c.enabled) /\ j["period_ms"] = JsonInt(c.period)
  OBVIOUS
<1> HIDE DEF j
<1>2. c.period \in ExactInts /\ LargestInt \in Nat BY Limits, PeriodExact
<1> DEFINE id == Text(j, "id", "")
           body == Text(j, "body", "")
           period == WholeNumber(j, "period_ms", 1000)
           enabled == Flag(j, "enabled", TRUE)
<1>3. id = c.id BY <1>1 DEF JsonText, Text, Has
<1>4. body = c.body BY <1>1 DEF JsonText, Text, Has
<1>5. period = c.period BY <1>1, <1>2, IntRead
<1>6. enabled = c.enabled BY <1>1 DEF JsonFlag, Flag, Has
<1>7. CustomFromJson(j) = [id |-> Upper(id), body |-> body, period |-> period,
                           enabled |-> enabled]
  BY DEF CustomFromJson
<1> HIDE DEF id, body, period, enabled
<1>8. CustomFromJson(j) = c BY <1>3, <1>4, <1>5, <1>6, <1>7
<1> QED BY <1>8 DEF j

(* A profile that was written is read again, with its values.              *)
LEMMA RoundTrip ==
    ASSUME ProfileAssumption, NEW p, Sound(p)
    PROVE  LET q == ReadDocument(ToJson(p))
           IN  /\ \A part \in Values : q[part] = p[part]
               /\ q.track_path = p.track_path /\ q.replay_path = p.replay_path
               /\ q.outputs = [i \in DOMAIN p.outputs |->
                                OutputFromJson(OutputToJson(p.outputs[i]))]
               /\ UnsignedProblems(ToJson(p)) = {}
               /\ VersionProblems(ToJson(p)) = {}
<1> DEFINE D == ToJson(p)
           q == ReadDocument(D)
           t == TopToJson(p)
           m == Migrate(t, WholeNumber(t, "schema_version", 0))
           engines == [i \in DOMAIN p.engines |-> EngineToJson(p.engines[i])]
           settings == [id \in DOMAIN p.sentences |->
                [enabled |-> JsonFlag(p.sentences[id].enabled),
                 talker |-> JsonText(p.sentences[id].talker),
                 period_ms |-> JsonInt(p.sentences[id].period)]]
           custom == [i \in DOMAIN p.custom_sentences |->
                [id |-> JsonText(p.custom_sentences[i].id),
                 body |-> JsonText(p.custom_sentences[i].body),
                 period_ms |-> JsonInt(p.custom_sentences[i].period),
                 enabled |-> JsonFlag(p.custom_sentences[i].enabled)]]
           outputs == [i \in DOMAIN p.outputs |-> OutputToJson(p.outputs[i])]
           destination == {DestinationToJson(d) : d \in p.destination}
<1>1. /\ WholeNumber(t, "schema_version", 0) = CurrentSchemaVersion
      /\ Numbers(m, ProfileNumbers) = p.numbers
      /\ Integers_(m, ProfileIntegers) = p.integers
      /\ Flags(m, ProfileFlags) = p.flags
      /\ Texts(m, ProfileTexts) = p.texts
      /\ [k \in DOMAIN Unsigned |-> Number(m, k, Unit * Unsigned[k]) \div Unit] = p.unsigned
      /\ \A k \in DOMAIN Unsigned : ~ Refused(t, k, Largest[k])
      /\ Text(m, "track.path", NoPath) = p.track_path
      /\ Text(m, "replay.path", NoPath) = p.replay_path
  BY TopRead
<1>2. /\ DOMAIN D = {"top", "engines", "destination", "settings", "custom", "outputs"}
      /\ D.top = t /\ D.engines = engines /\ D.destination = destination
      /\ D.settings = settings /\ D.custom = custom /\ D.outputs = outputs
  BY DEF ToJson
<1>3. DOMAIN engines = DOMAIN p.engines /\ DOMAIN settings = DOMAIN p.sentences
      /\ DOMAIN custom = DOMAIN p.custom_sentences /\ DOMAIN outputs = DOMAIN p.outputs
  OBVIOUS
<1>4. EnginesFromJson(engines) = p.engines
  <2>1. p.engines = [i \in DOMAIN p.engines |-> p.engines[i]] BY ListDomain DEF Sound, SoundValues
  <2>2. ASSUME NEW i \in DOMAIN p.engines
        PROVE  LET e == engines[i]
               IN  Engine(Text(e, "label", "Engine"), Flag(e, "running", FALSE),
                          Number(e, "rpm", 0), Number(e, "coolant_temperature_c", 20 * Unit))
                    = p.engines[i]
    <3>1. engines[i] = EngineToJson(p.engines[i]) OBVIOUS
    <3>2. p.engines[i] = Engine(p.engines[i].label, p.engines[i].running, p.engines[i].rpm,
                                p.engines[i].coolant_temperature_c)
      BY DEF Sound, SoundValues
    <3> HIDE DEF engines
    <3> QED BY <3>1, <3>2, EngineRead
  <2> QED BY <1>3, <2>1, <2>2 DEF EnginesFromJson
<1>5. {DestinationFromJson(d, p.numbers) : d \in destination} = p.destination
  <2>1. \A d \in p.destination : DestinationFromJson(DestinationToJson(d), p.numbers) = d
    BY DestinationRead DEF Sound, SoundValues
  <2> QED BY <2>1
<1>6. [id \in DOMAIN settings \cap SentenceIds |-> SettingFromJson(id, settings[id])]
        = p.sentences
  <2>1. /\ DOMAIN p.sentences \subseteq SentenceIds
        /\ p.sentences = [id \in DOMAIN p.sentences |->
                [enabled |-> p.sentences[id].enabled, talker |-> p.sentences[id].talker,
                 period |-> p.sentences[id].period]]
        /\ \A id \in DOMAIN p.sentences : p.sentences[id].period \in Period
    BY DEF Sound, SoundValues, SoundSettings
  <2>2. ASSUME NEW id \in DOMAIN p.sentences
        PROVE  SettingFromJson(id, settings[id])
                = [enabled |-> p.sentences[id].enabled, talker |-> p.sentences[id].talker,
                   period |-> p.sentences[id].period]
    BY <2>1, SettingRead
  <2> HIDE DEF settings
  <2> QED BY <1>3, <2>1, <2>2
<1>7. [i \in DOMAIN custom |-> CustomFromJson(custom[i])] = p.custom_sentences
  <2>1. /\ p.custom_sentences = [i \in DOMAIN p.custom_sentences |-> p.custom_sentences[i]]
        /\ \A i \in DOMAIN p.custom_sentences :
            /\ p.custom_sentences[i].period \in Period
            /\ p.custom_sentences[i] =
                [id |-> Upper(p.custom_sentences[i].id), body |-> p.custom_sentences[i].body,
                 period |-> p.custom_sentences[i].period,
                 enabled |-> p.custom_sentences[i].enabled]
    BY ListDomain, NoCustomProblems DEF Sound, SoundValues, SoundCustom
  <2>2. ASSUME NEW i \in DOMAIN p.custom_sentences
        PROVE  CustomFromJson(custom[i]) = p.custom_sentences[i]
    BY <2>1, CustomRead
  <2> HIDE DEF custom
  <2> QED BY <1>3, <2>1, <2>2
<1>8. [i \in DOMAIN outputs |-> OutputFromJson(outputs[i])]
        = [i \in DOMAIN p.outputs |-> OutputFromJson(OutputToJson(p.outputs[i]))]
  OBVIOUS
<1>9. [p.texts EXCEPT !["start_time"] = IF @ = "" THEN "now" ELSE @] = p.texts
  <2>1. p.texts = [k \in DOMAIN ProfileTexts |-> p.texts[k]] BY DEF Sound, SoundValues, IsTable
  <2>2. p.texts["start_time"] # "" BY NoSimulationProblems DEF Sound, SoundValues, Times
  <2> QED BY <2>1, <2>2
<1> HIDE DEF m, t, engines, settings, custom, outputs, destination
<1>10. q = [numbers |-> p.numbers, integers |-> p.integers, flags |-> p.flags,
            texts |-> p.texts, unsigned |-> p.unsigned,
            track_path |-> p.track_path, replay_path |-> p.replay_path,
            engines |-> p.engines, destination |-> p.destination,
            sentences |-> p.sentences, custom_sentences |-> p.custom_sentences,
            outputs |-> [i \in DOMAIN p.outputs |-> OutputFromJson(OutputToJson(p.outputs[i]))],
            base_directory |-> None]
  <2>1. "engines" \in DOMAIN D BY <1>2
  <2> HIDE DEF D
  <2>2. q = [numbers |-> Numbers(m, ProfileNumbers),
             integers |-> Integers_(m, ProfileIntegers),
             flags |-> Flags(m, ProfileFlags),
             texts |-> [Texts(m, ProfileTexts) EXCEPT
                            !["start_time"] = IF @ = "" THEN "now" ELSE @],
             unsigned |-> [k \in DOMAIN Unsigned |->
                                Number(m, k, Unit * Unsigned[k]) \div Unit],
             track_path |-> Text(m, "track.path", NoPath),
             replay_path |-> Text(m, "replay.path", NoPath),
             engines |-> EnginesFromJson(engines),
             destination |-> {DestinationFromJson(d, Numbers(m, ProfileNumbers)) :
                                    d \in destination},
             sentences |-> [id \in DOMAIN settings \cap SentenceIds |->
                                SettingFromJson(id, settings[id])],
             custom_sentences |-> [i \in DOMAIN custom |-> CustomFromJson(custom[i])],
             outputs |-> [i \in DOMAIN outputs |-> OutputFromJson(outputs[i])],
             base_directory |-> None]
    BY <1>2, <2>1 DEF ReadDocument, m
  <2>3. {DestinationFromJson(d, Numbers(m, ProfileNumbers)) : d \in destination}
            = p.destination
    BY <1>1, <1>5
  <2>4. [Texts(m, ProfileTexts) EXCEPT !["start_time"] = IF @ = "" THEN "now" ELSE @]
            = p.texts
    BY <1>1, <1>9
  <2>5. [i \in DOMAIN outputs |-> OutputFromJson(outputs[i])]
            = [i \in DOMAIN p.outputs |-> OutputFromJson(OutputToJson(p.outputs[i]))]
    BY <1>8
  <2> QED BY <1>1, <1>4, <1>6, <1>7, <2>2, <2>3, <2>4, <2>5, Zenon
<1> HIDE DEF q, D
<1>11. UnsignedProblems(D) = {} BY <1>1, <1>2 DEF UnsignedProblems
<1>12. VersionProblems(D) = {}
  BY <1>1, <1>2 DEF VersionProblems, CurrentSchemaVersion
<1>13. \A part \in Values : q[part] = p[part] BY <1>10 DEF Values
<1> QED BY <1>10, <1>11, <1>12, <1>13 DEF q, D

(* Soundness of the values is about the values.                            *)
LEMMA SameValues ==
    ASSUME NEW p, NEW q, \A part \in Values : q[part] = p[part], SoundValues(p)
    PROVE  SoundValues(q)
<1>1. /\ q.numbers = p.numbers /\ q.integers = p.integers /\ q.flags = p.flags
      /\ q.texts = p.texts /\ q.unsigned = p.unsigned /\ q.engines = p.engines
      /\ q.destination = p.destination /\ q.sentences = p.sentences
      /\ q.custom_sentences = p.custom_sentences
  BY DEF Values
<1>2. CustomProblems(q) = CustomProblems(p) BY <1>1 DEF CustomProblems
<1> QED BY <1>1, <1>2 DEF SoundValues

(* Where a path leads is what it was, in another directory.                *)
LEMMA MovedFacts ==
    ASSUME ProfileAssumption, NEW p, p.base_directory \in Int \cup {None},
           NEW target \in Int, NEW path \in Paths
    PROVE  /\ Moved(p, target, path) \in Paths
           /\ Moved(p, target, path) = NoPath <=> path = NoPath
           /\ p.base_directory # None \/ ~ path.relative =>
                \A q : q.base_directory = target
                    => SameFile(p, path, q, Moved(p, target, path))
<1>1. None \notin Int BY Limits
<1>2. CASE path = NoPath
  BY <1>2 DEF Moved, SameFile
<1>3. CASE path # NoPath
  <2>1. path \in [relative : BOOLEAN, at : Int] BY <1>3 DEF Paths
  <2>2. CASE ~ path.relative
    BY <1>3, <2>1, <2>2 DEF Moved, SameFile, PlaceOf, ResolvePath
  <2>3. CASE path.relative /\ p.base_directory = None
    BY <1>3, <2>1, <2>3 DEF Moved
  <2>4. CASE path.relative /\ p.base_directory = target
    BY <1>1, <1>3, <2>1, <2>4 DEF Moved, SameFile, PlaceOf, ResolvePath, Absolute
  <2>5. CASE path.relative /\ p.base_directory \notin {None, target}
    <3> DEFINE moved == Relative(p.base_directory + path.at - target)
    <3>1. p.base_directory \in Int /\ target \in Int /\ path.at \in Int
      BY <1>1, <2>1, <2>5
    <3>2. ResolvePath(p, path) = Absolute(p.base_directory + path.at)
      BY <1>3, <2>5 DEF ResolvePath
    <3>3. Moved(p, target, path) = moved
      <4>1. ResolvePath(p, path).at = p.base_directory + path.at BY <3>2 DEF Absolute
      <4>2. Moved(p, target, path) = Relative(ResolvePath(p, path).at - target)
        BY <1>3, <2>5 DEF Moved
      <4> HIDE DEF Relative
      <4> QED BY <3>1, <4>1, <4>2
    <3>4. moved \in Paths /\ moved # NoPath /\ moved.relative
          /\ moved.at = p.base_directory + path.at - target
      BY <3>1 DEF Relative, Paths, NoPath
    <3> HIDE DEF moved
    <3>5. PlaceOf(p, path) = p.base_directory + path.at
      BY <3>2 DEF PlaceOf, Absolute
    <3>6. ASSUME NEW q, q.base_directory = target
          PROVE  PlaceOf(q, moved) = p.base_directory + path.at
      <4>1. ResolvePath(q, moved) = Absolute(target + moved.at)
        BY <1>1, <3>1, <3>4, <3>6 DEF ResolvePath
      <4>2. target + moved.at = p.base_directory + path.at BY <3>1, <3>4
      <4> QED BY <4>1, <4>2 DEF PlaceOf, Absolute
    <3> QED BY <1>3, <3>3, <3>4, <3>5, <3>6 DEF SameFile
  <2> QED BY <2>2, <2>3, <2>4, <2>5
<1> QED BY <1>2, <1>3

(* Relocated paths leave a profile sound, and nothing else changes.        *)
LEMMA RelocatedFacts ==
    ASSUME ProfileAssumption, NEW p, Sound(p), NEW d \in Int
    PROVE  LET q == Relocated(p, d)
           IN  /\ Sound(q)
               /\ \A part \in Values : q[part] = p[part]
               /\ q.track_path = Moved(p, d, p.track_path)
               /\ q.replay_path = Moved(p, d, p.replay_path)
               /\ q.outputs = [i \in DOMAIN p.outputs |->
                    [p.outputs[i] EXCEPT !.path = Moved(p, d, p.outputs[i].path)]]
<1> DEFINE q == Relocated(p, d)
           outputs == [i \in DOMAIN p.outputs |->
                    [p.outputs[i] EXCEPT !.path = Moved(p, d, p.outputs[i].path)]]
<1>1. DOMAIN p = {"numbers", "integers", "flags", "texts", "unsigned", "track_path",
                  "replay_path", "engines", "destination", "sentences",
                  "custom_sentences", "outputs", "base_directory"}
  BY DEF Sound, DefaultProfile
<1>2. /\ DOMAIN q = DOMAIN p
      /\ \A f \in DOMAIN p \ {"track_path", "replay_path", "outputs"} : q[f] = p[f]
      /\ q.track_path = Moved(p, d, p.track_path)
      /\ q.replay_path = Moved(p, d, p.replay_path)
      /\ q.outputs = outputs
  <2>1. q = [p EXCEPT !.track_path = Moved(p, d, p.track_path),
                      !.replay_path = Moved(p, d, p.replay_path),
                      !.outputs = outputs]
    BY DEF Relocated, q, outputs
  <2> HIDE DEF q, outputs
  <2> QED BY <1>1, <2>1
<1> HIDE DEF q, outputs
<1>3. \A part \in Values : q[part] = p[part] BY <1>1, <1>2 DEF Values
<1>4. SoundValues(q) BY <1>3, SameValues DEF Sound
<1>5. q.base_directory = p.base_directory /\ p.base_directory \in Int \cup {None}
  BY <1>1, <1>2 DEF Sound
<1>6. p.track_path \in Paths /\ p.replay_path \in Paths BY DEF Sound
<1>7. /\ q.track_path \in Paths /\ q.replay_path \in Paths
      /\ q.track_path = NoPath <=> p.track_path = NoPath
      /\ q.replay_path = NoPath <=> p.replay_path = NoPath
  BY <1>2, <1>5, <1>6, MovedFacts
<1>8. SimulationProblems(q) = {}
  <2>1. q.numbers = p.numbers /\ q.integers = p.integers /\ q.texts = p.texts
    BY <1>3 DEF Values
  <2>2. SimulationProblems(p) = {} BY DEF Sound
  <2> QED BY <1>7, <2>1, <2>2, NoSimulationProblems
<1>9. SoundOutputs(outputs)
  <2>1. IsList(p.outputs) /\ \A i \in DOMAIN p.outputs : SoundOutput(p.outputs[i])
    BY DEF Sound, SoundOutputs
  <2>2. Len(p.outputs) \in Nat /\ DOMAIN p.outputs = 1 .. Len(p.outputs) BY <2>1, ListDomain
  <2>3. IsList(outputs)
    BY <2>2, MappedList DEF outputs
  <2>4. ASSUME NEW i \in DOMAIN p.outputs PROVE SoundOutput(outputs[i])
    <3>1. p.outputs[i].path \in Paths BY <2>1 DEF SoundOutput
    <3>2. /\ Moved(p, d, p.outputs[i].path) \in Paths
          /\ Moved(p, d, p.outputs[i].path) = NoPath <=> p.outputs[i].path = NoPath
      BY <1>5, <3>1, MovedFacts
    <3>3. SoundOutput([p.outputs[i] EXCEPT !.path = Moved(p, d, p.outputs[i].path)])
      BY <2>1, <3>2, MovedOutput
    <3> QED BY <3>3 DEF outputs
  <2>5. DOMAIN outputs = DOMAIN p.outputs BY DEF outputs
  <2> QED BY <2>3, <2>4, <2>5 DEF SoundOutputs
<1>10. Sound(q)
  BY <1>2, <1>4, <1>5, <1>7, <1>8, <1>9 DEF Sound
<1> QED BY <1>2, <1>3, <1>10 DEF q, outputs

(* A profile the program can hold is written as a valid document.          *)
LEMMA WrittenValid ==
    ASSUME ProfileAssumption, NEW p, Sound(p)
    PROVE  Valid(ToJson(p))
<1> DEFINE D == ToJson(p)
           q == ReadDocument(D)
<1>1. /\ \A part \in Values : q[part] = p[part]
      /\ q.track_path = p.track_path /\ q.replay_path = p.replay_path
      /\ q.outputs = [i \in DOMAIN p.outputs |-> OutputFromJson(OutputToJson(p.outputs[i]))]
      /\ UnsignedProblems(D) = {}
      /\ VersionProblems(D) = {}
  BY RoundTrip
<1>2. /\ D.destination = {DestinationToJson(d) : d \in p.destination}
      /\ DOMAIN D.settings = DOMAIN p.sentences
  BY DEF ToJson
<1> HIDE DEF D, q
<1>3. /\ q.numbers = p.numbers /\ q.integers = p.integers /\ q.texts = p.texts
      /\ q.sentences = p.sentences /\ q.custom_sentences = p.custom_sentences
  BY <1>1 DEF Values
<1>4. SimulationProblems(q) = {}
  <2>1. SimulationProblems(p) = {} BY DEF Sound
  <2> QED BY <1>1, <1>3, <2>1, NoSimulationProblems
<1>5. SeedProblems(D, q) = {}
  <2>1. q.texts["seed.gnss.quality"] \in Qualities BY <1>3 DEF Sound, SoundValues
  <2>2. ASSUME NEW d \in p.destination, NEW k \in {"latitude", "longitude"}
        PROVE  Has(DestinationToJson(d), k, "number")
    <3> DEFINE plain == [key \in DestinationKeys |-> JsonNumber(d.numbers[key])]
    <3>1. DestinationToJson(d) = With(plain, "name", JsonText(d.name))
      BY DEF DestinationToJson
    <3>2. k \in DestinationKeys /\ k # "name" BY DEF DestinationKeys
    <3>3. DOMAIN plain = DestinationKeys /\ plain[k] = JsonNumber(d.numbers[k]) BY <3>2
    <3> HIDE DEF plain
    <3>4. DestinationToJson(d)[k] = JsonNumber(d.numbers[k])
      BY <3>1, <3>2, <3>3, WithOther
    <3>5. DOMAIN DestinationToJson(d) = DOMAIN plain \cup {"name"} BY <3>1, WithDomain
    <3>6. k \in DOMAIN DestinationToJson(d) BY <3>2, <3>3, <3>5
    <3> QED BY <3>4, <3>6 DEF Has, JsonNumber
  <2>3. \A k \in {"latitude", "longitude"} : \A e \in D.destination : Has(e, k, "number")
    BY <1>2, <2>2
  <2> QED BY <2>1, <2>3 DEF SeedProblems
<1>6. SentenceProblems(D, q) = {}
  BY <1>2, <1>3 DEF SentenceProblems, Sound, SoundValues, SoundSettings
<1>7. CustomProblems(q) = {} BY <1>3 DEF CustomProblems, Sound, SoundValues
<1>8. \A i \in DOMAIN q.outputs : OutputProblems(q.outputs[i]) = {}
  <2>1. \A i \in DOMAIN p.outputs : SoundOutput(p.outputs[i]) BY DEF Sound, SoundOutputs
  <2> QED BY <1>1, <2>1, OutputReread
<1> QED BY <1>1, <1>4, <1>5, <1>6, <1>7, <1>8 DEF Valid, q, D

(* What is loaded is what was read, with its directory.                    *)
LEMMA LoadFacts ==
    ASSUME NEW doc, NEW d
    PROVE  LET p == ReadDocument(doc)
               q == Load(doc, d)
           IN  /\ DOMAIN q = DOMAIN DefaultProfile /\ q.base_directory = d
               /\ \A part \in Values : q[part] = p[part]
               /\ q.track_path = p.track_path /\ q.replay_path = p.replay_path
               /\ q.outputs = p.outputs
<1> DEFINE p == ReadDocument(doc)
           q == Load(doc, d)
<1>1. DOMAIN p = {"numbers", "integers", "flags", "texts", "unsigned", "track_path",
                  "replay_path", "engines", "destination", "sentences",
                  "custom_sentences", "outputs", "base_directory"}
  BY DEF ReadDocument
<1>2. DOMAIN DefaultProfile = DOMAIN p BY <1>1 DEF DefaultProfile
<1> HIDE DEF p
<1>3. q = [p EXCEPT !.base_directory = d] BY DEF Load, p
<1> HIDE DEF q
<1>4. /\ DOMAIN q = DOMAIN p /\ q.base_directory = d
      /\ \A f \in DOMAIN p \ {"base_directory"} : q[f] = p[f]
  BY <1>1, <1>3
<1> QED BY <1>1, <1>2, <1>4 DEF Values, q, p

(* A profile that is saved in a directory loads from there as the same.    *)
LEMMA SavedLoads ==
    ASSUME ProfileAssumption, NEW p, Sound(p), NEW d \in Int
    PROVE  Valid(Save(p, d)) /\ Same(p, Load(Save(p, d), d))
<1> DEFINE r == Relocated(p, d)
           q == Load(ToJson(r), d)
           read == ReadDocument(ToJson(r))
<1>1. /\ Sound(r)
      /\ \A part \in Values : r[part] = p[part]
      /\ r.track_path = Moved(p, d, p.track_path)
      /\ r.replay_path = Moved(p, d, p.replay_path)
      /\ r.outputs = [i \in DOMAIN p.outputs |->
                    [p.outputs[i] EXCEPT !.path = Moved(p, d, p.outputs[i].path)]]
  BY RelocatedFacts
<1>2. Save(p, d) = ToJson(r) BY DEF Save
<1> HIDE DEF r
<1>3. Valid(ToJson(r)) BY <1>1, WrittenValid
<1>4. /\ \A part \in Values : read[part] = r[part]
      /\ read.track_path = r.track_path /\ read.replay_path = r.replay_path
      /\ read.outputs = [i \in DOMAIN r.outputs |->
                            OutputFromJson(OutputToJson(r.outputs[i]))]
  BY <1>1, RoundTrip
<1>5. /\ q.base_directory = d
      /\ \A part \in Values : q[part] = read[part]
      /\ q.track_path = read.track_path /\ q.replay_path = read.replay_path
      /\ q.outputs = read.outputs
  BY LoadFacts
<1> HIDE DEF q, read
<1>6. \A part \in Values : p[part] = q[part] BY <1>1, <1>4, <1>5
<1>7. /\ DOMAIN q.outputs = DOMAIN p.outputs
      /\ \A i \in DOMAIN p.outputs :
            q.outputs[i] = OutputFromJson(OutputToJson(
                [p.outputs[i] EXCEPT !.path = Moved(p, d, p.outputs[i].path)]))
  BY <1>1, <1>4, <1>5
<1>8. Len(p.outputs) = Len(q.outputs)
  <2>1. Len(p.outputs) \in Nat /\ DOMAIN p.outputs = 1 .. Len(p.outputs)
    BY ListDomain DEF Sound, SoundOutputs
  <2>2. q.outputs = [i \in DOMAIN p.outputs |-> q.outputs[i]] BY <1>1, <1>4, <1>5
  <2>3. IsList(q.outputs) BY <1>7, <2>1, <2>2, MappedList
  <2>4. DOMAIN q.outputs = 1 .. Len(q.outputs) /\ Len(q.outputs) \in Nat BY <2>3, ListDomain
  <2> QED BY <1>7, <2>1, <2>4
<1>9. p.base_directory \in Int \cup {None} /\ {p.track_path, p.replay_path} \subseteq Paths
      /\ \A i \in DOMAIN p.outputs : SoundOutput(p.outputs[i])
  BY DEF Sound, SoundOutputs
<1>10. ASSUME NEW i \in DOMAIN p.outputs
       PROVE  /\ SameOutput(p.outputs[i], q.outputs[i])
              /\ p.outputs[i].type \in {"file", "log"} =>
                    q.outputs[i].path = Moved(p, d, p.outputs[i].path)
  <2> DEFINE o == p.outputs[i]
             x == Moved(p, d, o.path)
             m == [o EXCEPT !.path = x]
             b == OutputFromJson(OutputToJson(m))
  <2>1. SoundOutput(o) /\ o.path \in Paths BY <1>9 DEF SoundOutput
  <2>2. x \in Paths /\ (x = NoPath <=> o.path = NoPath) BY <1>9, <2>1, MovedFacts
  <2> HIDE DEF o, x
  <2>3. /\ SoundOutput(m) /\ UsedKeys(m) = UsedKeys(o) /\ m.path = x
        /\ m.type = o.type /\ m.filter = o.filter
        /\ m.numbers = o.numbers /\ m.integers = o.integers
        /\ m.flags = o.flags /\ m.texts = o.texts
    BY <2>1, <2>2, MovedOutput
  <2>4. q.outputs[i] = b BY <1>7 DEF o, x
  <2> HIDE DEF m
  <2>5. SameOutput(m, b) BY <2>3, OutputReread
  <2>6. b.path = IF m.type \in {"file", "log"} THEN m.path ELSE NoPath
    BY <2>3, OutputRead
  <2> HIDE DEF b
  <2>7. SameOutput(o, b) BY <2>3, <2>5 DEF SameOutput
  <2> QED BY <2>3, <2>4, <2>6, <2>7 DEF o, x
<1>11. ASSUME Anchored(p)
       PROVE  /\ SameFile(p, p.track_path, q, q.track_path)
              /\ SameFile(p, p.replay_path, q, q.replay_path)
              /\ \A i \in DOMAIN p.outputs :
                  p.outputs[i].type \in {"file", "log"}
                      => SameFile(p, p.outputs[i].path, q, q.outputs[i].path)
  <2>1. ASSUME NEW path \in Paths, path \in PathsOf(p)
        PROVE  SameFile(p, path, q, Moved(p, d, path))
    <3>1. p.base_directory # None \/ ~ path.relative BY <1>11, <2>1 DEF Anchored
    <3> QED BY <1>5, <1>9, <3>1, MovedFacts
  <2>2. p.track_path \in PathsOf(p) /\ p.replay_path \in PathsOf(p) BY DEF PathsOf
  <2>3. ASSUME NEW i \in DOMAIN p.outputs, p.outputs[i].type \in {"file", "log"}
        PROVE  SameFile(p, p.outputs[i].path, q, q.outputs[i].path)
    <3>1. p.outputs[i].path \in PathsOf(p) BY <2>3 DEF PathsOf
    <3>2. p.outputs[i].path \in Paths BY <1>9 DEF SoundOutput
    <3> QED BY <1>10, <2>1, <2>3, <3>1, <3>2
  <2>4. /\ q.track_path = Moved(p, d, p.track_path)
        /\ q.replay_path = Moved(p, d, p.replay_path)
    BY <1>1, <1>4, <1>5
  <2> QED BY <1>9, <2>1, <2>2, <2>3, <2>4
<1>12. Same(p, q) BY <1>6, <1>8, <1>10, <1>11 DEF Same
<1> QED BY <1>2, <1>3, <1>12 DEF q

-----------------------------------------------------------------------------
(* Documents.                                                              *)

(* A written output, a written top, a written profile are documents.       *)
LEMMA UsedKnown ==
    ASSUME NEW o, o.texts["encoding"] \in Encodings, o.type \in OutputTypes,
           NEW k \in UsedKeys(o)
    PROVE  k \in DOMAIN OutputNumbers \cup DOMAIN OutputIntegers \cup DOMAIN OutputFlags
                 \cup DOMAIN OutputTexts \cup OutputNames
<1> DEFINE known == DOMAIN OutputNumbers \cup DOMAIN OutputIntegers \cup DOMAIN OutputFlags
                    \cup DOMAIN OutputTexts \cup OutputNames
<1>1. EncodingKeys[o.texts["encoding"]] \subseteq known
  BY DEF EncodingKeys, Encodings, OutputNumbers, OutputIntegers, OutputFlags, OutputTexts
<1>2. TypeKeys(o.type) \subseteq known
  BY DEF TypeKeys, OutputTypes, OutputNames, OutputIntegers, OutputFlags, OutputTexts
<1>3. {"type", "enabled", "encoding", "filter"} \subseteq known
  BY DEF OutputNames, OutputFlags, OutputTexts
<1> QED BY <1>1, <1>2, <1>3 DEF UsedKeys

LEMMA OutputObject ==
    ASSUME ProfileAssumption, NEW o, SoundOutput(o)
    PROVE  IsObject(OutputToJson(o))
<1> DEFINE j == OutputToJson(o)
<1>1. /\ DOMAIN j = UsedKeys(o)
      /\ \A k \in UsedKeys(o) :
                /\ k \in DOMAIN OutputNumbers => j[k] = JsonNumber(o.numbers[k])
                /\ k \in DOMAIN OutputIntegers => j[k] = JsonInt(o.integers[k])
                /\ k \in DOMAIN OutputFlags => j[k] = JsonFlag(o.flags[k])
                /\ k \in DOMAIN OutputTexts => j[k] = JsonText(o.texts[k])
                /\ k = "type" => j[k] = JsonText(o.type)
                /\ k = "path" => j[k] = JsonText(o.path)
                /\ k = "filter" => j[k] = JsonText(o.filter)
  BY OutputWritten
<1> HIDE DEF j
<1>2. o.numbers \in [DOMAIN OutputNumbers -> Int] /\ o.path \in Paths BY DEF SoundOutput
<1>3. \A k \in DOMAIN OutputIntegers : o.integers[k] \in Int
  BY Limits, OutputParts DEF ExactInts
<1>4. ASSUME NEW k \in DOMAIN j
      PROVE  /\ "number" \in DOMAIN j[k] => j[k].number \in Int
             /\ k \in PathKeys /\ "text" \in DOMAIN j[k] => j[k].text \in Paths
  <2>1. k \in DOMAIN OutputNumbers \cup DOMAIN OutputIntegers \cup DOMAIN OutputFlags
              \cup DOMAIN OutputTexts \cup OutputNames
    BY <1>1, UsedKnown, OutputParts
  <2>2. CASE k \in DOMAIN OutputNumbers
    BY <1>1, <1>2, <2>2 DEF JsonNumber
  <2>3. CASE k \in DOMAIN OutputIntegers
    BY <1>1, <1>3, <2>3 DEF JsonInt, JsonNumber, Unit
  <2>4. CASE k \in DOMAIN OutputFlags
    BY <1>1, <2>4 DEF JsonFlag
  <2>5. CASE k \in DOMAIN OutputTexts
    <3>1. k \notin PathKeys BY <2>5 DEF OutputTexts, PathKeys
    <3> QED BY <1>1, <2>5, <3>1 DEF JsonText
  <2>6. CASE k \in OutputNames
    BY <1>1, <1>2, <2>6 DEF JsonText, OutputNames, PathKeys
  <2> QED BY <2>1, <2>2, <2>3, <2>4, <2>5, <2>6
<1> QED BY <1>4 DEF IsObject, j

LEMMA TopObject ==
    ASSUME ProfileAssumption, NEW p, Sound(p)
    PROVE  IsObject(TopToJson(p))
<1> DEFINE t == TopToJson(p)
<1>1. /\ DOMAIN t = DOMAIN ProfileNumbers \cup DOMAIN ProfileIntegers
                    \cup DOMAIN Unsigned \cup DOMAIN ProfileFlags \cup DOMAIN ProfileTexts
                    \cup TopPaths \cup {"schema_version"}
      /\ \A k \in DOMAIN ProfileNumbers : t[k] = JsonNumber(p.numbers[k])
      /\ \A k \in DOMAIN ProfileIntegers : t[k] = JsonInt(p.integers[k])
      /\ \A k \in DOMAIN Unsigned : t[k] = JsonInt(p.unsigned[k])
      /\ \A k \in DOMAIN ProfileFlags : t[k] = JsonFlag(p.flags[k])
      /\ \A k \in DOMAIN ProfileTexts : t[k] = JsonText(p.texts[k])
      /\ t["track.path"] = JsonText(p.track_path)
      /\ t["replay.path"] = JsonText(p.replay_path)
      /\ t["schema_version"] = JsonInt(CurrentSchemaVersion)
  BY TopWritten
<1> HIDE DEF t
<1>2. p.numbers \in [DOMAIN ProfileNumbers -> Int] /\ p.track_path \in Paths
      /\ p.replay_path \in Paths
  BY DEF Sound, SoundValues
<1>3. \A k \in DOMAIN ProfileIntegers : p.integers[k] \in Int
  BY Limits DEF Sound, SoundValues, ExactInts
<1>4. \A k \in DOMAIN Unsigned : p.unsigned[k] \in Int BY DEF Sound, SoundValues
<1>5. ASSUME NEW k \in DOMAIN t
      PROVE  /\ "number" \in DOMAIN t[k] => t[k].number \in Int
             /\ k \in PathKeys /\ "text" \in DOMAIN t[k] => t[k].text \in Paths
  <2>1. CASE k \in DOMAIN ProfileNumbers BY <1>1, <1>2, <2>1 DEF JsonNumber
  <2>2. CASE k \in DOMAIN ProfileIntegers
    BY <1>1, <1>3, <2>2 DEF JsonInt, JsonNumber, Unit
  <2>3. CASE k \in DOMAIN Unsigned BY <1>1, <1>4, <2>3 DEF JsonInt, JsonNumber, Unit
  <2>4. CASE k \in DOMAIN ProfileFlags BY <1>1, <2>4 DEF JsonFlag
  <2>5. CASE k \in DOMAIN ProfileTexts
    <3>1. k \notin PathKeys BY <2>5 DEF ProfileTexts, PathKeys
    <3> QED BY <1>1, <2>5, <3>1 DEF JsonText
  <2>6. CASE k \in TopPaths BY <1>1, <1>2, <2>6 DEF JsonText, TopPaths
  <2>7. CASE k = "schema_version"
    BY <1>1, <2>7 DEF JsonInt, JsonNumber, Unit, CurrentSchemaVersion
  <2> QED BY <1>1, <2>1, <2>2, <2>3, <2>4, <2>5, <2>6, <2>7
<1> QED BY <1>5 DEF IsObject, t

LEMMA WrittenDocument ==
    ASSUME ProfileAssumption, NEW p, Sound(p)
    PROVE  IsDocument(ToJson(p))
<1> DEFINE D == ToJson(p)
           engines == [i \in DOMAIN p.engines |-> EngineToJson(p.engines[i])]
           custom == [i \in DOMAIN p.custom_sentences |->
                [id |-> JsonText(p.custom_sentences[i].id),
                 body |-> JsonText(p.custom_sentences[i].body),
                 period_ms |-> JsonInt(p.custom_sentences[i].period),
                 enabled |-> JsonFlag(p.custom_sentences[i].enabled)]]
           outputs == [i \in DOMAIN p.outputs |-> OutputToJson(p.outputs[i])]
<1>1. /\ DOMAIN D = {"top", "engines", "destination", "settings", "custom", "outputs"}
      /\ D.top = TopToJson(p) /\ D.engines = engines /\ D.custom = custom
      /\ D.outputs = outputs
  BY DEF ToJson
<1> HIDE DEF D
<1>2. /\ IsList(p.engines) /\ IsList(p.custom_sentences) /\ IsList(p.outputs)
      /\ \A i \in DOMAIN p.custom_sentences : RowId(i) \notin SentenceIds
      /\ \A i \in DOMAIN p.outputs : SoundOutput(p.outputs[i])
  BY DEF Sound, SoundValues, SoundCustom, SoundOutputs
<1>3. IsList(engines)
  <2>1. Len(p.engines) \in Nat /\ DOMAIN p.engines = 1 .. Len(p.engines)
    BY <1>2, ListDomain
  <2>2. DOMAIN engines = 1 .. Len(p.engines) /\ engines = [i \in DOMAIN engines |-> engines[i]]
    BY <2>1
  <2> HIDE DEF engines
  <2> QED BY <2>1, <2>2, MappedList
<1>4. IsList(custom) /\ \A i \in DOMAIN custom : RowId(i) \notin SentenceIds
  <2>1. /\ Len(p.custom_sentences) \in Nat
        /\ DOMAIN p.custom_sentences = 1 .. Len(p.custom_sentences)
    BY <1>2, ListDomain
  <2>2. /\ DOMAIN custom = 1 .. Len(p.custom_sentences)
        /\ custom = [i \in DOMAIN custom |-> custom[i]]
    BY <2>1
  <2> HIDE DEF custom
  <2> QED BY <1>2, <2>1, <2>2, MappedList
<1>5. IsList(outputs) /\ \A i \in DOMAIN outputs : IsObject(outputs[i])
  <2>1. Len(p.outputs) \in Nat /\ DOMAIN p.outputs = 1 .. Len(p.outputs)
    BY <1>2, ListDomain
  <2>2. DOMAIN outputs = 1 .. Len(p.outputs) /\ outputs = [i \in DOMAIN outputs |-> outputs[i]]
    BY <2>1
  <2>3. ASSUME NEW i \in DOMAIN p.outputs PROVE IsObject(outputs[i])
    <3>1. outputs[i] = OutputToJson(p.outputs[i]) OBVIOUS
    <3>2. SoundOutput(p.outputs[i]) BY DEF Sound, SoundOutputs
    <3> QED BY <3>1, <3>2, OutputObject
  <2>4. DOMAIN outputs = DOMAIN p.outputs OBVIOUS
  <2> HIDE DEF outputs
  <2> QED BY <2>1, <2>2, <2>3, <2>4, MappedList
<1> HIDE DEF engines, custom, outputs
<1>6. IsObject(D.top) BY <1>1, TopObject
<1> QED BY <1>1, <1>3, <1>4, <1>5, <1>6 DEF IsDocument, D

(* A key that is set or taken away leaves an object.                       *)
LEMMA PutObject ==
    ASSUME NEW o, IsObject(o), NEW edit,
           edit.value # None => IsObject([k \in {edit.key} |-> edit.value])
    PROVE  IsObject(Put(o, edit))
<1>1. CASE edit.value = None
  BY <1>1 DEF Put, IsObject, Restrict
<1>2. CASE edit.value # None
  <2>1. Put(o, edit) = With(o, edit.key, edit.value) BY <1>2 DEF Put
  <2>2. /\ "number" \in DOMAIN edit.value => edit.value.number \in Int
        /\ edit.key \in PathKeys /\ "text" \in DOMAIN edit.value => edit.value.text \in Paths
    <3> DEFINE single == [k \in {edit.key} |-> edit.value]
    <3>1. edit.key \in DOMAIN single /\ single[edit.key] = edit.value OBVIOUS
    <3> HIDE DEF single
    <3> QED BY <1>2, <3>1 DEF IsObject, single
  <2>3. DOMAIN With(o, edit.key, edit.value) = DOMAIN o \cup {edit.key} BY WithDomain
  <2>4. With(o, edit.key, edit.value)[edit.key] = edit.value BY WithKey
  <2>5. \A k \in DOMAIN o : k # edit.key => With(o, edit.key, edit.value)[k] = o[k] BY WithOther
  <2> QED BY <2>1, <2>2, <2>3, <2>4, <2>5 DEF IsObject
<1> QED BY <1>1, <1>2

(* An edit leaves a document.                                              *)
LEMMA EditedDocument ==
    ASSUME FilesAssumption, NEW doc, IsDocument(doc), NEW edit \in HandEdits
    PROVE  IsDocument(Edited(doc, edit))
<1> DEFINE parts == {"top", "engines", "destination", "settings", "custom", "outputs"}
           e == Edited(doc, edit)
<1>1. edit.part \in {"top", "outputs"} /\ edit.value # None
            => IsObject([k \in {edit.key} |-> edit.value])
  BY DEF FilesAssumption
<1>2. /\ DOMAIN doc \cup {"engines"} = parts
      /\ IsObject(doc.top)
      /\ "engines" \in DOMAIN doc => IsList(doc.engines)
      /\ IsList(doc.custom) /\ \A i \in DOMAIN doc.custom : RowId(i) \notin SentenceIds
      /\ IsList(doc.outputs) /\ \A i \in DOMAIN doc.outputs : IsObject(doc.outputs[i])
  BY DEF IsDocument
<1>3. CASE edit.part = "top"
  <2>1. e = [doc EXCEPT !["top"] = Put(doc.top, edit)] BY <1>3 DEF Edited
  <2>2. IsObject(Put(doc.top, edit)) BY <1>1, <1>2, <1>3, PutObject
  <2> HIDE DEF e
  <2>3. /\ DOMAIN e = DOMAIN doc /\ e.top = Put(doc.top, edit)
        /\ \A f \in DOMAIN doc \ {"top"} : e[f] = doc[f]
    BY <1>2, <2>1
  <2> QED BY <1>2, <2>2, <2>3 DEF IsDocument, e
<1>4. CASE edit.part = "settings"
  <2>1. e = [doc EXCEPT !["settings"] = Put(doc.settings, edit)] BY <1>4 DEF Edited
  <2> HIDE DEF e
  <2>2. /\ DOMAIN e = DOMAIN doc
        /\ \A f \in DOMAIN doc \ {"settings"} : e[f] = doc[f]
    BY <1>2, <2>1
  <2> QED BY <1>2, <2>2 DEF IsDocument, e
<1>5. CASE edit.part \in {"outputs", "custom", "engines"} \cap DOMAIN doc
  <2> DEFINE part == edit.part
             list == [i \in DOMAIN doc[part] |->
                        IF i = 1 THEN Put(doc[part][i], edit) ELSE doc[part][i]]
  <2>1. e = [doc EXCEPT ![part] = list] BY <1>5 DEF Edited
  <2>2. IsList(doc[part]) BY <1>2, <1>5
  <2>3. IsList(list) /\ DOMAIN list = DOMAIN doc[part] BY <2>2, ListDomain, MappedList
  <2>4. part = "outputs" => \A i \in DOMAIN list : IsObject(list[i])
    BY <1>1, <1>2, PutObject
  <2> HIDE DEF e, list, part
  <2>5. /\ DOMAIN e = DOMAIN doc /\ e[part] = list
        /\ \A f \in DOMAIN doc \ {part} : e[f] = doc[f]
    BY <1>5, <2>1 DEF part
  <2>6. part \in {"outputs", "custom", "engines"} BY <1>5 DEF part
  <2>7. CASE part = "outputs" BY <1>2, <2>3, <2>4, <2>5, <2>7 DEF IsDocument, e
  <2>8. CASE part = "custom" BY <1>2, <2>3, <2>5, <2>8 DEF IsDocument, e
  <2>9. CASE part = "engines" BY <1>2, <2>3, <2>5, <2>9 DEF IsDocument, e
  <2> QED BY <2>6, <2>7, <2>8, <2>9
<1>6. CASE edit.part = "destination"
  <2>1. e = [doc EXCEPT !.destination = {Put(d, edit) : d \in doc.destination}]
    BY <1>6 DEF Edited
  <2> HIDE DEF e
  <2>2. /\ DOMAIN e = DOMAIN doc
        /\ \A f \in DOMAIN doc \ {"destination"} : e[f] = doc[f]
    BY <1>2, <2>1
  <2> QED BY <1>2, <2>2 DEF IsDocument, e
<1>7. CASE edit.part \notin {"top", "settings", "destination"}
                        \cup ({"outputs", "custom", "engines"} \cap DOMAIN doc)
  <2>1. e = Restrict(doc, DOMAIN doc \ {"engines"}) BY <1>7 DEF Edited
  <2> HIDE DEF e
  <2>2. /\ DOMAIN e = DOMAIN doc \ {"engines"}
        /\ \A f \in DOMAIN e : e[f] = doc[f]
    BY <2>1, RestrictFacts
  <2> QED BY <1>2, <2>2 DEF IsDocument, e
<1> QED BY <1>3, <1>4, <1>5, <1>6, <1>7

-----------------------------------------------------------------------------
(* What is loaded.                                                         *)

(* What the readers make of the items of a list has its form.              *)
LEMMA EngineForm ==
    ASSUME NEW label, NEW running, NEW rpm, NEW coolant
    PROVE  LET e == Engine(label, running, rpm, coolant)
           IN  e = Engine(e.label, e.running, e.rpm, e.coolant_temperature_c)
  BY DEF Engine

LEMMA DefaultEnginesSound ==
    /\ IsList(DefaultEngines)
    /\ \A i \in DOMAIN DefaultEngines :
        LET e == DefaultEngines[i]
        IN  e = Engine(e.label, e.running, e.rpm, e.coolant_temperature_c)
<1> DEFINE port == Engine("Port engine", TRUE, 7200, 328)
           starboard == Engine("Starboard engine", TRUE, 7200, 332)
           engines == <<port, starboard>>
<1>1. DefaultEngines = engines BY DEF DefaultEngines
<1>2. port = Engine(port.label, port.running, port.rpm, port.coolant_temperature_c)
  BY DEF Engine
<1>3. starboard = Engine(starboard.label, starboard.running, starboard.rpm,
                         starboard.coolant_temperature_c)
  BY DEF Engine
<1> HIDE DEF port, starboard
<1>4. DOMAIN engines = 1 .. 2 /\ engines[1] = port /\ engines[2] = starboard
      /\ engines = [i \in DOMAIN engines |-> engines[i]]
  OBVIOUS
<1> HIDE DEF engines
<1>5. IsList(engines) BY <1>4, MappedList
<1>6. ASSUME NEW i \in DOMAIN engines
      PROVE  engines[i] = Engine(engines[i].label, engines[i].running, engines[i].rpm,
                                 engines[i].coolant_temperature_c)
  <2>1. i = 1 \/ i = 2 BY <1>4
  <2>2. engines[i] = port \/ engines[i] = starboard BY <1>4, <2>1
  <2> QED BY <1>2, <1>3, <2>2
<1> QED BY <1>1, <1>5, <1>6

LEMMA DestinationForm ==
    ASSUME NEW d, NEW numbers
    PROVE  LET e == DestinationFromJson(d, numbers)
           IN  e = [name |-> e.name, numbers |-> [k \in DestinationKeys |-> e.numbers[k]]]
<1> DEFINE default == [latitude |-> 0, longitude |-> 0,
                    origin_latitude |-> numbers["seed.position.latitude"],
                    origin_longitude |-> numbers["seed.position.longitude"],
                    arrival_radius_m |-> 100 * Unit]
           read == Numbers(d, default)
           name == Text(d, "name", "WPT")
<1>1. DestinationFromJson(d, numbers) = [name |-> name, numbers |-> read]
  BY DEF DestinationFromJson
<1>2. DOMAIN default = DestinationKeys BY DEF DestinationKeys
<1> HIDE DEF default, name
<1>3. read = [k \in DestinationKeys |-> read[k]] BY <1>2 DEF Numbers
<1> HIDE DEF read
<1> QED BY <1>1, <1>3

(* A text that was trimmed and made upper-case stays as it is.             *)
LEMMA UpperOnce ==
    ASSUME ProfileAssumption, NEW text
    PROVE  Upper(Upper(text)) = Upper(text)
<1>1. \A t \in DOMAIN UpperCase : UpperCase[t] \notin DOMAIN UpperCase BY DEF ProfileAssumption
<1>2. CASE text \in DOMAIN UpperCase BY <1>1, <1>2 DEF Upper
<1>3. CASE text \notin DOMAIN UpperCase BY <1>3 DEF Upper
<1> QED BY <1>2, <1>3

(* What is read of any top has its type.                                   *)
LEMMA TopTyped ==
    ASSUME ProfileAssumption, NEW top, IsObject(top), NEW version
    PROVE  LET m == Migrate(top, version)
           IN  /\ Numbers(m, ProfileNumbers) \in [DOMAIN ProfileNumbers -> Int]
               /\ Integers_(m, ProfileIntegers) \in [DOMAIN ProfileIntegers -> ExactInts]
               /\ Text(m, "track.path", NoPath) \in Paths
               /\ Text(m, "replay.path", NoPath) \in Paths
<1> DEFINE m == Migrate(top, version)
<1>1. \A k : k # "schema_version" /\ k # "mode"
            => (k \in DOMAIN m <=> k \in DOMAIN top) /\ (k \in DOMAIN top => m[k] = top[k])
  BY Migrated
<1> HIDE DEF m
<1>2. ASSUME NEW k \in DOMAIN ProfileNumbers PROVE Number(m, k, ProfileNumbers[k]) \in Int
  <2>1. k # "schema_version" /\ k # "mode"
    BY TopKeys DEF ProfileNumbers, Seeds, Variations
  <2>2. ProfileNumbers[k] \in Int BY Defaults
  <2> QED BY <1>1, <2>1, <2>2 DEF Number, Has, IsObject
<1>3. Numbers(m, ProfileNumbers) \in [DOMAIN ProfileNumbers -> Int] BY <1>2 DEF Numbers
<1>4. Integers_(m, ProfileIntegers) \in [DOMAIN ProfileIntegers -> ExactInts]
  BY Defaults, WholeNumberType DEF Integers_
<1>5. NoPath \in Paths BY DEF Paths
<1>6. Text(m, "track.path", NoPath) \in Paths
  BY <1>1, <1>5 DEF Text, Has, IsObject, PathKeys
<1>7. Text(m, "replay.path", NoPath) \in Paths
  BY <1>1, <1>5 DEF Text, Has, IsObject, PathKeys
<1> QED BY <1>3, <1>4, <1>6, <1>7 DEF m

LEMMA UnsignedTyped ==
    ASSUME ProfileAssumption, NEW doc, IsObject(doc.top), UnsignedProblems(doc) = {},
           NEW version, NEW k \in DOMAIN Unsigned
    PROVE  Number(Migrate(doc.top, version), k, Unit * Unsigned[k]) \div Unit
                \in 0 .. Largest[k]
<1> DEFINE m == Migrate(doc.top, version)
<1>1. k # "schema_version" /\ k # "mode" BY DEF Unsigned
<1>2. (k \in DOMAIN m <=> k \in DOMAIN doc.top) /\ (k \in DOMAIN doc.top => m[k] = doc.top[k])
  BY <1>1, Migrated
<1> HIDE DEF m
<1>3. Unsigned[k] \in 0 .. Largest[k] /\ Unsigned[k] \in Int BY Defaults
<1>4. (Unit * Unsigned[k]) \div Unit = Unsigned[k] BY <1>3, QuartersOfWhole
<1>5. ~ Refused(doc.top, k, Largest[k]) BY DEF UnsignedProblems
<1>6. CASE Has(doc.top, k, "number")
  <2>1. Number(m, k, Unit * Unsigned[k]) = doc.top[k].number
    BY <1>2, <1>6 DEF Number, Has
  <2> QED BY <1>5, <1>6, <2>1 DEF Refused, m
<1>7. CASE ~ Has(doc.top, k, "number")
  <2>1. Number(m, k, Unit * Unsigned[k]) = Unit * Unsigned[k]
    BY <1>2, <1>7 DEF Number, Has
  <2> QED BY <1>3, <1>4, <2>1 DEF m
<1> QED BY <1>6, <1>7

(* Of a valid document a sound profile is read.                            *)
LEMMA LoadedSound ==
    ASSUME ProfileAssumption, NEW doc, IsDocument(doc), Valid(doc), NEW d \in Int
    PROVE  Sound(Load(doc, d))
<1> DEFINE p == ReadDocument(doc)
           q == Load(doc, d)
           m == Migrate(doc.top, WholeNumber(doc.top, "schema_version", 0))
           numbers == Numbers(m, ProfileNumbers)
           engines == IF "engines" \in DOMAIN doc THEN EnginesFromJson(doc.engines)
                      ELSE DefaultEngines
           custom == [i \in DOMAIN doc.custom |-> CustomFromJson(doc.custom[i])]
           outputs == [i \in DOMAIN doc.outputs |-> OutputFromJson(doc.outputs[i])]
           settings == [id \in DOMAIN doc.settings \cap SentenceIds |->
                            SettingFromJson(id, doc.settings[id])]
<1>1. /\ UnsignedProblems(doc) = {}
      /\ SimulationProblems(p) = {} /\ SeedProblems(doc, p) = {}
      /\ SentenceProblems(doc, p) = {} /\ CustomProblems(p) = {}
      /\ \A i \in DOMAIN p.outputs : OutputProblems(p.outputs[i]) = {}
  BY DEF Valid
<1>2. /\ IsObject(doc.top)
      /\ "engines" \in DOMAIN doc => IsList(doc.engines)
      /\ IsList(doc.custom) /\ \A i \in DOMAIN doc.custom : RowId(i) \notin SentenceIds
      /\ IsList(doc.outputs) /\ \A i \in DOMAIN doc.outputs : IsObject(doc.outputs[i])
  BY DEF IsDocument
<1>3. /\ p.numbers = numbers /\ p.integers = Integers_(m, ProfileIntegers)
      /\ p.flags = Flags(m, ProfileFlags)
      /\ p.texts = [Texts(m, ProfileTexts) EXCEPT
                        !["start_time"] = IF @ = "" THEN "now" ELSE @]
      /\ p.unsigned = [k \in DOMAIN Unsigned |-> Number(m, k, Unit * Unsigned[k]) \div Unit]
      /\ p.track_path = Text(m, "track.path", NoPath)
      /\ p.replay_path = Text(m, "replay.path", NoPath)
      /\ p.engines = engines
      /\ p.destination = {DestinationFromJson(e, numbers) : e \in doc.destination}
      /\ p.sentences = settings /\ p.custom_sentences = custom /\ p.outputs = outputs
  BY DEF ReadDocument
<1> HIDE DEF p
<1>4. /\ numbers \in [DOMAIN ProfileNumbers -> Int]
      /\ Integers_(m, ProfileIntegers) \in [DOMAIN ProfileIntegers -> ExactInts]
      /\ Text(m, "track.path", NoPath) \in Paths
      /\ Text(m, "replay.path", NoPath) \in Paths
  BY <1>2, TopTyped
<1>5. \A k \in DOMAIN Unsigned : Number(m, k, Unit * Unsigned[k]) \div Unit \in 0 .. Largest[k]
  BY <1>1, <1>2, UnsignedTyped
<1> HIDE DEF m, numbers
<1>6. IsTable(p.flags, DOMAIN ProfileFlags) /\ IsTable(p.texts, DOMAIN ProfileTexts)
      /\ IsTable(p.unsigned, DOMAIN Unsigned)
  BY <1>3 DEF IsTable, Flags, Texts
<1>7. \A k \in DOMAIN Unsigned : p.unsigned[k] \in 0 .. Largest[k] BY <1>3, <1>5
<1>8. p.texts["seed.gnss.quality"] \in Qualities BY <1>1 DEF SeedProblems
<1>9. IsList(p.engines)
      /\ \A i \in DOMAIN p.engines :
            p.engines[i] = Engine(p.engines[i].label, p.engines[i].running, p.engines[i].rpm,
                                  p.engines[i].coolant_temperature_c)
  <2>1. CASE "engines" \in DOMAIN doc
    <3> DEFINE read == EnginesFromJson(doc.engines)
    <3>1. Len(doc.engines) \in Nat /\ DOMAIN doc.engines = 1 .. Len(doc.engines)
      BY <1>2, <2>1, ListDomain
    <3>2. /\ DOMAIN read = 1 .. Len(doc.engines) /\ read = [i \in DOMAIN read |-> read[i]]
          /\ \A i \in DOMAIN read : read[i] =
                Engine(read[i].label, read[i].running, read[i].rpm,
                       read[i].coolant_temperature_c)
      BY <3>1 DEF EnginesFromJson, Engine
    <3> HIDE DEF read
    <3>3. IsList(read) BY <3>1, <3>2, MappedList
    <3> QED BY <1>3, <2>1, <3>2, <3>3 DEF read
  <2>2. CASE "engines" \notin DOMAIN doc BY <1>3, <2>2, DefaultEnginesSound
  <2> QED BY <2>1, <2>2
<1>10. \A e \in p.destination :
        e = [name |-> e.name, numbers |-> [k \in DestinationKeys |-> e.numbers[k]]]
  <2> TAKE e \in p.destination
  <2>1. PICK j \in doc.destination : e = DestinationFromJson(j, numbers) BY <1>3
  <2> QED BY <2>1, DestinationForm
<1>11. SoundSettings(p.sentences)
  <2>1. \A id \in DOMAIN p.sentences :
            p.sentences[id].talker \in Talkers /\ p.sentences[id].period \in Period
    BY <1>1 DEF SentenceProblems
  <2>2. DOMAIN settings \subseteq SentenceIds OBVIOUS
  <2>3. ASSUME NEW id \in DOMAIN settings
        PROVE  settings[id] = [enabled |-> settings[id].enabled,
                               talker |-> settings[id].talker, period |-> settings[id].period]
    <3>1. settings[id] = SettingFromJson(id, doc.settings[id]) OBVIOUS
    <3> HIDE DEF settings
    <3> QED BY <3>1 DEF SettingFromJson
  <2>4. settings = [id \in DOMAIN settings |-> settings[id]] OBVIOUS
  <2> HIDE DEF settings
  <2>5. settings = [id \in DOMAIN settings |->
                    [enabled |-> settings[id].enabled, talker |-> settings[id].talker,
                     period |-> settings[id].period]]
    BY <2>3, <2>4
  <2> QED BY <1>3, <2>1, <2>2, <2>5 DEF SoundSettings
<1>12. SoundCustom(p.custom_sentences)
  <2>1. Len(doc.custom) \in Nat /\ DOMAIN doc.custom = 1 .. Len(doc.custom)
    BY <1>2, ListDomain
  <2>2. DOMAIN custom = 1 .. Len(doc.custom) /\ custom = [i \in DOMAIN custom |-> custom[i]]
    BY <2>1
  <2>3. \A i \in DOMAIN custom : RowId(i) \notin SentenceIds BY <1>2
  <2>4. ASSUME NEW c
        PROVE  LET r == CustomFromJson(c)
               IN  r = [id |-> Upper(r.id), body |-> r.body, period |-> r.period,
                        enabled |-> r.enabled]
    <3> DEFINE body == Text(c, "body", "")
               period == WholeNumber(c, "period_ms", 1000)
               enabled == Flag(c, "enabled", TRUE)
               id == Upper(Text(c, "id", ""))
    <3>1. CustomFromJson(c) = [id |-> id, body |-> body, period |-> period, enabled |-> enabled]
      BY DEF CustomFromJson
    <3>2. Upper(id) = id BY UpperOnce
    <3> HIDE DEF id, body, period, enabled
    <3> QED BY <3>1, <3>2
  <2>5. \A i \in DOMAIN custom : custom[i] = [id |-> Upper(custom[i].id),
            body |-> custom[i].body, period |-> custom[i].period,
            enabled |-> custom[i].enabled]
    BY <2>4
  <2> HIDE DEF custom
  <2>6. IsList(custom) BY <2>1, <2>2, MappedList
  <2> QED BY <1>3, <2>3, <2>5, <2>6 DEF SoundCustom
<1>13. SoundValues(p)
  BY <1>1, <1>3, <1>4, <1>6, <1>7, <1>8, <1>9, <1>10, <1>11, <1>12 DEF SoundValues
<1>14. SoundOutputs(p.outputs)
  <2>1. Len(doc.outputs) \in Nat /\ DOMAIN doc.outputs = 1 .. Len(doc.outputs)
    BY <1>2, ListDomain
  <2>2. DOMAIN outputs = 1 .. Len(doc.outputs) /\ outputs = [i \in DOMAIN outputs |-> outputs[i]]
    BY <2>1
  <2>3. \A i \in DOMAIN outputs : OutputProblems(outputs[i]) = {} => SoundOutput(outputs[i])
    BY <1>2, OutputSound
  <2> HIDE DEF outputs
  <2>4. IsList(outputs) BY <2>1, <2>2, MappedList
  <2> QED BY <1>1, <1>3, <2>3, <2>4 DEF SoundOutputs
<1>15. /\ DOMAIN q = DOMAIN DefaultProfile /\ q.base_directory = d
       /\ \A part \in Values : q[part] = p[part]
       /\ q.track_path = p.track_path /\ q.replay_path = p.replay_path
       /\ q.outputs = p.outputs
  BY LoadFacts DEF p
<1> HIDE DEF q
<1>16. SoundValues(q) BY <1>13, <1>15, SameValues
<1>17. SimulationProblems(q) = {}
  <2>1. q.numbers = p.numbers /\ q.integers = p.integers /\ q.texts = p.texts
    BY <1>15 DEF Values
  <2> QED BY <1>1, <1>15, <2>1, NoSimulationProblems
<1>18. q.track_path \in Paths /\ q.replay_path \in Paths BY <1>3, <1>4, <1>15
<1>19. SoundOutputs(q.outputs) BY <1>14, <1>15
<1> QED BY <1>15, <1>16, <1>17, <1>18, <1>19 DEF Sound, q

-----------------------------------------------------------------------------
(* What the dialogs make, and what a program starts with.                  *)

(* A revision of a sound profile is sound: its fields are those of a       *)
(* profile that is sound, and the others are those of the profile it       *)
(* revises.                                                                *)
LEMMA ProfileParts ==
    DOMAIN DefaultProfile =
        {"numbers", "integers", "flags", "texts", "unsigned", "track_path", "replay_path",
         "engines", "destination", "sentences", "custom_sentences", "outputs",
         "base_directory"}
  BY DEF DefaultProfile

LEMMA RevisedSound ==
    ASSUME FilesAssumption, NEW p, Sound(p), NEW r \in Revisions
    PROVE  Sound(Over(r, p))
<1> DEFINE b == Over(r, DefaultProfile)
           q == Over(r, p)
<1>1. /\ DOMAIN r \subseteq DOMAIN DefaultProfile \ {"base_directory"}
      /\ {"track_path", "replay_path"} \cap DOMAIN r # {} => "texts" \in DOMAIN r
      /\ Sound(b)
  BY DEF FilesAssumption
<1>2. DOMAIN p = DOMAIN DefaultProfile BY DEF Sound
<1>3. /\ DOMAIN q = DOMAIN r \cup DOMAIN p
      /\ \A f \in DOMAIN r : q[f] = r[f]
      /\ \A f \in DOMAIN p : f \notin DOMAIN r => q[f] = p[f]
  BY OverFacts
<1>4. /\ \A f \in DOMAIN r : b[f] = r[f]
      /\ \A f \in DOMAIN DefaultProfile : f \notin DOMAIN r => b[f] = DefaultProfile[f]
  BY OverFacts
<1> HIDE DEF b, q
<1>5. \A f \in DOMAIN DefaultProfile : IF f \in DOMAIN r THEN q[f] = b[f] ELSE q[f] = p[f]
  BY <1>2, <1>3, <1>4
<1>6. DOMAIN q = DOMAIN DefaultProfile BY <1>1, <1>2, <1>3
<1>7. q.base_directory = p.base_directory BY <1>1, <1>5, ProfileParts
<1>8. SoundValues(q)
  <2>1. SoundValues(b) /\ SoundValues(p) BY <1>1 DEF Sound
  <2>2. q.numbers \in {b.numbers, p.numbers} /\ q.integers \in {b.integers, p.integers}
    BY <1>5, ProfileParts
  <2>3. q.flags \in {b.flags, p.flags} /\ q.texts \in {b.texts, p.texts}
        /\ q.unsigned \in {b.unsigned, p.unsigned}
    BY <1>5, ProfileParts
  <2>4. q.engines \in {b.engines, p.engines} /\ q.destination \in {b.destination, p.destination}
    BY <1>5, ProfileParts
  <2>5. q.sentences \in {b.sentences, p.sentences}
        /\ q.custom_sentences \in {b.custom_sentences, p.custom_sentences}
    BY <1>5, ProfileParts
  <2>6. q.numbers \in [DOMAIN ProfileNumbers -> Int]
        /\ q.integers \in [DOMAIN ProfileIntegers -> ExactInts]
    BY <2>1, <2>2 DEF SoundValues
  <2>7. IsTable(q.flags, DOMAIN ProfileFlags) /\ IsTable(q.texts, DOMAIN ProfileTexts)
        /\ q.texts["seed.gnss.quality"] \in Qualities
        /\ IsTable(q.unsigned, DOMAIN Unsigned)
    BY <2>1, <2>3 DEF SoundValues
  <2>8. \A k \in DOMAIN Unsigned : q.unsigned[k] \in 0 .. Largest[k]
    BY <2>1, <2>3 DEF SoundValues
  <2>9. IsList(q.engines)
        /\ \A i \in DOMAIN q.engines :
             q.engines[i] = Engine(q.engines[i].label, q.engines[i].running, q.engines[i].rpm,
                                   q.engines[i].coolant_temperature_c)
    <3>1. CASE q.engines = b.engines BY <2>1, <3>1 DEF SoundValues
    <3>2. CASE q.engines = p.engines BY <2>1, <3>2 DEF SoundValues
    <3> QED BY <2>4, <3>1, <3>2
  <2>10. \A d \in q.destination :
            d = [name |-> d.name, numbers |-> [k \in DestinationKeys |-> d.numbers[k]]]
    <3>1. CASE q.destination = b.destination BY <2>1, <3>1 DEF SoundValues
    <3>2. CASE q.destination = p.destination BY <2>1, <3>2 DEF SoundValues
    <3> QED BY <2>4, <3>1, <3>2
  <2>11. SoundSettings(q.sentences) /\ SoundCustom(q.custom_sentences)
    BY <2>1, <2>5 DEF SoundValues
  <2>12. CustomProblems(q) = {}
    BY <2>1, <2>5 DEF SoundValues, CustomProblems
  <2> QED BY <2>6, <2>7, <2>8, <2>9, <2>10, <2>11, <2>12 DEF SoundValues
<1>9. SoundOutputs(q.outputs)
  <2>1. q.outputs \in {b.outputs, p.outputs} BY <1>5, ProfileParts
  <2> QED BY <1>1, <2>1 DEF Sound
<1>10. q.track_path \in Paths /\ q.replay_path \in Paths
  <2>1. q.track_path \in {b.track_path, p.track_path}
        /\ q.replay_path \in {b.replay_path, p.replay_path}
    BY <1>5, ProfileParts
  <2> QED BY <1>1, <2>1 DEF Sound
<1>11. SimulationProblems(q) = {}
  <2>1. SimulationProblems(b) = {} /\ SimulationProblems(p) = {} BY <1>1 DEF Sound
  <2>2. /\ q.numbers \in {b.numbers, p.numbers} /\ q.integers \in {b.integers, p.integers}
        /\ q.texts \in {b.texts, p.texts}
    BY <1>5, ProfileParts
  <2>3. /\ \A k \in DOMAIN ProfileRange : q.integers[k] \in ProfileRange[k]
        /\ q.texts["mode"] \in Modes /\ q.texts["start_time"] \in Times
        /\ ~ (q.numbers["track.speed_kn"] <= 0)
    BY <2>1, <2>2, NoSimulationProblems
  <2>4. CASE "texts" \in DOMAIN r
    <3>1. q.texts = b.texts BY <1>5, <2>4, ProfileParts
    <3>2. b.track_path # NoPath => q.track_path # NoPath
      <4>1. CASE "track_path" \in DOMAIN r BY <1>5, <4>1, ProfileParts
      <4>2. CASE "track_path" \notin DOMAIN r
        <5>1. DefaultProfile.track_path = NoPath BY DEF DefaultProfile
        <5>2. b.track_path = NoPath BY <1>4, <4>2, <5>1, ProfileParts
        <5> QED BY <5>2
      <4> QED BY <4>1, <4>2
    <3>3. b.replay_path # NoPath => q.replay_path # NoPath
      <4>1. CASE "replay_path" \in DOMAIN r BY <1>5, <4>1, ProfileParts
      <4>2. CASE "replay_path" \notin DOMAIN r
        <5>1. DefaultProfile.replay_path = NoPath BY DEF DefaultProfile
        <5>2. b.replay_path = NoPath BY <1>4, <4>2, <5>1, ProfileParts
        <5> QED BY <5>2
      <4> QED BY <4>1, <4>2
    <3> QED BY <2>1, <2>3, <3>1, <3>2, <3>3, NoSimulationProblems
  <2>5. CASE "texts" \notin DOMAIN r
    <3>1. "track_path" \notin DOMAIN r /\ "replay_path" \notin DOMAIN r BY <1>1, <2>5
    <3>2. q.texts = p.texts /\ q.track_path = p.track_path /\ q.replay_path = p.replay_path
      BY <1>5, <2>5, <3>1, ProfileParts
    <3> QED BY <2>1, <2>3, <3>2, NoSimulationProblems
  <2> QED BY <2>4, <2>5
<1>12. p.base_directory \in Int \cup {None} BY DEF Sound
<1> QED BY <1>6, <1>7, <1>8, <1>9, <1>10, <1>11, <1>12 DEF Sound, q

(* A new profile is sound.                                                 *)
LEMMA NoItems ==
    /\ DOMAIN (<<>>) = {} /\ IsList(<<>>)
    /\ SoundSettings(<<>>) /\ SoundCustom(<<>>)
<1>1. DOMAIN (<<>>) = {} OBVIOUS
<1>2. IsList(<<>>) BY DEF IsList
<1>3. SoundSettings(<<>>) BY <1>1 DEF SoundSettings
<1>4. SoundCustom(<<>>) BY <1>1, <1>2 DEF SoundCustom
<1> QED BY <1>1, <1>2, <1>3, <1>4

LEMMA DefaultSound ==
    ASSUME ProfileAssumption
    PROVE  Sound(DefaultProfile)
<1> DEFINE p == DefaultProfile
<1>1. /\ p.numbers = ProfileNumbers /\ p.integers = ProfileIntegers /\ p.flags = ProfileFlags
      /\ p.texts = ProfileTexts /\ p.unsigned = Unsigned
      /\ p.track_path = NoPath /\ p.replay_path = NoPath
      /\ p.destination = {} /\ p.sentences = <<>> /\ p.custom_sentences = <<>>
      /\ p.outputs = <<DefaultOutput>> /\ p.base_directory = None
      /\ p.engines = DefaultEngines
  BY DEF DefaultProfile
<1> HIDE DEF p
<1>2. /\ ProfileTexts["seed.gnss.quality"] = "gps" /\ ProfileTexts["mode"] = "delta"
      /\ ProfileTexts["start_time"] = "now"
  BY DEF ProfileTexts
<1>3. CustomProblems(p) = {} BY <1>1, NoItems DEF CustomProblems
<1>4. SoundValues(p)
  BY <1>1, <1>2, <1>3, NoItems, Defaults, DefaultEnginesSound DEF SoundValues, Qualities
<1>5. SoundOutputs(p.outputs)
  <2> DEFINE outputs == <<DefaultOutput>>
  <2>1. DOMAIN outputs = 1 .. 1 /\ outputs[1] = DefaultOutput
        /\ outputs = [i \in DOMAIN outputs |-> outputs[i]]
    OBVIOUS
  <2> HIDE DEF outputs
  <2>2. IsList(outputs) BY <2>1, MappedList
  <2>3. \A i \in DOMAIN outputs : SoundOutput(outputs[i]) BY <2>1, DefaultOutputSound
  <2> QED BY <1>1, <2>2, <2>3 DEF SoundOutputs, outputs
<1>6. SimulationProblems(p) = {}
  <2>1. ASSUME NEW k \in DOMAIN ProfileRange PROVE ProfileIntegers[k] \in ProfileRange[k]
    BY Bounds DEF ProfileRange, ProfileIntegers
  <2>2. ~ (ProfileNumbers["track.speed_kn"] <= 0) BY DEF ProfileNumbers, Seeds, Variations
  <2> QED BY <1>1, <1>2, <2>1, <2>2, NoSimulationProblems DEF Modes, Times
<1>7. NoPath \in Paths BY DEF Paths
<1> QED BY <1>1, <1>4, <1>5, <1>6, <1>7 DEF Sound, p

(* What is sound can be run.                                               *)
LEMMA SoundFit ==
    ASSUME NEW p, Sound(p)
    PROVE  Fit(p)
<1>1. /\ \A k \in DOMAIN ProfileRange : p.integers[k] \in ProfileRange[k]
      /\ ~ (p.numbers["track.speed_kn"] <= 0)
      /\ p.texts["mode"] = "track" => p.track_path # NoPath
      /\ p.texts["mode"] = "replay" => p.replay_path # NoPath
  BY NoSimulationProblems DEF Sound
<1>2. p.integers["tick_ms"] \in 10 .. LongestTick
  <2>1. "tick_ms" \in DOMAIN ProfileRange /\ ProfileRange["tick_ms"] = 10 .. LongestTick
    BY DEF ProfileRange, ProfileIntegers
  <2> QED BY <1>1, <2>1
<1>3. p.numbers["track.speed_kn"] > 0
  <2>1. "track.speed_kn" \in DOMAIN ProfileNumbers BY DEF ProfileNumbers
  <2>2. p.numbers["track.speed_kn"] \in Int BY <2>1 DEF Sound, SoundValues
  <2> QED BY <1>1, <2>2
<1> DEFINE c == p.custom_sentences
           id(k) == EffectiveId(c[k], k)
<1>4. Len(c) \in Nat /\ DOMAIN c = 1 .. Len(c)
  BY ListDomain DEF Sound, SoundValues, SoundCustom
<1>5. \A i \in DOMAIN c : c[i].id \notin SentenceIds /\ \A j \in 1 .. i - 1 : id(j) # id(i)
  BY NoCustomProblems DEF Sound, SoundValues
<1>6. \A i \in DOMAIN c : RowId(i) \notin SentenceIds
  BY DEF Sound, SoundValues, SoundCustom
<1>7. ASSUME NEW i \in DOMAIN c PROVE id(i) \notin SentenceIds
  BY <1>5, <1>6 DEF EffectiveId
<1> HIDE DEF id
<1>8. ASSUME NEW i \in DOMAIN c, NEW j \in DOMAIN c, i # j PROVE id(i) # id(j)
  <2>1. i \in Int /\ j \in Int /\ i >= 1 /\ j >= 1 BY <1>4
  <2>2. CASE j < i
    <3>1. j \in 1 .. i - 1 BY <2>1, <2>2
    <3> QED BY <1>5, <3>1
  <2>3. CASE i < j
    <3>1. i \in 1 .. j - 1 BY <2>1, <2>3
    <3> QED BY <1>5, <3>1
  <2> QED BY <1>8, <2>1, <2>2, <2>3
<1> QED BY <1>1, <1>2, <1>3, <1>7, <1>8 DEF Fit, id

-----------------------------------------------------------------------------
(* The invariant.                                                          *)

(* What is saved is a document.                                            *)
LEMMA SavedFile ==
    ASSUME ProfileAssumption, NEW p, Sound(p), NEW d \in Int
    PROVE  IsDocument(Save(p, d))
  BY RelocatedFacts, WrittenDocument DEF Save

(* The program holds a sound profile; its files are documents; and a file  *)
(* that nobody touched is what the saved profile is written as, for its    *)
(* directory (Profile::save, load, from_json, to_json).                    *)
THEOREM FilesInductive ==
    ASSUME FilesAssumption
    PROVE  FilesSpec => []FilesInv
<1>0. ProfileAssumption /\ Directories \subseteq Int BY DEF FilesAssumption
<1>1. FilesInit => FilesInv
  BY <1>0, DefaultSound, NoItems DEF FilesInit, FilesInv
<1>2. FilesInv /\ [FilesNext]_filesVars => FilesInv'
  <2> SUFFICES ASSUME FilesInv, [FilesNext]_filesVars PROVE FilesInv'
    OBVIOUS
  <2> USE DEF FilesInv
  <2>1. CASE NewProfile
    BY <1>0, <2>1, DefaultSound DEF NewProfile
  <2>2. ASSUME NEW d \in Directories, SaveTo(d) PROVE FilesInv'
    <3>1. /\ files' = With(files, d, Save(held, d))
          /\ kept' = With(kept, d, held)
          /\ held' = held
      BY <2>2 DEF SaveTo
    <3>2. IsDocument(Save(held, d)) BY <1>0, SavedFile
    <3>3. /\ DOMAIN files' = DOMAIN files \cup {d} /\ DOMAIN kept' = DOMAIN kept \cup {d}
      BY <3>1, WithDomain
    <3>4. files'[d] = Save(held, d) /\ kept'[d] = held BY <3>1, WithKey
    <3>5. \A e \in DOMAIN files : e # d => files'[e] = files[e] BY <3>1, WithOther
    <3>6. \A e \in DOMAIN kept : e # d => kept'[e] = kept[e] BY <3>1, WithOther
    <3> QED BY <3>1, <3>2, <3>3, <3>4, <3>5, <3>6
  <2>3. ASSUME NEW d \in Directories, Open(d) PROVE FilesInv'
    <3>1. UNCHANGED <<files, kept>> BY <2>3 DEF Open
    <3>2. CASE d \in DOMAIN files /\ Valid(files[d])
      <4>1. held' = Load(files[d], d) BY <2>3, <3>2 DEF Open
      <4>2. Sound(Load(files[d], d)) BY <1>0, <3>2, LoadedSound
      <4> QED BY <3>1, <4>1, <4>2
    <3>3. CASE ~ (d \in DOMAIN files /\ Valid(files[d]))
      <4>1. held' = held BY <2>3, <3>3 DEF Open
      <4> QED BY <3>1, <4>1
    <3> QED BY <3>2, <3>3
  <2>4. ASSUME NEW d \in Directories, NEW e \in HandEdits, EditFile(d, e) PROVE FilesInv'
    <3>1. /\ d \in DOMAIN files
          /\ files' = [files EXCEPT ![d] = Edited(files[d], e)]
          /\ kept' = Restrict(kept, DOMAIN kept \ {d})
          /\ held' = held
      BY <2>4 DEF EditFile
    <3>2. IsDocument(Edited(files[d], e)) BY <3>1, EditedDocument
    <3>3. /\ DOMAIN files' = DOMAIN files /\ files'[d] = Edited(files[d], e)
          /\ \A x \in DOMAIN files : x # d => files'[x] = files[x]
      BY <3>1
    <3>4. /\ DOMAIN kept' = DOMAIN kept \ {d}
          /\ \A x \in DOMAIN kept' : kept'[x] = kept[x]
      BY <3>1, RestrictFacts
    <3> QED BY <3>1, <3>2, <3>3, <3>4
  <2>5. ASSUME NEW r \in Revisions, Revise(r) PROVE FilesInv'
    BY <2>5, RevisedSound DEF Revise
  <2>6. CASE UNCHANGED filesVars BY <2>6 DEF filesVars
  <2> QED BY <2>1, <2>2, <2>3, <2>4, <2>5, <2>6 DEF FilesNext
<1> QED BY <1>1, <1>2, PTL DEF FilesSpec

(* The files that nobody touched load as the profiles that were saved, and *)
(* what a program holds can be run.                                        *)
THEOREM SavedProfilesLoad ==
    ASSUME FilesAssumption
    PROVE  FilesSpec => []LoadsWhatWasSaved
<1>1. FilesInv => LoadsWhatWasSaved
  BY SoundFit, SavedLoads DEF FilesAssumption, FilesInv, LoadsWhatWasSaved
<1> QED BY <1>1, FilesInductive, PTL

-----------------------------------------------------------------------------
(* The outputs of a command line.                                          *)

(* Two lists joined.                                                       *)
LEMMA Joined ==
    ASSUME NEW s, NEW t, IsList(s), IsList(t)
    PROVE  /\ IsList(s \o t) /\ Len(s \o t) = Len(s) + Len(t)
           /\ Range(s \o t) = Range(s) \cup Range(t)
<1> DEFINE S == Range(s) \cup Range(t)
           u == s \o t
<1>1. /\ Len(s) \in Nat /\ DOMAIN s = 1 .. Len(s)
      /\ Len(t) \in Nat /\ DOMAIN t = 1 .. Len(t)
  BY ListDomain
<1>2. s \in Seq(S) /\ t \in Seq(S)
  <2>1. Range(s) \subseteq S /\ Range(t) \subseteq S OBVIOUS
  <2>2. s \in Seq(Range(s)) /\ t \in Seq(Range(t)) BY DEF IsList
  <2> HIDE DEF S
  <2> QED BY <2>1, <2>2
<1>3. /\ u \in Seq(S) /\ Len(u) = Len(s) + Len(t)
      /\ \A i \in 1 .. Len(s) + Len(t) :
            u[i] = IF i <= Len(s) THEN s[i] ELSE t[i - Len(s)]
  BY <1>2, ConcatProperties
<1> HIDE DEF u
<1>4. DOMAIN u = 1 .. Len(s) + Len(t) BY <1>3
<1>5. Range(u) = S
  <2>1. ASSUME NEW i \in DOMAIN u PROVE u[i] \in S
    <3>1. CASE i <= Len(s) BY <1>1, <1>3, <1>4, <3>1 DEF Range
    <3>2. CASE ~ (i <= Len(s))
      <4>1. i - Len(s) \in DOMAIN t BY <1>1, <1>4, <3>2
      <4> QED BY <1>3, <1>4, <3>2, <4>1 DEF Range
    <3> QED BY <3>1, <3>2
  <2>2. ASSUME NEW i \in DOMAIN s PROVE s[i] \in Range(u)
    <3>1. i \in DOMAIN u /\ u[i] = s[i] BY <1>1, <1>3, <1>4
    <3> QED BY <3>1 DEF Range
  <2>3. ASSUME NEW i \in DOMAIN t PROVE t[i] \in Range(u)
    <3>1. i + Len(s) \in DOMAIN u /\ ~ (i + Len(s) <= Len(s)) /\ i + Len(s) - Len(s) = i
      BY <1>1, <1>4
    <3>2. u[i + Len(s)] = t[i] BY <1>3, <1>4, <3>1
    <3> QED BY <3>1, <3>2 DEF Range
  <2>4. Range(s) \subseteq Range(u) /\ Range(t) \subseteq Range(u)
    BY <2>2, <2>3 DEF Range
  <2>5. Range(u) \subseteq S BY <2>1 DEF Range
  <2> QED BY <2>4, <2>5
<1>6. IsList(u)
  <2>1. u = [i \in DOMAIN u |-> u[i]] BY <1>3
  <2>2. Len(s) + Len(t) \in Nat BY <1>1
  <2> QED BY <1>4, <2>1, <2>2, MappedList
<1> QED BY <1>3, <1>5, <1>6 DEF u

(* What an option of a command line makes is no log; it is enabled, and    *)
(* has the fields of an output.                                            *)
Shaped(x) == /\ DOMAIN x = DOMAIN DefaultOutput
             /\ DOMAIN x.flags = DOMAIN OutputFlags /\ DOMAIN x.texts = DOMAIN OutputTexts
Optional(x) == Shaped(x) /\ x.flags["enabled"] /\ x.type # "log"

(* The default output, which every option starts from.                     *)
LEMMA DefaultShaped ==
    /\ Shaped(DefaultOutput) /\ DefaultOutput.flags = OutputFlags
    /\ DefaultOutput.texts = OutputTexts /\ DefaultOutput.integers = OutputIntegers
    /\ OutputFlags["enabled"] /\ OutputTexts["encoding"] = "nmea0183"
    /\ {"enabled", "append", "tag_block.enabled"} \subseteq DOMAIN OutputFlags
    /\ {"encoding", "address", "mode", "tag_block.source"} \subseteq DOMAIN OutputTexts
    /\ DOMAIN DefaultOutput = {"type", "numbers", "integers", "flags", "texts", "path", "filter"}
<1>1. DOMAIN DefaultOutput = {"type", "numbers", "integers", "flags", "texts", "path", "filter"}
      /\ DefaultOutput.flags = OutputFlags /\ DefaultOutput.texts = OutputTexts
      /\ DefaultOutput.integers = OutputIntegers
  BY DEF DefaultOutput
<1>2. OutputFlags["enabled"]
      /\ {"enabled", "append", "tag_block.enabled"} \subseteq DOMAIN OutputFlags
  BY DEF OutputFlags
<1>3. OutputTexts["encoding"] = "nmea0183"
      /\ {"encoding", "address", "mode", "tag_block.source"} \subseteq DOMAIN OutputTexts
  BY DEF OutputTexts
<1> QED BY <1>1, <1>2, <1>3 DEF Shaped

(* The outputs that listen on a port.                                      *)
LEMMA PortOptional ==
    ASSUME NEW type \in {"tcp-server", "udp", "websocket-server"}, NEW port
    PROVE  LET x == PortOutput(type, port)
           IN  Optional(x) /\ x.type = type /\ x.texts = OutputTexts /\ x.flags = OutputFlags
<1> DEFINE d == DefaultOutput
           x == [d EXCEPT !.type = type,
                          !.integers = [d.integers EXCEPT !["port"] = port]]
<1>1. PortOutput(type, port) = x BY DEF PortOutput
<1>2. /\ DOMAIN x = DOMAIN d /\ x.type = type /\ x.flags = d.flags /\ x.texts = d.texts
  <2> HIDE DEF d
  <2> QED BY DefaultShaped DEF d
<1> HIDE DEF x
<1> QED BY <1>1, <1>2, DefaultShaped DEF Optional, Shaped

(* What is split off a target is its own host.                             *)
LEMMA SplitFacts ==
    ASSUME NEW target, SplitHostPort(target) # None
    PROVE  SplitHostPort(target).host = target.host
<1> DEFINE port == IF target.port = None THEN None ELSE ParseDigits(target.port)
           parts == [host |-> target.host, port |-> port]
<1>1. SplitHostPort(target) \in {None, parts}
  <2>1. CASE target.host = "" \/ port = None \/ port \notin 1 .. LargestPort
    BY <2>1 DEF SplitHostPort
  <2>2. CASE ~ (target.host = "" \/ port = None \/ port \notin 1 .. LargestPort)
    BY <2>2 DEF SplitHostPort
  <2> QED BY <2>1, <2>2
<1>2. SplitHostPort(target) = parts
  <2> HIDE DEF parts
  <2> QED BY <1>1
<1>3. parts.host = target.host
  <2> HIDE DEF port
  <2> QED OBVIOUS
<1> HIDE DEF parts
<1> QED BY <1>2, <1>3

(* A UDP output sends to its target, and broadcasts to a broadcast address *)
(* only.                                                                   *)
LEMMA UdpOptional ==
    ASSUME NEW target
    PROVE  LET x == UdpOutput(target)
           IN  /\ Optional(x) /\ x.type = "udp"
               /\ x.texts["address"] = SplitHostPort(target).host
               /\ (x.texts["mode"] = "broadcast")
                    <=> IsBroadcastAddress(SplitHostPort(target).host)
<1> DEFINE host == SplitHostPort(target).host
           d == PortOutput("udp", SplitHostPort(target).port)
           mode == IF IsBroadcastAddress(host) THEN "broadcast" ELSE "unicast"
           x == [d EXCEPT !.texts = [[d.texts EXCEPT !["address"] = host] EXCEPT !["mode"] = mode]]
<1>1. UdpOutput(target) = x BY DEF UdpOutput
<1>2. Optional(d) /\ d.type = "udp" /\ d.texts = OutputTexts /\ d.flags = OutputFlags
  BY PortOptional
<1>3. mode = "broadcast" <=> IsBroadcastAddress(host) OBVIOUS
<1> HIDE DEF d, mode, host
<1>4. /\ DOMAIN x = DOMAIN d /\ x.type = d.type /\ x.flags = d.flags
      /\ DOMAIN x.texts = DOMAIN OutputTexts
      /\ x.texts["address"] = host /\ x.texts["mode"] = mode
  BY <1>2, DefaultShaped DEF Optional, Shaped
<1> HIDE DEF x
<1> QED BY <1>1, <1>2, <1>3, <1>4, DefaultShaped DEF Optional, Shaped, host

(* Serial ports, files and the standard output.                            *)
LEMMA OtherOptional ==
    /\ \A target : Optional(SerialOutput(target))
    /\ \A path : LET x == FileOutput(path)
                 IN  Optional(x) /\ x.type = "file" /\ x.path = AbsolutePath(path)
    /\ Optional([DefaultOutput EXCEPT !.type = "stdout"])
<1> DEFINE d == DefaultOutput
<1>1. ASSUME NEW target PROVE Optional(SerialOutput(target))
  <2> DEFINE name == SplitSerial(target).device
             baud == SplitSerial(target).baud
             x == [d EXCEPT !.type = "serial", !.texts = [d.texts EXCEPT !["port_name"] = name],
                            !.integers = [d.integers EXCEPT !["baud_rate"] = baud]]
  <2>1. SerialOutput(target) = x BY DEF SerialOutput
  <2>2. /\ DOMAIN x = DOMAIN d /\ x.type = "serial" /\ x.flags = d.flags
        /\ DOMAIN x.texts = DOMAIN d.texts
    <3> HIDE DEF d, name, baud
    <3> QED BY DefaultShaped DEF d
  <2> HIDE DEF x
  <2> QED BY <2>1, <2>2, DefaultShaped DEF Optional, Shaped
<1>2. ASSUME NEW type \in {"file", "stdout"}, NEW path
      PROVE  LET x == [d EXCEPT !.type = type, !.path = path]
             IN  Optional(x) /\ x.type = type /\ x.path = path
  <2> DEFINE x == [d EXCEPT !.type = type, !.path = path]
  <2>1. /\ DOMAIN x = DOMAIN d /\ x.type = type /\ x.path = path /\ x.flags = d.flags
        /\ x.texts = d.texts
    <3> HIDE DEF d
    <3> QED BY DefaultShaped DEF d
  <2> HIDE DEF x
  <2> QED BY <2>1, DefaultShaped DEF Optional, Shaped, x
<1>3. [d EXCEPT !.type = "stdout"] = [d EXCEPT !.type = "stdout", !.path = d.path]
  BY DefaultShaped
<1> QED BY <1>1, <1>2, <1>3 DEF FileOutput

(* The outputs of a command line: as many as there are options for them,   *)
(* all of them enabled and none a log, every file and every target among   *)
(* them.                                                                   *)
Listed(o) == /\ IsList(o.tcp) /\ IsList(o.udp) /\ IsList(o.websocket) /\ IsList(o.serial)
             /\ IsList(o.files)

OptionCount(o) ==
    Len(o.tcp) + Len(o.udp) + Len(o.websocket) + Len(o.serial) + Len(o.files)
    + (IF o.stdout THEN 1 ELSE 0)

(* A list made of another, item by item.                                   *)
LEMMA MappedOver ==
    ASSUME NEW s, IsList(s), NEW f, DOMAIN f = DOMAIN s, f = [i \in DOMAIN f |-> f[i]]
    PROVE  IsList(f) /\ Len(f) = Len(s)
<1>1. Len(s) \in Nat /\ DOMAIN s = 1 .. Len(s) BY ListDomain
<1>2. IsList(f) BY <1>1, MappedList
<1>3. Len(f) \in Nat /\ DOMAIN f = 1 .. Len(f) BY <1>2, ListDomain
<1> QED BY <1>1, <1>2, <1>3

(* The list that the options make.                                         *)
LEMMA OptionsFacts ==
    ASSUME NEW o, Listed(o)
    PROVE  /\ IsList(OutputOptions(o)) /\ Len(OutputOptions(o)) = OptionCount(o)
           /\ \A x \in Range(OutputOptions(o)) : Optional(x)
           /\ \A i \in DOMAIN o.files : FileOutput(o.files[i]) \in Range(OutputOptions(o))
           /\ \A i \in DOMAIN o.udp : UdpOutput(o.udp[i]) \in Range(OutputOptions(o))
<1> DEFINE tcp == [i \in DOMAIN o.tcp |-> PortOutput("tcp-server", o.tcp[i])]
           udp == [i \in DOMAIN o.udp |-> UdpOutput(o.udp[i])]
           websocket == [i \in DOMAIN o.websocket |->
                            PortOutput("websocket-server", o.websocket[i])]
           serial == [i \in DOMAIN o.serial |-> SerialOutput(o.serial[i])]
           file == [i \in DOMAIN o.files |-> FileOutput(o.files[i])]
           stdout == IF o.stdout THEN <<[DefaultOutput EXCEPT !.type = "stdout"]>> ELSE <<>>
<1>1. OutputOptions(o) = tcp \o udp \o websocket \o serial \o file \o stdout
  BY DEF OutputOptions
<1>2. /\ IsList(tcp) /\ Len(tcp) = Len(o.tcp)
      /\ \A x \in Range(tcp) : Optional(x)
  BY MappedOver, PortOptional DEF Listed, Range
<1>3. /\ IsList(udp) /\ Len(udp) = Len(o.udp)
      /\ \A x \in Range(udp) : Optional(x)
      /\ \A i \in DOMAIN o.udp : UdpOutput(o.udp[i]) \in Range(udp)
  BY MappedOver, UdpOptional DEF Listed, Range
<1>4. /\ IsList(websocket) /\ Len(websocket) = Len(o.websocket)
      /\ \A x \in Range(websocket) : Optional(x)
  BY MappedOver, PortOptional DEF Listed, Range
<1>5. /\ IsList(serial) /\ Len(serial) = Len(o.serial)
      /\ \A x \in Range(serial) : Optional(x)
  BY MappedOver, OtherOptional DEF Listed, Range
<1>6. /\ IsList(file) /\ Len(file) = Len(o.files)
      /\ \A x \in Range(file) : Optional(x)
      /\ \A i \in DOMAIN o.files : FileOutput(o.files[i]) \in Range(file)
  BY MappedOver, OtherOptional DEF Listed, Range
<1>7. /\ IsList(stdout) /\ Len(stdout) = IF o.stdout THEN 1 ELSE 0
      /\ \A x \in Range(stdout) : Optional(x)
  <2> DEFINE d == [DefaultOutput EXCEPT !.type = "stdout"]
  <2>1. Optional(d) BY OtherOptional
  <2> HIDE DEF d
  <2>2. IsList(<<d>>) /\ Len(<<d>>) = 1 /\ Range(<<d>>) = {d} BY DEF IsList, Range
  <2>3. IsList(<<>>) /\ Len(<<>>) = 0 /\ Range(<<>>) = {} BY DEF IsList, Range
  <2> QED BY <2>1, <2>2, <2>3 DEF d
<1> HIDE DEF tcp, udp, websocket, serial, file, stdout
<1> DEFINE s2 == tcp \o udp
           s3 == s2 \o websocket
           s4 == s3 \o serial
           s5 == s4 \o file
           s6 == s5 \o stdout
<1>8. IsList(s2) /\ Len(s2) = Len(tcp) + Len(udp) /\ Range(s2) = Range(tcp) \cup Range(udp)
  BY <1>2, <1>3, Joined
<1> HIDE DEF s2
<1>9. IsList(s3) /\ Len(s3) = Len(s2) + Len(websocket)
      /\ Range(s3) = Range(s2) \cup Range(websocket)
  BY <1>4, <1>8, Joined
<1> HIDE DEF s3
<1>10. IsList(s4) /\ Len(s4) = Len(s3) + Len(serial)
       /\ Range(s4) = Range(s3) \cup Range(serial)
  BY <1>5, <1>9, Joined
<1> HIDE DEF s4
<1>11. IsList(s5) /\ Len(s5) = Len(s4) + Len(file) /\ Range(s5) = Range(s4) \cup Range(file)
  BY <1>6, <1>10, Joined
<1> HIDE DEF s5
<1>12. IsList(s6) /\ Len(s6) = Len(s5) + Len(stdout)
       /\ Range(s6) = Range(s5) \cup Range(stdout)
  BY <1>7, <1>11, Joined
<1>13. OutputOptions(o) = s6 BY <1>1 DEF s2, s3, s4, s5
<1> HIDE DEF s6
<1>14. Len(s6) = OptionCount(o)
  BY <1>2, <1>3, <1>4, <1>5, <1>6, <1>7, <1>8, <1>9, <1>10, <1>11, <1>12 DEF OptionCount
<1> QED
  BY <1>2, <1>3, <1>4, <1>5, <1>6, <1>7, <1>8, <1>9, <1>10, <1>11, <1>12, <1>13, <1>14

(* The encoding and the TAG block change nothing else; a log keeps its own.*)
LEMMA EncodedFacts ==
    ASSUME NEW o, NEW x, Shaped(x)
    PROVE  LET e == Encoded(o, x)
           IN  /\ Shaped(e) /\ e.type = x.type /\ e.path = x.path
               /\ e.flags["enabled"] = x.flags["enabled"]
               /\ e.texts["address"] = x.texts["address"]
               /\ e.texts["mode"] = x.texts["mode"]
               /\ x.type = "log" => e = x
               /\ x.type # "log" /\ o.encoding # "" => e.texts["encoding"] = o.encoding
<1>1. CASE x.type = "log" BY <1>1 DEF Encoded
<1>2. CASE x.type # "log"
  <2> DEFINE encoding == IF o.encoding = "" THEN x.texts["encoding"] ELSE o.encoding
             source == IF o.tag_source = "" THEN x.texts["tag_block.source"] ELSE o.tag_source
             tagged == x.flags["tag_block.enabled"] \/ o.tag_block
             texts == [[x.texts EXCEPT !["encoding"] = encoding]
                        EXCEPT !["tag_block.source"] = source]
             flags == [x.flags EXCEPT !["tag_block.enabled"] = tagged]
             e == [x EXCEPT !.texts = texts, !.flags = flags]
  <2>1. Encoded(o, x) = e
    <3>1. Encoded(o, x) =
            [x EXCEPT !.texts["encoding"] = encoding, !.flags["tag_block.enabled"] = tagged,
                      !.texts["tag_block.source"] = source]
      <4> HIDE DEF texts, flags
      <4> QED BY <1>2 DEF Encoded
    <3> HIDE DEF encoding, source, tagged
    <3> QED BY <3>1, DefaultShaped DEF Shaped
  <2>2. o.encoding # "" => encoding = o.encoding OBVIOUS
  <2> HIDE DEF encoding, source, tagged
  <2>3. /\ DOMAIN texts = DOMAIN OutputTexts /\ texts["encoding"] = encoding
        /\ texts["address"] = x.texts["address"] /\ texts["mode"] = x.texts["mode"]
    BY DefaultShaped DEF Shaped
  <2>4. DOMAIN flags = DOMAIN OutputFlags /\ flags["enabled"] = x.flags["enabled"]
    BY DefaultShaped DEF Shaped
  <2> HIDE DEF texts, flags
  <2>5. /\ DOMAIN e = DOMAIN x /\ e.texts = texts /\ e.flags = flags
        /\ e.type = x.type /\ e.path = x.path
    BY DefaultShaped DEF Shaped
  <2> HIDE DEF e
  <2> QED BY <1>2, <2>1, <2>2, <2>3, <2>4, <2>5 DEF Shaped
<1> QED BY <1>1, <1>2

-----------------------------------------------------------------------------
(* The overrides.                                                          *)

(* What is known of a profile before and between the overrides.            *)
Whole(p) ==
    /\ DOMAIN p = DOMAIN DefaultProfile
    /\ DOMAIN p.texts = DOMAIN ProfileTexts /\ DOMAIN p.flags = DOMAIN ProfileFlags
    /\ IsList(p.outputs) /\ \A i \in DOMAIN p.outputs : Shaped(p.outputs[i])

(* Only the outputs change, and each by its encoding alone.                *)
LEMMA OutputOverrides ==
    ASSUME NEW o, Listed(o), NEW p, Whole(p)
    PROVE  LET q == ApplyOutputOverrides(o, p)
               outs == IF GivesOutputs(o) THEN OutputOptions(o) ELSE p.outputs
           IN  /\ Whole(q)
               /\ \A f \in DOMAIN DefaultProfile \ {"outputs"} : q[f] = p[f]
               /\ DOMAIN q.outputs = DOMAIN outs /\ Len(q.outputs) = Len(outs)
               /\ \A i \in DOMAIN outs : q.outputs[i] = Encoded(o, outs[i])
<1> DEFINE outs == IF GivesOutputs(o) THEN OutputOptions(o) ELSE p.outputs
           encoded == [i \in DOMAIN outs |-> Encoded(o, outs[i])]
           q == [p EXCEPT !.outputs = encoded]
<1>1. ApplyOutputOverrides(o, p) = q BY DEF ApplyOutputOverrides
<1>2. IsList(outs) /\ \A i \in DOMAIN outs : Shaped(outs[i])
  BY OptionsFacts DEF Whole, Optional, Range
<1> HIDE DEF outs
<1>3. IsList(encoded) /\ Len(encoded) = Len(outs) BY <1>2, MappedOver
<1>4. \A i \in DOMAIN encoded : Shaped(encoded[i]) BY <1>2, EncodedFacts
<1>5. DOMAIN encoded = DOMAIN outs /\ \A i \in DOMAIN outs : encoded[i] = Encoded(o, outs[i])
  OBVIOUS
<1> HIDE DEF encoded
<1>6. /\ DOMAIN q = DOMAIN p /\ q.outputs = encoded
      /\ \A f \in DOMAIN DefaultProfile \ {"outputs"} : q[f] = p[f]
  BY ProfileParts DEF Whole
<1> HIDE DEF q
<1>7. q.texts = p.texts /\ q.flags = p.flags BY <1>6, ProfileParts
<1>8. Whole(q) BY <1>3, <1>4, <1>6, <1>7 DEF Whole
<1> QED BY <1>1, <1>3, <1>5, <1>6, <1>8 DEF outs

(* Only the settings change.                                               *)
LEMMA SentenceOverrides ==
    ASSUME NEW o, NEW p, Whole(p)
    PROVE  LET q == ApplySentenceOverrides(o, p)
           IN  /\ Whole(q)
               /\ \A f \in DOMAIN DefaultProfile \ {"sentences"} : q[f] = p[f]
               /\ \A id \in OverriddenIds(o) :
                    SettingOf(q, id) = OverriddenSetting(o, SettingOf(p, id), id)
               /\ \A id : id \notin OverriddenIds(o) => SettingOf(q, id) = SettingOf(p, id)
<1> DEFINE changed == [id \in OverriddenIds(o) |-> OverriddenSetting(o, SettingOf(p, id), id)]
           sentences == Over(changed, p.sentences)
           q == [p EXCEPT !.sentences = sentences]
<1>1. ApplySentenceOverrides(o, p) = q BY DEF ApplySentenceOverrides
<1>2. DOMAIN changed = OverriddenIds(o)
      /\ \A id \in OverriddenIds(o) : changed[id] = OverriddenSetting(o, SettingOf(p, id), id)
  OBVIOUS
<1> HIDE DEF changed
<1>3. /\ DOMAIN sentences = OverriddenIds(o) \cup DOMAIN p.sentences
      /\ \A id \in OverriddenIds(o) : sentences[id] = OverriddenSetting(o, SettingOf(p, id), id)
      /\ \A id \in DOMAIN p.sentences :
            id \notin OverriddenIds(o) => sentences[id] = p.sentences[id]
  <2>1. /\ DOMAIN sentences = DOMAIN changed \cup DOMAIN p.sentences
        /\ \A id \in DOMAIN changed : sentences[id] = changed[id]
        /\ \A id \in DOMAIN p.sentences :
            id \notin DOMAIN changed => sentences[id] = p.sentences[id]
    BY OverFacts
  <2> HIDE DEF sentences
  <2> QED BY <1>2, <2>1
<1> HIDE DEF sentences
<1>4. /\ DOMAIN q = DOMAIN p /\ q.sentences = sentences
      /\ \A f \in DOMAIN DefaultProfile \ {"sentences"} : q[f] = p[f]
  BY ProfileParts DEF Whole
<1> HIDE DEF q
<1>5. q.texts = p.texts /\ q.flags = p.flags /\ q.outputs = p.outputs BY <1>4, ProfileParts
<1>6. Whole(q) BY <1>4, <1>5 DEF Whole
<1>7. \A id \in OverriddenIds(o) : SettingOf(q, id) = OverriddenSetting(o, SettingOf(p, id), id)
  BY <1>3, <1>4 DEF SettingOf
<1>8. \A id : id \notin OverriddenIds(o) => SettingOf(q, id) = SettingOf(p, id)
  BY <1>3, <1>4 DEF SettingOf
<1> QED BY <1>1, <1>4, <1>6, <1>7, <1>8

(* Only the destination changes; its leg starts at the seed.               *)
LEMMA DestinationOverrides ==
    ASSUME NEW o, NEW p, Whole(p)
    PROVE  LET q == ApplyDestination(o, p)
           IN  /\ Whole(q)
               /\ \A f \in DOMAIN DefaultProfile \ {"destination"} : q[f] = p[f]
               /\ o.destination # None => \E d \in q.destination :
                    /\ d.numbers["origin_latitude"] = p.numbers["seed.position.latitude"]
                    /\ d.numbers["longitude"] = o.destination.longitude
<1>1. CASE o.destination = None BY <1>1 DEF ApplyDestination
<1>2. CASE o.destination # None
  <2> DEFINE at == o.destination
             leg == [latitude |-> at.latitude, longitude |-> at.longitude,
                     origin_latitude |-> p.numbers["seed.position.latitude"],
                     origin_longitude |-> p.numbers["seed.position.longitude"],
                     arrival_radius_m |-> 100 * Unit]
             d == [name |-> IF at.name = "" THEN "WPT" ELSE at.name, numbers |-> leg]
             q == [p EXCEPT !.destination = {d}]
  <2>1. ApplyDestination(o, p) = q BY <1>2 DEF ApplyDestination
  <2>2. /\ d.numbers["origin_latitude"] = p.numbers["seed.position.latitude"]
        /\ d.numbers["longitude"] = at.longitude
    OBVIOUS
  <2> HIDE DEF d
  <2>3. /\ DOMAIN q = DOMAIN p /\ q.destination = {d}
        /\ \A f \in DOMAIN DefaultProfile \ {"destination"} : q[f] = p[f]
    BY ProfileParts DEF Whole
  <2> HIDE DEF q
  <2>4. q.texts = p.texts /\ q.flags = p.flags /\ q.outputs = p.outputs
    BY <2>3, ProfileParts
  <2>5. Whole(q) BY <2>3, <2>4 DEF Whole
  <2> QED BY <2>1, <2>2, <2>3, <2>5
<1> QED BY <1>1, <1>2

(* The keys that the source of a run goes by.                              *)
LEMMA SourceKeys ==
    /\ {"track.loop", "replay.loop", "track.use_timestamps"} \subseteq DOMAIN ProfileFlags
    /\ "mode" \in DOMAIN ProfileTexts
  BY DEF ProfileFlags, ProfileTexts

(* The source follows the track or the log of the command line; the        *)
(* sentences, the destination and the directory stay.                      *)
LEMMA SourceFacts ==
    ASSUME NEW o, NEW p, Whole(p)
    PROVE  LET q == SourceOverrides(o, p)
           IN  /\ Whole(q)
               /\ \A f \in {"sentences", "destination", "base_directory", "outputs"} : q[f] = p[f]
               /\ o.track # NoPath =>
                    /\ q.texts["mode"] = "track" /\ q.track_path = AbsolutePath(o.track)
                    /\ q.flags["track.loop"] = (p.flags["track.loop"] \/ o.loop)
               /\ o.track = NoPath /\ o.replay # NoPath =>
                    /\ q.texts["mode"] = "replay" /\ q.replay_path = AbsolutePath(o.replay)
                    /\ q.flags["replay.loop"] = (p.flags["replay.loop"] \/ o.loop)
               /\ o.track = NoPath /\ o.replay = NoPath =>
                    /\ q.texts = p.texts /\ q.track_path = p.track_path
                    /\ q.flags["track.loop"] = (p.flags["track.loop"] \/ o.loop)
                    /\ q.flags["replay.loop"] = (p.flags["replay.loop"] \/ o.loop)
<1>0. /\ DOMAIN p = DOMAIN DefaultProfile
      /\ DOMAIN p.texts = DOMAIN ProfileTexts /\ DOMAIN p.flags = DOMAIN ProfileFlags
  BY DEF Whole
<1>1. CASE o.track # NoPath
  <2> DEFINE path == AbsolutePath(o.track)
             loop == p.flags["track.loop"] \/ o.loop
             timed == p.flags["track.use_timestamps"] /\ ~ o.ignore_timestamps
             speed == IF o.speed > 0 THEN o.speed ELSE p.numbers["track.speed_kn"]
             texts == [p.texts EXCEPT !["mode"] = "track"]
             flags == [[p.flags EXCEPT !["track.loop"] = loop]
                        EXCEPT !["track.use_timestamps"] = timed]
             numbers == [p.numbers EXCEPT !["track.speed_kn"] = speed]
             q == [p EXCEPT !.texts = texts, !.track_path = path, !.flags = flags,
                            !.numbers = numbers]
  <2>1. TrackOverrides(o, p) = q
    <3>1. TrackOverrides(o, p) =
            [p EXCEPT !.texts["mode"] = "track", !.track_path = path,
                      !.flags["track.loop"] = loop, !.flags["track.use_timestamps"] = timed,
                      !.numbers["track.speed_kn"] = speed]
      <4> HIDE DEF q, texts, flags, numbers
      <4>1. "track.loop" # "track.use_timestamps" OBVIOUS
      <4> QED BY <1>0, <4>1, ProfileParts, SourceKeys DEF TrackOverrides
    <3> HIDE DEF path, loop, timed, speed
    <3> QED BY <1>0, <3>1, ProfileParts
  <2> HIDE DEF path, timed, speed
  <2>2. DOMAIN texts = DOMAIN ProfileTexts /\ texts["mode"] = "track"
    BY <1>0, SourceKeys
  <2>3. DOMAIN flags = DOMAIN ProfileFlags /\ flags["track.loop"] = loop
    BY <1>0, SourceKeys
  <2> HIDE DEF texts, flags, numbers
  <2>4. /\ DOMAIN q = DOMAIN p /\ q.texts = texts /\ q.flags = flags /\ q.track_path = path
        /\ \A f \in {"sentences", "destination", "base_directory", "outputs"} : q[f] = p[f]
    BY <1>0, ProfileParts
  <2> HIDE DEF q
  <2>5. Whole(q) BY <2>2, <2>3, <2>4 DEF Whole
  <2> QED BY <1>1, <2>1, <2>2, <2>3, <2>4, <2>5 DEF path, SourceOverrides
<1>2. CASE o.track = NoPath /\ o.replay # NoPath
  <2> DEFINE path == AbsolutePath(o.replay)
             loop == p.flags["replay.loop"] \/ o.loop
             interval == IF o.replay_interval > 0 THEN o.replay_interval
                         ELSE p.integers["replay.fixed_interval_ms"]
             texts == [p.texts EXCEPT !["mode"] = "replay"]
             flags == [p.flags EXCEPT !["replay.loop"] = loop]
             integers == [p.integers EXCEPT !["replay.fixed_interval_ms"] = interval]
             q == [p EXCEPT !.texts = texts, !.replay_path = path, !.flags = flags,
                            !.integers = integers]
  <2>1. ReplayOverrides(o, p) = q
    <3>1. ReplayOverrides(o, p) =
            [p EXCEPT !.texts["mode"] = "replay", !.replay_path = path,
                      !.flags["replay.loop"] = loop,
                      !.integers["replay.fixed_interval_ms"] = interval]
      BY DEF ReplayOverrides
    <3> HIDE DEF path, loop, interval
    <3> QED BY <1>0, <3>1, ProfileParts
  <2> HIDE DEF path, interval
  <2>2. DOMAIN texts = DOMAIN ProfileTexts /\ texts["mode"] = "replay"
    BY <1>0, SourceKeys
  <2>3. DOMAIN flags = DOMAIN ProfileFlags /\ flags["replay.loop"] = loop
    BY <1>0, SourceKeys
  <2> HIDE DEF texts, flags, integers
  <2>4. /\ DOMAIN q = DOMAIN p /\ q.texts = texts /\ q.flags = flags /\ q.replay_path = path
        /\ \A f \in {"sentences", "destination", "base_directory", "outputs"} : q[f] = p[f]
    BY <1>0, ProfileParts
  <2> HIDE DEF q
  <2>5. Whole(q) BY <2>2, <2>3, <2>4 DEF Whole
  <2> QED BY <1>2, <2>1, <2>2, <2>3, <2>4, <2>5 DEF path, SourceOverrides
<1>3. CASE o.track = NoPath /\ o.replay = NoPath
  <2> DEFINE tracks == p.flags["track.loop"] \/ o.loop
             replays == p.flags["replay.loop"] \/ o.loop
             flags == [[p.flags EXCEPT !["track.loop"] = tracks]
                        EXCEPT !["replay.loop"] = replays]
             q == [p EXCEPT !.flags = flags]
  <2>1. [p EXCEPT !.flags["track.loop"] = @ \/ o.loop, !.flags["replay.loop"] = @ \/ o.loop] = q
    BY <1>0, ProfileParts, SourceKeys
  <2>2. DOMAIN flags = DOMAIN ProfileFlags /\ flags["track.loop"] = tracks
        /\ flags["replay.loop"] = replays
    BY <1>0, SourceKeys
  <2> HIDE DEF flags
  <2>3. /\ DOMAIN q = DOMAIN p /\ q.texts = p.texts /\ q.flags = flags
        /\ q.track_path = p.track_path
        /\ \A f \in {"sentences", "destination", "base_directory", "outputs"} : q[f] = p[f]
    BY <1>0, ProfileParts
  <2> HIDE DEF q
  <2>4. Whole(q) BY <1>0, <2>2, <2>3 DEF Whole
  <2> QED BY <1>3, <2>1, <2>2, <2>3, <2>4 DEF SourceOverrides
<1> QED BY <1>1, <1>2, <1>3

(* A recording is a log that replaces its file; its sentences can be read. *)
LEMMA RecordFacts ==
    ASSUME NEW path
    PROVE  LET x == RecordOutput(path)
           IN  /\ Shaped(x) /\ x.type = "log" /\ x.path = AbsolutePath(path)
               /\ x.flags["enabled"] /\ ~ x.flags["append"]
               /\ x.texts["encoding"] = "nmea0183"
<1> DEFINE d == DefaultOutput
           at == AbsolutePath(path)
           flags == [d.flags EXCEPT !["append"] = FALSE]
           x == [d EXCEPT !.type = "log", !.path = at, !.flags = flags]
<1>1. RecordOutput(path) = x BY DEF RecordOutput
<1>2. DOMAIN flags = DOMAIN OutputFlags /\ flags["enabled"] /\ ~ flags["append"]
  BY DefaultShaped
<1> HIDE DEF flags, at
<1>3. /\ DOMAIN x = DOMAIN d /\ x.type = "log" /\ x.path = at /\ x.flags = flags
      /\ x.texts = d.texts
  <2> HIDE DEF d
  <2> QED BY DefaultShaped DEF d
<1> HIDE DEF x
<1> QED BY <1>1, <1>2, <1>3, DefaultShaped DEF Shaped, at

(* What all the overrides make of a profile.                               *)
Outputs(o, p) == IF GivesOutputs(o) THEN OutputOptions(o) ELSE p.outputs

(* Every part of it.                                                       *)
LEMMA OverriddenFacts ==
    ASSUME NEW o, Listed(o), NEW p, Whole(p)
    PROVE  LET q == Overridden(o, p)
               n == Len(Outputs(o, p))
           IN  /\ q.base_directory = p.base_directory
               /\ \A id \in OverriddenIds(o) :
                    SettingOf(q, id) = OverriddenSetting(o, SettingOf(p, id), id)
               /\ \A id : id \notin OverriddenIds(o) => SettingOf(q, id) = SettingOf(p, id)
               /\ o.destination # None => \E d \in q.destination :
                    /\ d.numbers["origin_latitude"] = p.numbers["seed.position.latitude"]
                    /\ d.numbers["longitude"] = o.destination.longitude
               /\ o.track # NoPath =>
                    /\ q.texts["mode"] = "track" /\ q.track_path = AbsolutePath(o.track)
                    /\ q.flags["track.loop"] = (p.flags["track.loop"] \/ o.loop)
               /\ o.track = NoPath /\ o.replay # NoPath =>
                    /\ q.texts["mode"] = "replay" /\ q.replay_path = AbsolutePath(o.replay)
                    /\ q.flags["replay.loop"] = (p.flags["replay.loop"] \/ o.loop)
               /\ o.track = NoPath /\ o.replay = NoPath =>
                    /\ q.texts["mode"] = p.texts["mode"] /\ q.track_path = p.track_path
                    /\ q.flags["track.loop"] = (p.flags["track.loop"] \/ o.loop)
                    /\ q.flags["replay.loop"] = (p.flags["replay.loop"] \/ o.loop)
               /\ n \in Nat /\ DOMAIN Outputs(o, p) = 1 .. n
               /\ \A i \in 1 .. n : /\ Shaped(Outputs(o, p)[i])
                                    /\ q.outputs[i] = Encoded(o, Outputs(o, p)[i])
               /\ o.record = NoPath => Len(q.outputs) = n /\ DOMAIN q.outputs = 1 .. n
               /\ o.record # NoPath => /\ Len(q.outputs) = n + 1 /\ DOMAIN q.outputs = 1 .. n + 1
                                       /\ q.outputs[n + 1] = RecordOutput(o.record)
<1> DEFINE outs == Outputs(o, p)
           n == Len(outs)
           p1 == ApplyOutputOverrides(o, p)
           p2 == ApplySentenceOverrides(o, p1)
           p3 == ApplyDestination(o, p2)
           p4 == SourceOverrides(o, p3)
           q == IF o.record = NoPath THEN p4
                ELSE [p4 EXCEPT !.outputs = Append(p4.outputs, RecordOutput(o.record))]
<1>1. Overridden(o, p) = q
  BY DEF Overridden, ApplyModeOverrides
<1>2. /\ Whole(p1)
      /\ \A f \in DOMAIN DefaultProfile \ {"outputs"} : p1[f] = p[f]
      /\ DOMAIN p1.outputs = DOMAIN outs /\ Len(p1.outputs) = n
      /\ \A i \in DOMAIN outs : p1.outputs[i] = Encoded(o, outs[i])
  BY OutputOverrides DEF Outputs
<1> HIDE DEF p1
<1>3. /\ Whole(p2)
      /\ \A f \in DOMAIN DefaultProfile \ {"sentences"} : p2[f] = p1[f]
      /\ \A id \in OverriddenIds(o) :
            SettingOf(p2, id) = OverriddenSetting(o, SettingOf(p1, id), id)
      /\ \A id : id \notin OverriddenIds(o) => SettingOf(p2, id) = SettingOf(p1, id)
  BY <1>2, SentenceOverrides
<1> HIDE DEF p2
<1>4. /\ Whole(p3)
      /\ \A f \in DOMAIN DefaultProfile \ {"destination"} : p3[f] = p2[f]
      /\ o.destination # None => \E d \in p3.destination :
            /\ d.numbers["origin_latitude"] = p2.numbers["seed.position.latitude"]
            /\ d.numbers["longitude"] = o.destination.longitude
  BY <1>3, DestinationOverrides
<1> HIDE DEF p3
<1>5. /\ Whole(p4)
      /\ \A f \in {"sentences", "destination", "base_directory", "outputs"} : p4[f] = p3[f]
      /\ o.track # NoPath =>
           /\ p4.texts["mode"] = "track" /\ p4.track_path = AbsolutePath(o.track)
           /\ p4.flags["track.loop"] = (p3.flags["track.loop"] \/ o.loop)
      /\ o.track = NoPath /\ o.replay # NoPath =>
           /\ p4.texts["mode"] = "replay" /\ p4.replay_path = AbsolutePath(o.replay)
           /\ p4.flags["replay.loop"] = (p3.flags["replay.loop"] \/ o.loop)
      /\ o.track = NoPath /\ o.replay = NoPath =>
           /\ p4.texts = p3.texts /\ p4.track_path = p3.track_path
           /\ p4.flags["track.loop"] = (p3.flags["track.loop"] \/ o.loop)
           /\ p4.flags["replay.loop"] = (p3.flags["replay.loop"] \/ o.loop)
  BY <1>4, SourceFacts
<1> HIDE DEF p4
<1>6. /\ Len(p4.outputs) = n /\ IsList(p4.outputs) /\ n \in Nat /\ DOMAIN p4.outputs = 1 .. n
      /\ DOMAIN outs = 1 .. n
      /\ \A i \in 1 .. n : p4.outputs[i] = Encoded(o, outs[i])
  <2>1. p4.outputs = p1.outputs
    <3>1. p2.outputs = p1.outputs BY <1>3, ProfileParts
    <3>2. p3.outputs = p2.outputs BY <1>4, ProfileParts
    <3> QED BY <1>5, <3>1, <3>2
  <2>2. IsList(p4.outputs) BY <1>5 DEF Whole
  <2>3. Len(p4.outputs) \in Nat /\ DOMAIN p4.outputs = 1 .. Len(p4.outputs)
    BY <2>2, ListDomain
  <2> HIDE DEF outs
  <2> QED BY <1>2, <2>1, <2>2, <2>3
<1>7. /\ \A f \in {"sentences", "destination", "base_directory", "texts", "flags",
                   "track_path", "replay_path"} : q[f] = p4[f]
      /\ o.record = NoPath => q.outputs = p4.outputs
      /\ o.record # NoPath => /\ Len(q.outputs) = n + 1 /\ DOMAIN q.outputs = 1 .. n + 1
                              /\ q.outputs[n + 1] = RecordOutput(o.record)
                              /\ \A i \in 1 .. n : q.outputs[i] = p4.outputs[i]
  <2> HIDE DEF n, outs
  <2>1. CASE o.record = NoPath BY <2>1
  <2>2. CASE o.record # NoPath
    <3> DEFINE log == RecordOutput(o.record)
               more == Append(p4.outputs, log)
    <3>1. q = [p4 EXCEPT !.outputs = more] BY <2>2
    <3>2. /\ Len(more) = n + 1 /\ DOMAIN more = 1 .. n + 1 /\ more[n + 1] = log
          /\ \A i \in 1 .. n : more[i] = p4.outputs[i]
      <4> DEFINE S == Range(p4.outputs) \cup {log}
      <4>1. p4.outputs \in Seq(S) /\ log \in S
        <5>1. Range(p4.outputs) \subseteq S OBVIOUS
        <5>2. p4.outputs \in Seq(Range(p4.outputs)) BY <1>6 DEF IsList
        <5>3. log \in S OBVIOUS
        <5> HIDE DEF S
        <5> QED BY <5>1, <5>2, <5>3
      <4> HIDE DEF S, log
      <4> QED BY <1>6, <4>1, AppendProperties
    <3> HIDE DEF more, log
    <3>3. q.outputs = more
          /\ \A f \in {"sentences", "destination", "base_directory", "texts", "flags",
                       "track_path", "replay_path"} : q[f] = p4[f]
      BY <1>5, <3>1, ProfileParts DEF Whole
    <3> QED BY <2>2, <3>2, <3>3 DEF log
  <2> QED BY <2>1, <2>2
<1> HIDE DEF q, n
<1>8. \A i \in 1 .. n : Shaped(outs[i])
  <2>1. GivesOutputs(o) => \A i \in DOMAIN outs : Shaped(outs[i])
    BY OptionsFacts DEF Outputs, Optional, Range
  <2>2. ~ GivesOutputs(o) => \A i \in DOMAIN outs : Shaped(outs[i]) BY DEF Outputs, Whole
  <2> QED BY <1>6, <2>1, <2>2
<1> HIDE DEF outs
<1>9. /\ p3.flags = p.flags /\ p3.texts = p.texts /\ p3.track_path = p.track_path
      /\ p2.numbers = p.numbers /\ p1.sentences = p.sentences
      /\ p3.base_directory = p.base_directory /\ p3.sentences = p2.sentences
  <2>1. /\ p1.flags = p.flags /\ p1.texts = p.texts /\ p1.track_path = p.track_path
        /\ p1.numbers = p.numbers /\ p1.sentences = p.sentences
        /\ p1.base_directory = p.base_directory
    BY <1>2, ProfileParts
  <2>2. /\ p2.flags = p1.flags /\ p2.texts = p1.texts /\ p2.track_path = p1.track_path
        /\ p2.numbers = p1.numbers /\ p2.base_directory = p1.base_directory
    BY <1>3, ProfileParts
  <2>3. /\ p3.flags = p2.flags /\ p3.texts = p2.texts /\ p3.track_path = p2.track_path
        /\ p3.sentences = p2.sentences /\ p3.base_directory = p2.base_directory
    BY <1>4, ProfileParts
  <2> QED BY <2>1, <2>2, <2>3
<1>10. q.base_directory = p.base_directory BY <1>5, <1>7, <1>9
<1>11. \A id : SettingOf(q, id) = SettingOf(p2, id) /\ SettingOf(p1, id) = SettingOf(p, id)
  BY <1>5, <1>7, <1>9 DEF SettingOf
<1>12. q.destination = p3.destination BY <1>5, <1>7
<1>13. /\ \A id \in OverriddenIds(o) :
            SettingOf(q, id) = OverriddenSetting(o, SettingOf(p, id), id)
       /\ \A id : id \notin OverriddenIds(o) => SettingOf(q, id) = SettingOf(p, id)
  BY <1>3, <1>11
<1>14. o.destination # None => \E d \in q.destination :
            /\ d.numbers["origin_latitude"] = p.numbers["seed.position.latitude"]
            /\ d.numbers["longitude"] = o.destination.longitude
  BY <1>4, <1>9, <1>12
<1>15. /\ q.texts = p4.texts /\ q.flags = p4.flags /\ q.track_path = p4.track_path
       /\ q.replay_path = p4.replay_path
  BY <1>7
<1> QED
  BY <1>1, <1>5, <1>6, <1>7, <1>8, <1>9, <1>10, <1>13, <1>14, <1>15 DEF n, outs

(* Of these, what is said of the outputs.                                  *)
LEMMA OverriddenOutputs ==
    ASSUME NEW o, Listed(o), NEW p, Whole(p), NEW outs, outs = Outputs(o, p),
           NEW q, q = Overridden(o, p)
    PROVE  /\ Len(outs) \in Nat /\ DOMAIN outs = 1 .. Len(outs)
           /\ \A i \in 1 .. Len(outs) :
                Shaped(outs[i]) /\ q.outputs[i] = Encoded(o, outs[i])
           /\ o.record = NoPath => DOMAIN q.outputs = 1 .. Len(outs)
           /\ o.record # NoPath =>
                /\ Len(q.outputs) = Len(outs) + 1
                /\ DOMAIN q.outputs = 1 .. Len(outs) + 1
                /\ q.outputs[Len(outs) + 1] = RecordOutput(o.record)
<1> DEFINE out == Outputs(o, p)
           r == Overridden(o, p)
<1>1. /\ Len(out) \in Nat /\ DOMAIN out = 1 .. Len(out)
      /\ \A i \in 1 .. Len(out) : /\ Shaped(out[i])
                                  /\ r.outputs[i] = Encoded(o, out[i])
      /\ o.record = NoPath => Len(r.outputs) = Len(out) /\ DOMAIN r.outputs = 1 .. Len(out)
      /\ o.record # NoPath => /\ Len(r.outputs) = Len(out) + 1
                              /\ DOMAIN r.outputs = 1 .. Len(out) + 1
                              /\ r.outputs[Len(out) + 1] = RecordOutput(o.record)
  BY OverriddenFacts
<1>2. outs = out /\ q = r OBVIOUS
<1> HIDE DEF out, r
<1> QED BY <1>1, <1>2

(* A path that was typed leads to its place, whatever the profile; where a *)
(* path leads depends on the directory alone.                              *)
LEMMA TypedFacts ==
    ASSUME NEW p, NEW path
    PROVE  PlaceOf(p, AbsolutePath(path)) = TypedPlace(path)
<1>1. CASE path.relative
  BY <1>1 DEF AbsolutePath, TypedPlace, PlaceOf, ResolvePath, Absolute
<1>2. CASE ~ path.relative
  BY <1>2 DEF AbsolutePath, TypedPlace, PlaceOf, ResolvePath
<1> QED BY <1>1, <1>2

(* Profiles of one directory have their files in the same places.          *)
LEMMA SamePlace ==
    ASSUME NEW p, NEW q, p.base_directory = q.base_directory, NEW path
    PROVE  PlaceOf(p, path) = PlaceOf(q, path)
  BY DEF PlaceOf, ResolvePath

(* What is sound is whole.                                                 *)
LEMMA SoundWhole ==
    ASSUME NEW p, Sound(p)
    PROVE  Whole(p)
<1>1. DOMAIN p.texts = DOMAIN ProfileTexts /\ DOMAIN p.flags = DOMAIN ProfileFlags
  BY DEF Sound, SoundValues, IsTable
<1>2. IsList(p.outputs) /\ \A i \in DOMAIN p.outputs : SoundOutput(p.outputs[i])
  BY DEF Sound, SoundOutputs
<1>3. ASSUME NEW x, SoundOutput(x) PROVE Shaped(x)
  <2>1. /\ x = [k \in DOMAIN DefaultOutput |-> x[k]]
        /\ x.flags = [k \in DOMAIN OutputFlags |-> x.flags[k]]
        /\ x.texts = [k \in DOMAIN OutputTexts |-> x.texts[k]]
    BY <1>3 DEF SoundOutput, IsTable
  <2> QED BY <2>1 DEF Shaped
<1> QED BY <1>1, <1>2, <1>3 DEF Whole, Sound

(* The profile that a command line goes by can be held by a program; its   *)
(* settings say of each sentence whether it is sent.                       *)
LEMMA GivenFacts ==
    ASSUME CliAssumption, NEW c \in Commands, Loaded(c.profile) # None
    PROVE  LET given == Loaded(c.profile)
           IN  /\ Sound(given)
               /\ \A id \in SentenceIds :
                    /\ DOMAIN SettingOf(given, id) = {"enabled", "talker", "period"}
                    /\ SettingOf(given, id).enabled \in BOOLEAN
<1> DEFINE doc == c.profile
<1>1. \A id \in SentenceIds : /\ DOMAIN DefaultSetting[id] = {"enabled", "talker", "period"}
                              /\ DefaultSetting[id].enabled \in BOOLEAN
  BY DEF CliAssumption
<1>2. CASE doc = None
  <2>1. Loaded(doc) = DefaultProfile BY <1>2 DEF Loaded
  <2>2. Sound(DefaultProfile) BY DefaultSound DEF CliAssumption
  <2>3. DefaultProfile.sentences = <<>> BY DEF DefaultProfile
  <2>4. \A id : SettingOf(DefaultProfile, id) = DefaultSetting[id]
    BY <2>3, NoItems DEF SettingOf
  <2> QED BY <1>1, <2>1, <2>2, <2>4
<1>3. CASE doc # None
  <2> DEFINE given == Load(doc, ProfileDirectory)
  <2>1. Loaded(doc) = given /\ Valid(doc) BY <1>3 DEF Loaded
  <2>2. IsDocument(doc) /\ ProfileDirectory \in Int /\ ProfileAssumption
    BY <1>3 DEF CliAssumption
  <2>3. Sound(given) BY <2>1, <2>2, LoadedSound
  <2>4. given.sentences =
            [id \in DOMAIN doc.settings \cap SentenceIds |->
                SettingFromJson(id, doc.settings[id])]
    <3>1. given.sentences = ReadDocument(doc).sentences BY LoadFacts DEF Values
    <3> QED BY <3>1 DEF ReadDocument
  <2> HIDE DEF given
  <2>5. ASSUME NEW id \in SentenceIds, id \in DOMAIN doc.settings
        PROVE  LET s == SettingFromJson(id, doc.settings[id])
               IN  DOMAIN s = {"enabled", "talker", "period"} /\ s.enabled \in BOOLEAN
    <3> DEFINE o == doc.settings[id]
               enabled == Flag(o, "enabled", DefaultSetting[id].enabled)
               talker == Text(o, "talker", "")
               period == WholeNumber(o, "period_ms", DefaultSetting[id].period)
    <3>1. Flag(o, "enabled", FALSE) \in BOOLEAN BY <1>3, <2>5 DEF CliAssumption
    <3>2. enabled \in BOOLEAN
      <4>1. CASE Has(o, "enabled", "flag") BY <3>1, <4>1 DEF Flag
      <4>2. CASE ~ Has(o, "enabled", "flag") BY <1>1, <4>2 DEF Flag
      <4> QED BY <4>1, <4>2
    <3>3. SettingFromJson(id, o) = [enabled |-> enabled, talker |-> talker, period |-> period]
      BY DEF SettingFromJson
    <3> HIDE DEF o, enabled, talker, period
    <3> QED BY <3>2, <3>3 DEF o
  <2>6. ASSUME NEW id \in SentenceIds
        PROVE  /\ DOMAIN SettingOf(given, id) = {"enabled", "talker", "period"}
               /\ SettingOf(given, id).enabled \in BOOLEAN
    <3>1. CASE id \in DOMAIN doc.settings
      <4>1. SettingOf(given, id) = SettingFromJson(id, doc.settings[id])
        BY <2>4, <3>1 DEF SettingOf
      <4> QED BY <2>5, <3>1, <4>1
    <3>2. CASE id \notin DOMAIN doc.settings
      <4>1. SettingOf(given, id) = DefaultSetting[id] BY <2>4, <3>2 DEF SettingOf
      <4> QED BY <1>1, <4>1
    <3> QED BY <3>1, <3>2
  <2> QED BY <2>1, <2>3, <2>6
<1> QED BY <1>2, <1>3

-----------------------------------------------------------------------------
(* What runs is what was asked for.                                        *)

(* The profile a command line goes by, and the outputs that are wanted.    *)
Given == Loaded(command.profile)
Wanted == Outputs(command, Given)

(* What the invariant says of a run: its profile is the one given with the *)
(* options over it, and its channels are the outputs that are enabled.     *)
LEMMA RunFacts ==
    ASSUME CliAssumption, CliInv, ran # None
    PROVE  /\ command \in Commands /\ Listed(command)
           /\ command.track = NoPath \/ command.replay = NoPath
           /\ Sound(Given) /\ Whole(Given)
           /\ \A id \in SentenceIds :
                /\ DOMAIN SettingOf(Given, id) = {"enabled", "talker", "period"}
                /\ SettingOf(Given, id).enabled \in BOOLEAN
           /\ ran = Overridden(command, Given) /\ ~ RefusedOptions(command)
           /\ DOMAIN channels = Enabled(ran)
           /\ \A i \in Enabled(ran) :
                /\ channels[i].config = ran.outputs[i]
                /\ ran.outputs[i].type \in {"file", "log"}
                    => channels[i].place = PlaceOf(ran, ran.outputs[i].path)
<1>1. /\ command \in Commands /\ Acceptable /\ ran = ProfileToRun
      /\ channels = [i \in Enabled(ran) |->
                        MakeTransport(ran, ran.outputs[i], channels[i].state)]
  BY DEF CliInv
<1>2. Given # None /\ ~ RefusedOptions(command) BY <1>1 DEF Acceptable, Given
<1>3. /\ Sound(Given)
      /\ \A id \in SentenceIds :
            /\ DOMAIN SettingOf(Given, id) = {"enabled", "talker", "period"}
            /\ SettingOf(Given, id).enabled \in BOOLEAN
  BY <1>1, <1>2, GivenFacts DEF Given
<1>4. Whole(Given) BY <1>3, SoundWhole
<1>5. Listed(command) /\ (command.track = NoPath \/ command.replay = NoPath)
  BY <1>1 DEF CliAssumption, Listed
<1>6. DOMAIN channels = Enabled(ran) BY <1>1
<1>7. ASSUME NEW i \in Enabled(ran)
      PROVE  /\ channels[i].config = ran.outputs[i]
             /\ ran.outputs[i].type \in {"file", "log"}
                  => channels[i].place = PlaceOf(ran, ran.outputs[i].path)
  <2>1. channels[i] = MakeTransport(ran, ran.outputs[i], channels[i].state) BY <1>1
  <2>2. MakeTransport(ran, ran.outputs[i], channels[i].state).config = ran.outputs[i]
    BY DEF MakeTransport
  <2>3. ran.outputs[i].type \in {"file", "log"} =>
            MakeTransport(ran, ran.outputs[i], channels[i].state).place
                = PlaceOf(ran, ran.outputs[i].path)
    BY DEF MakeTransport
  <2> QED BY <2>1, <2>2, <2>3
<1> QED BY <1>1, <1>2, <1>3, <1>4, <1>5, <1>6, <1>7 DEF ProfileToRun, Given

(* The outputs of a run are those that are wanted, and the recording.      *)
LEMMA WantedFacts ==
    ASSUME CliAssumption, CliInv, ran # None
    PROVE  /\ Len(Wanted) \in Nat /\ DOMAIN Wanted = 1 .. Len(Wanted)
           /\ \A i \in 1 .. Len(Wanted) :
                Shaped(Wanted[i]) /\ ran.outputs[i] = Encoded(command, Wanted[i])
           /\ command.record = NoPath => DOMAIN ran.outputs = 1 .. Len(Wanted)
           /\ command.record # NoPath =>
                /\ Len(ran.outputs) = Len(Wanted) + 1
                /\ DOMAIN ran.outputs = 1 .. Len(Wanted) + 1
                /\ ran.outputs[Len(Wanted) + 1] = RecordOutput(command.record)
<1>1. Listed(command) /\ Whole(Given) /\ ran = Overridden(command, Given) BY RunFacts
<1> QED BY <1>1, OverriddenOutputs DEF Wanted

(* Every output that is wanted and enabled has a channel of its type, its  *)
(* place and its options.                                                  *)
LEMMA ChannelFacts ==
    ASSUME CliAssumption, CliInv, ran # None,
           NEW i \in 1 .. Len(Wanted), Wanted[i].flags["enabled"]
    PROVE  /\ i \in DOMAIN channels
           /\ channels[i].config.type = Wanted[i].type
           /\ channels[i].config.texts["address"] = Wanted[i].texts["address"]
           /\ channels[i].config.texts["mode"] = Wanted[i].texts["mode"]
           /\ Wanted[i].type \in {"file", "log"}
                => channels[i].place = PlaceOf(ran, Wanted[i].path)
<1> DEFINE x == Wanted[i]
           e == Encoded(command, x)
<1>1. Shaped(x) /\ ran.outputs[i] = e /\ i \in DOMAIN ran.outputs
  BY WantedFacts
<1>2. /\ e.type = x.type /\ e.path = x.path
      /\ e.flags["enabled"] = x.flags["enabled"]
      /\ e.texts["address"] = x.texts["address"] /\ e.texts["mode"] = x.texts["mode"]
  <2> HIDE DEF x
  <2>1. Shaped(x) BY <1>1
  <2>2. e.type = x.type /\ e.path = x.path BY ONLY <2>1, EncodedFacts
  <2>3. e.flags["enabled"] = x.flags["enabled"] BY ONLY <2>1, EncodedFacts
  <2>4. e.texts["address"] = x.texts["address"] /\ e.texts["mode"] = x.texts["mode"]
    BY ONLY <2>1, EncodedFacts
  <2> QED BY <2>2, <2>3, <2>4
<1> HIDE DEF e
<1>3. i \in Enabled(ran) BY <1>1, <1>2 DEF Enabled
<1>4. /\ i \in DOMAIN channels /\ channels[i].config = ran.outputs[i]
      /\ ran.outputs[i].type \in {"file", "log"}
            => channels[i].place = PlaceOf(ran, ran.outputs[i].path)
  BY <1>3, RunFacts
<1> QED BY <1>1, <1>2, <1>4

(* A recording is the last channel.                                        *)
LEMMA RecordingFacts ==
    ASSUME CliAssumption, CliInv, ran # None, command.record # NoPath
    PROVE  /\ Len(Wanted) + 1 \in DOMAIN channels /\ Len(ran.outputs) = Len(Wanted) + 1
           /\ channels[Len(Wanted) + 1].config = RecordOutput(command.record)
           /\ channels[Len(Wanted) + 1].place = TypedPlace(command.record)
<1> DEFINE n == Len(Wanted)
           x == RecordOutput(command.record)
<1>1. n \in Nat /\ Len(ran.outputs) = n + 1 /\ DOMAIN ran.outputs = 1 .. n + 1
      /\ ran.outputs[n + 1] = x
  BY WantedFacts
<1>2. x.type = "log" /\ x.path = AbsolutePath(command.record) /\ x.flags["enabled"]
  BY RecordFacts
<1> HIDE DEF n, x
<1>3. n + 1 \in Enabled(ran) BY <1>1, <1>2 DEF Enabled
<1>4. PlaceOf(ran, x.path) = TypedPlace(command.record) BY <1>2, TypedFacts
<1>5. /\ n + 1 \in DOMAIN channels /\ channels[n + 1].config = x
      /\ channels[n + 1].place = PlaceOf(ran, x.path)
  BY <1>1, <1>2, <1>3, RunFacts
<1> QED BY <1>1, <1>4, <1>5 DEF n, x

(* Every channel is one of these.                                          *)
LEMMA ChannelKinds ==
    ASSUME CliAssumption, CliInv, ran # None, NEW i \in DOMAIN channels
    PROVE  \/ /\ i \in 1 .. Len(Wanted) /\ Wanted[i].flags["enabled"]
              /\ Shaped(Wanted[i])
              /\ channels[i].config = Encoded(command, Wanted[i])
           \/ /\ command.record # NoPath /\ i = Len(Wanted) + 1
              /\ channels[i].config = RecordOutput(command.record)
<1> DEFINE n == Len(Wanted)
<1>1. i \in Enabled(ran) /\ channels[i].config = ran.outputs[i] BY RunFacts
<1>2. i \in DOMAIN ran.outputs /\ ran.outputs[i].flags["enabled"] BY <1>1 DEF Enabled
<1>3. CASE i \in 1 .. n
  <2>1. Shaped(Wanted[i]) /\ ran.outputs[i] = Encoded(command, Wanted[i])
    BY <1>3, WantedFacts
  <2>2. ran.outputs[i].flags["enabled"] = Wanted[i].flags["enabled"]
    <3> DEFINE x == Wanted[i]
    <3>1. Shaped(x) BY <2>1
    <3> HIDE DEF x
    <3>2. Encoded(command, x).flags["enabled"] = x.flags["enabled"] BY <3>1, EncodedFacts
    <3> QED BY <2>1, <3>2 DEF x
  <2> QED BY <1>1, <1>2, <1>3, <2>1, <2>2
<1>4. CASE i \notin 1 .. n
  <2>1. n \in Nat BY WantedFacts
  <2>2. CASE command.record = NoPath BY <1>2, <1>4, <2>2, WantedFacts
  <2>3. CASE command.record # NoPath
    <3>1. /\ DOMAIN ran.outputs = 1 .. n + 1
          /\ ran.outputs[n + 1] = RecordOutput(command.record)
      BY <2>3, WantedFacts
    <3>2. i = n + 1 BY <1>2, <1>4, <2>1, <3>1
    <3> QED BY <1>1, <2>3, <3>1, <3>2
  <2> QED BY <2>2, <2>3
<1> QED BY <1>3, <1>4

(* As many channels as outputs that are wanted and enabled, and one for a  *)
(* recording.                                                              *)
LEMMA ChannelCount ==
    ASSUME CliAssumption, CliInv, ran # None
    PROVE  Cardinality(DOMAIN channels) =
            Cardinality({i \in DOMAIN Wanted : Wanted[i].flags["enabled"]})
            + (IF command.record # NoPath THEN 1 ELSE 0)
<1> DEFINE n == Len(Wanted)
           E == {i \in DOMAIN Wanted : Wanted[i].flags["enabled"]}
<1>1. n \in Nat /\ DOMAIN Wanted = 1 .. n BY WantedFacts
<1>2. IsFiniteSet(E) /\ Cardinality(E) \in Nat
  <2>1. IsFiniteSet(1 .. n) BY <1>1, FS_Interval
  <2>2. E \in SUBSET (1 .. n) BY <1>1
  <2> HIDE DEF E
  <2> QED BY <2>1, <2>2, FS_Subset, FS_CardinalityType
<1>3. E \subseteq DOMAIN channels BY <1>1, ChannelFacts
<1>4. ASSUME command.record = NoPath
      PROVE  Cardinality(DOMAIN channels) = Cardinality(E)
  <2>1. DOMAIN channels \subseteq E BY <1>1, <1>4, ChannelKinds
  <2>2. DOMAIN channels = E BY <1>3, <2>1
  <2> HIDE DEF E
  <2> QED BY <2>2
<1>5. ASSUME command.record # NoPath
      PROVE  Cardinality(DOMAIN channels) = Cardinality(E) + 1
  <2>1. n + 1 \in DOMAIN channels BY <1>5, RecordingFacts
  <2>2. DOMAIN channels \subseteq E \cup {n + 1} BY <1>1, ChannelKinds
  <2>3. DOMAIN channels = E \cup {n + 1} BY <1>3, <2>1, <2>2
  <2>4. n + 1 \notin E BY <1>1
  <2> HIDE DEF E, n
  <2>5. Cardinality(E \cup {n + 1}) = Cardinality(E) + 1 BY <1>2, <2>4, FS_AddElement
  <2> QED BY <2>3, <2>5
<1>6. Cardinality(DOMAIN channels)
        = Cardinality(E) + (IF command.record # NoPath THEN 1 ELSE 0)
  <2> HIDE DEF E
  <2> QED BY <1>2, <1>4, <1>5
<1> QED BY <1>6

(* All the outputs of a command line are wanted, and enabled.              *)
LEMMA WantedCount ==
    ASSUME CliAssumption, CliInv, ran # None, GivesOutputs(command)
    PROVE  /\ \A i \in DOMAIN Wanted : Optional(Wanted[i])
           /\ Cardinality({i \in DOMAIN Wanted : Wanted[i].flags["enabled"]})
                = OptionCount(command)
<1>1. Wanted = OutputOptions(command) BY DEF Wanted, Outputs
<1>2. Listed(command) BY RunFacts
<1>3. \A i \in DOMAIN Wanted : Optional(Wanted[i]) BY <1>1, <1>2, OptionsFacts DEF Range
<1>4. Len(Wanted) = OptionCount(command) BY <1>1, <1>2, OptionsFacts
<1>5. Len(Wanted) \in Nat /\ DOMAIN Wanted = 1 .. Len(Wanted) BY WantedFacts
<1>6. {i \in DOMAIN Wanted : Wanted[i].flags["enabled"]} = 1 .. Len(Wanted)
  BY <1>3, <1>5 DEF Optional
<1>7. Cardinality(1 .. Len(Wanted)) = Len(Wanted)
  <2>1. \A n \in Nat : Cardinality(1 .. n) = n
    <3> TAKE n \in Nat
    <3>1. Cardinality(1 .. n) = IF 1 > n THEN 0 ELSE n - 1 + 1 BY ONLY FS_Interval, n \in Nat
    <3> QED BY ONLY <3>1, n \in Nat
  <2> QED BY ONLY <1>5, <2>1
<1> QED BY <1>3, <1>4, <1>6, <1>7

(* Every option has its channel, a channel its option or its output of the *)
(* profile, and a recording a file of its own.                             *)
LEMMA OutputsAsked ==
    ASSUME CliAssumption, CliInv, ran # None
    PROVE  OutputsAsAsked(command, Given)
<1> DEFINE o == command
           number == IF GivesOutputs(o)
                     THEN Len(o.tcp) + Len(o.udp) + Len(o.websocket) + Len(o.serial)
                          + Len(o.files) + (IF o.stdout THEN 1 ELSE 0)
                     ELSE Cardinality({i \in DOMAIN Given.outputs :
                                           Given.outputs[i].flags["enabled"]})
<1>1. Cardinality(DOMAIN channels) = number + (IF o.record # NoPath THEN 1 ELSE 0)
  <2>1. Cardinality({i \in DOMAIN Wanted : Wanted[i].flags["enabled"]}) = number
    <3>1. CASE GivesOutputs(o) BY <3>1, WantedCount DEF OptionCount
    <3>2. CASE ~ GivesOutputs(o) BY <3>2 DEF Wanted, Outputs
    <3> QED BY <3>1, <3>2
  <2> HIDE DEF number
  <2> QED BY <2>1, ChannelCount
<1>2. ASSUME NEW x \in Range(OutputOptions(o)), GivesOutputs(o)
      PROVE  \E i \in DOMAIN channels :
                /\ channels[i].config.type = x.type
                /\ channels[i].config.texts["address"] = x.texts["address"]
                /\ channels[i].config.texts["mode"] = x.texts["mode"]
                /\ x.type \in {"file", "log"} => channels[i].place = PlaceOf(ran, x.path)
  <2>1. PICK i \in DOMAIN Wanted : Wanted[i] = x BY <1>2 DEF Wanted, Outputs, Range
  <2>2. i \in 1 .. Len(Wanted) BY <2>1, WantedFacts
  <2>3. Wanted[i].flags["enabled"] BY <1>2, <2>1, WantedCount DEF Optional
  <2> QED BY <2>1, <2>2, <2>3, ChannelFacts
<1>3. ASSUME NEW i \in DOMAIN o.files PROVE WritesTo("file", TypedPlace(o.files[i]))
  <2> DEFINE x == FileOutput(o.files[i])
  <2>1. x.type = "file" /\ x.path = AbsolutePath(o.files[i]) BY OtherOptional
  <2>2. GivesOutputs(o)
    <3>1. IsList(o.files) BY RunFacts DEF Listed
    <3>2. o.files # <<>> BY <1>3, <3>1, ListDomain
    <3> QED BY <3>2 DEF GivesOutputs
  <2>3. x \in Range(OutputOptions(o))
    BY RunFacts, OptionsFacts
  <2> HIDE DEF x
  <2>4. PICK j \in DOMAIN channels :
            channels[j].config.type = "file" /\ channels[j].place = PlaceOf(ran, x.path)
    BY <1>2, <2>1, <2>2, <2>3
  <2>5. PlaceOf(ran, x.path) = TypedPlace(o.files[i]) BY <2>1, TypedFacts
  <2> QED BY <2>4, <2>5 DEF WritesTo, AChannel
<1>4. ASSUME NEW i \in DOMAIN o.udp
      PROVE  AChannel(LAMBDA c :
                /\ c.config.type = "udp" /\ c.config.texts["address"] = o.udp[i].host
                /\ (c.config.texts["mode"] = "broadcast") = IsBroadcastAddress(o.udp[i].host))
  <2> DEFINE x == UdpOutput(o.udp[i])
  <2>1. /\ x.type = "udp" /\ x.texts["address"] = SplitHostPort(o.udp[i]).host
        /\ (x.texts["mode"] = "broadcast")
            <=> IsBroadcastAddress(SplitHostPort(o.udp[i]).host)
    BY UdpOptional
  <2>2. SplitHostPort(o.udp[i]).host = o.udp[i].host
    <3>1. SplitHostPort(o.udp[i]) # None BY RunFacts DEF RefusedOptions, Malformed
    <3> QED BY <3>1, SplitFacts
  <2>3. GivesOutputs(o)
    <3>1. IsList(o.udp) BY RunFacts DEF Listed
    <3>2. o.udp # <<>> BY <1>4, <3>1, ListDomain
    <3> QED BY <3>2 DEF GivesOutputs
  <2>4. x \in Range(OutputOptions(o)) BY RunFacts, OptionsFacts
  <2> HIDE DEF x
  <2>5. PICK j \in DOMAIN channels :
            /\ channels[j].config.type = x.type
            /\ channels[j].config.texts["address"] = x.texts["address"]
            /\ channels[j].config.texts["mode"] = x.texts["mode"]
    BY <1>2, <2>3, <2>4
  <2>6. (channels[j].config.texts["mode"] = "broadcast") = IsBroadcastAddress(o.udp[i].host)
    <3>1. IsBroadcastAddress(o.udp[i].host) \in BOOLEAN BY DEF IsBroadcastAddress
    <3> QED BY <2>1, <2>2, <2>5, <3>1
  <2> QED BY <2>1, <2>2, <2>5, <2>6 DEF AChannel
<1>5. o.record # NoPath => /\ WritesTo("log", TypedPlace(o.record))
                           /\ ~ channels[Len(ran.outputs)].config.flags["append"]
  <2> SUFFICES ASSUME o.record # NoPath
               PROVE  /\ WritesTo("log", TypedPlace(o.record))
                      /\ ~ channels[Len(ran.outputs)].config.flags["append"]
    OBVIOUS
  <2> DEFINE x == RecordOutput(o.record)
  <2>1. x.type = "log" /\ ~ x.flags["append"] BY RecordFacts
  <2> HIDE DEF x
  <2>2. /\ Len(Wanted) + 1 \in DOMAIN channels /\ Len(ran.outputs) = Len(Wanted) + 1
        /\ channels[Len(Wanted) + 1].config = x
        /\ channels[Len(Wanted) + 1].place = TypedPlace(o.record)
    BY RecordingFacts DEF x
  <2> QED BY <2>1, <2>2 DEF WritesTo, AChannel
<1>6. ASSUME ~ GivesOutputs(o), NEW i \in DOMAIN Given.outputs,
             Given.outputs[i].type \in {"file", "log"}, Given.outputs[i].flags["enabled"]
      PROVE  WritesTo(Given.outputs[i].type, PlaceOf(Given, Given.outputs[i].path))
  <2>1. Wanted = Given.outputs BY <1>6 DEF Wanted, Outputs
  <2>2. i \in 1 .. Len(Wanted) BY <1>6, <2>1, WantedFacts
  <2>3. /\ i \in DOMAIN channels
        /\ channels[i].config.type = Given.outputs[i].type
        /\ channels[i].place = PlaceOf(ran, Given.outputs[i].path)
    BY <1>6, <2>1, <2>2, ChannelFacts
  <2>4. ran.base_directory = Given.base_directory BY RunFacts, OverriddenFacts
  <2>5. PlaceOf(ran, Given.outputs[i].path) = PlaceOf(Given, Given.outputs[i].path)
    BY <2>4, SamePlace
  <2> QED BY <2>3, <2>5 DEF WritesTo, AChannel
<1>7. ASSUME o.encoding # "", NEW i \in DOMAIN channels, channels[i].config.type # "log"
      PROVE  channels[i].config.texts["encoding"] = o.encoding
  <2>1. CASE /\ i \in 1 .. Len(Wanted) /\ Shaped(Wanted[i])
             /\ channels[i].config = Encoded(o, Wanted[i])
    <3> DEFINE x == Wanted[i]
    <3>1. Shaped(x) BY <2>1
    <3> HIDE DEF x
    <3>2. Encoded(o, x).type = x.type BY <3>1, EncodedFacts
    <3>3. x.type # "log" => Encoded(o, x).texts["encoding"] = o.encoding
      BY <1>7, <3>1, EncodedFacts
    <3> QED BY <1>7, <2>1, <3>2, <3>3 DEF x
  <2>2. CASE channels[i].config = RecordOutput(o.record) BY <1>7, <2>2, RecordFacts
  <2> QED BY <2>1, <2>2, ChannelKinds
<1> QED
  BY <1>1, <1>3, <1>4, <1>5, <1>6, <1>7 DEF OutputsAsAsked

(* A log among the channels is one of the profile's, as it is there, or    *)
(* the recording.                                                          *)
LEMMA LogsReadable ==
    ASSUME CliAssumption, CliInv, ran # None
    PROVE  LogsReplayable(Given)
<1> SUFFICES ASSUME NEW i \in DOMAIN channels, channels[i].config.type = "log"
             PROVE  \/ channels[i].config.texts["encoding"] = "nmea0183"
                    \/ \E j \in DOMAIN Given.outputs : Given.outputs[j] = channels[i].config
  BY DEF LogsReplayable
<1>1. CASE /\ i \in 1 .. Len(Wanted) /\ Shaped(Wanted[i])
           /\ channels[i].config = Encoded(command, Wanted[i])
  <2> DEFINE x == Wanted[i]
  <2>1. Shaped(x) /\ channels[i].config = Encoded(command, x) BY <1>1
  <2> HIDE DEF x
  <2>2. Encoded(command, x).type = x.type
    <3>1. Shaped(x) BY <2>1
    <3> QED BY ONLY <3>1, EncodedFacts
  <2>3. x.type = "log" BY <2>1, <2>2
  <2>4. Encoded(command, x) = x BY <2>3 DEF Encoded
  <2>5. i \in DOMAIN Wanted BY <1>1, WantedFacts
  <2>6. ~ GivesOutputs(command)
    <3>1. GivesOutputs(command) => Optional(Wanted[i]) BY <2>5, WantedCount
    <3> QED BY <2>3, <3>1 DEF Optional, x
  <2>7. Wanted = Given.outputs BY <2>6 DEF Wanted, Outputs
  <2> QED BY <2>1, <2>4, <2>5, <2>7 DEF x
<1>2. CASE channels[i].config = RecordOutput(command.record) BY <1>2, RecordFacts
<1> QED BY <1>1, <1>2, ChannelKinds

(* What all the overrides make of the source.                              *)
LEMMA OverriddenSource ==
    ASSUME NEW o, Listed(o), NEW p, Whole(p), NEW q, q = Overridden(o, p)
    PROVE  /\ q.base_directory = p.base_directory
           /\ o.track # NoPath =>
                /\ q.texts["mode"] = "track" /\ q.track_path = AbsolutePath(o.track)
                /\ q.flags["track.loop"] = (p.flags["track.loop"] \/ o.loop)
           /\ o.track = NoPath /\ o.replay # NoPath =>
                /\ q.texts["mode"] = "replay" /\ q.replay_path = AbsolutePath(o.replay)
                /\ q.flags["replay.loop"] = (p.flags["replay.loop"] \/ o.loop)
           /\ o.track = NoPath /\ o.replay = NoPath =>
                /\ q.texts["mode"] = p.texts["mode"] /\ q.track_path = p.track_path
                /\ q.flags["track.loop"] = (p.flags["track.loop"] \/ o.loop)
                /\ q.flags["replay.loop"] = (p.flags["replay.loop"] \/ o.loop)
  BY OverriddenFacts

(* The source is the track or the log that was typed, or the profile's.    *)
LEMMA SourceAsked ==
    ASSUME CliAssumption, CliInv, ran # None
    PROVE  SourceAsAsked(command, Given)
<1> DEFINE o == command
<1>1. /\ Listed(o) /\ Whole(Given) /\ ran = Overridden(o, Given)
      /\ o.track = NoPath \/ o.replay = NoPath
  BY RunFacts
<1> HIDE DEF o
<1>2. CASE o.track # NoPath
  <2>1. /\ ran.texts["mode"] = "track" /\ ran.track_path = AbsolutePath(o.track)
        /\ ran.flags["track.loop"] = (Given.flags["track.loop"] \/ o.loop)
    BY <1>1, <1>2, OverriddenSource
  <2>2. PlaceOf(ran, ran.track_path) = TypedPlace(o.track) BY <2>1, TypedFacts
  <2>3. o.replay = NoPath BY <1>1, <1>2
  <2> QED BY <1>2, <2>1, <2>2, <2>3 DEF SourceAsAsked, o
<1>3. CASE o.track = NoPath /\ o.replay # NoPath
  <2>1. /\ ran.texts["mode"] = "replay" /\ ran.replay_path = AbsolutePath(o.replay)
        /\ ran.flags["replay.loop"] = (Given.flags["replay.loop"] \/ o.loop)
    BY <1>1, <1>3, OverriddenSource
  <2>2. PlaceOf(ran, ran.replay_path) = TypedPlace(o.replay) BY <2>1, TypedFacts
  <2> QED BY <1>3, <2>1, <2>2 DEF SourceAsAsked, o
<1>4. CASE o.track = NoPath /\ o.replay = NoPath
  <2>1. /\ ran.texts["mode"] = Given.texts["mode"] /\ ran.track_path = Given.track_path
        /\ ran.flags["track.loop"] = (Given.flags["track.loop"] \/ o.loop)
        /\ ran.flags["replay.loop"] = (Given.flags["replay.loop"] \/ o.loop)
    BY <1>1, <1>4, OverriddenSource
  <2>2. ran.base_directory = Given.base_directory BY <1>1, OverriddenSource
  <2>3. PlaceOf(ran, ran.track_path) = PlaceOf(Given, Given.track_path)
    BY <2>1, <2>2, SamePlace
  <2> QED BY <1>4, <2>1, <2>3 DEF SourceAsAsked, o
<1> QED BY <1>2, <1>3, <1>4

(* What all the overrides make of a setting.                               *)
LEMMA OverriddenSettings ==
    ASSUME NEW o, Listed(o), NEW p, Whole(p), NEW q, q = Overridden(o, p), NEW id
    PROVE  /\ id \in OverriddenIds(o) =>
                SettingOf(q, id) = OverriddenSetting(o, SettingOf(p, id), id)
           /\ id \notin OverriddenIds(o) => SettingOf(q, id) = SettingOf(p, id)
  BY OverriddenFacts

(* What an override does to one setting.                                   *)
LEMMA SettingFacts ==
    ASSUME NEW o, NEW was, DOMAIN was = {"enabled", "talker", "period"},
           was.enabled \in BOOLEAN, NEW id
    PROVE  LET is == OverriddenSetting(o, was, id)
           IN  /\ id \in Range(o.disable) => ~ is.enabled
               /\ id \in Range(o.enable) \ Range(o.disable) => is.enabled
               /\ id \notin Range(o.enable) \cup Range(o.disable) => is.enabled = was.enabled
               /\ is.talker = was.talker
               /\ is.period = IF o.period > 0 THEN o.period ELSE was.period
<1> DEFINE on == (was.enabled \/ id \in Range(o.enable)) /\ id \notin Range(o.disable)
           period == IF o.period > 0 THEN o.period ELSE was.period
           is == [was EXCEPT !.enabled = on, !.period = period]
<1>1. OverriddenSetting(o, was, id) = is BY DEF OverriddenSetting
<1>2. id \notin Range(o.enable) \cup Range(o.disable) => on = was.enabled OBVIOUS
<1>3. id \in Range(o.disable) => ~ on OBVIOUS
<1>4. id \in Range(o.enable) \ Range(o.disable) => on OBVIOUS
<1> HIDE DEF on, period
<1>5. is.enabled = on /\ is.talker = was.talker /\ is.period = period OBVIOUS
<1> HIDE DEF is
<1> QED BY <1>1, <1>2, <1>3, <1>4, <1>5 DEF period

(* Every sentence is sent as the options say, or as the profile does.      *)
LEMMA SentencesAsked ==
    ASSUME CliAssumption, CliInv, ran # None
    PROVE  SentencesAsAsked(command, Given)
<1> DEFINE o == command
<1> SUFFICES ASSUME NEW id \in SentenceIds
             PROVE  LET was == SettingOf(Given, id)
                        is == SettingOf(ran, id)
                    IN  /\ id \in Range(o.disable) => ~ is.enabled
                        /\ id \in Range(o.enable) \ Range(o.disable) => is.enabled
                        /\ id \notin Range(o.enable) \cup Range(o.disable)
                            => is.enabled = was.enabled
                        /\ is.talker = was.talker
                        /\ is.period = IF o.period > 0 THEN o.period ELSE was.period
  BY DEF SentencesAsAsked
<1> DEFINE was == SettingOf(Given, id)
<1>1. Listed(o) /\ Whole(Given) /\ ran = Overridden(o, Given) BY RunFacts
<1>2. DOMAIN was = {"enabled", "talker", "period"} /\ was.enabled \in BOOLEAN
  BY RunFacts
<1>3. CASE id \in OverriddenIds(o)
  <2>1. SettingOf(ran, id) = OverriddenSetting(o, was, id)
    BY <1>1, <1>3, OverriddenSettings
  <2> HIDE DEF o, was
  <2> QED BY <1>2, <2>1, SettingFacts DEF was
<1>4. CASE id \notin OverriddenIds(o)
  <2>1. SettingOf(ran, id) = was BY <1>1, <1>4, OverriddenSettings
  <2>2. ~ (o.period > 0) /\ id \notin Range(o.enable) \cup Range(o.disable)
    BY <1>4 DEF OverriddenIds
  <2> HIDE DEF o, was
  <2> QED BY <2>1, <2>2 DEF was
<1> QED BY <1>3, <1>4

(* The invariant says that a run is what was asked for.                    *)
LEMMA AskedFacts ==
    ASSUME CliAssumption, CliInv
    PROVE  RunsWhatWasAsked
<1>1. ASSUME ran # None
      PROVE  /\ OutputsAsAsked(command, Given) /\ LogsReplayable(Given)
             /\ SourceAsAsked(command, Given) /\ SentencesAsAsked(command, Given)
  BY <1>1, OutputsAsked, LogsReadable, SourceAsked, SentencesAsked
<1>2. ASSUME ran # None, command.destination # None
      PROVE  \E d \in ran.destination :
                /\ d.numbers["origin_latitude"] = Given.numbers["seed.position.latitude"]
                /\ d.numbers["longitude"] = command.destination.longitude
  <2>1. Listed(command) /\ Whole(Given) /\ ran = Overridden(command, Given)
    BY <1>2, RunFacts
  <2> QED BY <1>2, <2>1, OverriddenFacts
<1>3. /\ code = 2 => ran = None
      /\ code = 3 => ~ AChannel(LAMBDA c : c.state = "Open")
  BY DEF CliInv, AChannel
<1>4. ASSUME code = 0, ran # None
      PROVE  \/ interrupted
             \/ command.duration > 0 /\ cliTime >= command.duration
             \/ ran.texts["mode"] # "delta" /\ ~ command.loop
  <2>1. SourceAsAsked(command, Given) BY <1>1, <1>4
  <2>2. CASE ran.texts["mode"] = "track" /\ ~ ran.flags["track.loop"]
    BY <2>1, <2>2 DEF SourceAsAsked
  <2>3. CASE ran.texts["mode"] = "replay" /\ ~ ran.flags["replay.loop"]
    BY <2>1, <2>3 DEF SourceAsAsked
  <2> QED BY <1>4, <2>2, <2>3 DEF CliInv
<1> QED BY <1>1, <1>2, <1>3, <1>4 DEF RunsWhatWasAsked, Given

-----------------------------------------------------------------------------
(* The invariant of the program.                                           *)

(* What it says of a run, and of an exit.                                  *)
RunAsTyped ==
    /\ command.verb = "run" /\ Acceptable
    /\ ran = ProfileToRun
    /\ channels = [i \in Enabled(ran) |-> MakeTransport(ran, ran.outputs[i], channels[i].state)]
Ended ==
    \/ interrupted
    \/ command.duration > 0 /\ cliTime >= command.duration
    \/ ran.texts["mode"] = "track" /\ ~ ran.flags["track.loop"]
    \/ ran.texts["mode"] = "replay" /\ ~ ran.flags["replay.loop"]

(* A program that stops running leaves the channels it has, closed.        *)
LEMMA StopFacts ==
    ASSUME CliInv, Going, Stop, Ended
    PROVE  CliInv'
<1>1. command \in Commands /\ ran # None /\ code' = 0 BY DEF CliInv, Going, Stop
<1>2. /\ command' = command /\ ran' = ran /\ interrupted' = interrupted
      /\ cliTime' = cliTime
      /\ channels' = [i \in DOMAIN channels |-> [channels[i] EXCEPT !.state = "Closed"]]
  BY DEF Stop
<1>3. RunAsTyped BY <1>1 DEF CliInv, RunAsTyped
<1>4. channels' = [i \in Enabled(ran) |->
                        MakeTransport(ran, ran.outputs[i], channels'[i].state)]
  <2>1. DOMAIN channels = Enabled(ran) BY <1>3 DEF RunAsTyped
  <2>2. ASSUME NEW i \in Enabled(ran)
        PROVE  channels'[i] = MakeTransport(ran, ran.outputs[i], channels'[i].state)
    <3>1. channels[i] = MakeTransport(ran, ran.outputs[i], channels[i].state)
      BY <1>3, <2>2 DEF RunAsTyped
    <3>2. channels'[i] = [channels[i] EXCEPT !.state = "Closed"] BY <1>2, <2>1
    <3> QED BY <3>1, <3>2 DEF MakeTransport
  <2>3. channels' = [i \in Enabled(ran) |-> channels'[i]] BY <1>2, <2>1
  <2> HIDE DEF MakeTransport
  <2> QED BY <2>2, <2>3
<1>5. Ended' BY <1>2 DEF Ended
<1>6. RunAsTyped' BY <1>2, <1>3, <1>4 DEF RunAsTyped, Acceptable, ProfileToRun
<1> QED BY <1>1, <1>2, <1>5, <1>6 DEF CliInv, RunAsTyped, Ended

(* A run starts as it was typed, and goes on if an output is open.         *)
LEMMA StartFacts ==
    ASSUME CliAssumption, CliInv, Run
    PROVE  CliInv'
<1> DEFINE p == ProfileToRun
<1>1. PICK opened \in [Enabled(p) -> States] :
        /\ channels' = [i \in Enabled(p) |-> MakeTransport(p, p.outputs[i], opened[i])]
        /\ Exit(IF \E i \in Enabled(p) : opened[i] = "Open" THEN None ELSE 3)
  BY DEF Run
<1>2. command.verb = "run" /\ Acceptable /\ ran' = p BY DEF Run
<1>3. command \in Commands /\ command' = command
      /\ code' = IF \E i \in Enabled(p) : opened[i] = "Open" THEN None ELSE 3
  BY <1>1 DEF CliInv, Exit
<1>4. p' = p BY <1>3 DEF ProfileToRun
<1>5. None \notin Int BY DEF CliAssumption, ProfileAssumption
<1> HIDE DEF p
<1>6. ASSUME NEW i \in Enabled(p)
      PROVE  /\ channels'[i] = MakeTransport(p, p.outputs[i], opened[i])
             /\ channels'[i].state = opened[i]
  BY <1>1 DEF MakeTransport
<1>7. DOMAIN channels' = Enabled(p) BY <1>1
<1>8. channels' = [i \in Enabled(p) |->
                        MakeTransport(p, p.outputs[i], channels'[i].state)]
  BY <1>1, <1>6
<1>9. code' = 3 => \A i \in DOMAIN channels' : channels'[i].state # "Open"
  BY <1>3, <1>5, <1>6, <1>7
<1>10. code' # 2 /\ code' # 0 BY <1>3, <1>5
<1>11. Acceptable' BY <1>2, <1>3 DEF Acceptable
<1>12. RunAsTyped' BY <1>2, <1>3, <1>4, <1>8, <1>11 DEF RunAsTyped, p
<1> QED BY <1>3, <1>9, <1>10, <1>12 DEF CliInv, RunAsTyped

(* CliInv holds in every reachable state of the program, whatever the      *)
(* command lines, the profiles and the bounds.                             *)
THEOREM CommandLineInductive == ASSUME CliAssumption PROVE CliSpec => []CliInv
<1>0. None \notin Int BY DEF CliAssumption, ProfileAssumption
<1>1. CliInit => CliInv BY <1>0 DEF CliInit, CliInv
<1>2. CliInv /\ [CliNext]_cliVars => CliInv'
  <2> SUFFICES ASSUME CliInv, [CliNext]_cliVars PROVE CliInv' OBVIOUS
  <2> USE <1>0
  <2>1. ASSUME UNCHANGED <<command, ran, channels>>,
               code' = None \/ (ran = None /\ code' \in {0, 2})
        PROVE  CliInv'
    <3>1. ran # None => RunAsTyped BY DEF CliInv, RunAsTyped
    <3>2. (ran # None => RunAsTyped)'
      BY <2>1, <3>1 DEF RunAsTyped, Acceptable, ProfileToRun
    <3>3. command' \in Commands BY <2>1 DEF CliInv
    <3> QED BY <2>1, <3>2, <3>3 DEF CliInv, RunAsTyped
  <2>2. command.verb # "run" => ran = None BY DEF CliInv
  <2>3. CASE RunRefused BY <2>1, <2>3 DEF RunRefused, Exit
  <2>4. CASE Run BY <2>4, StartFacts
  <2>5. CASE OnInterrupt BY <2>1, <2>5 DEF OnInterrupt, Going
  <2>6. CASE InterruptPoll BY <2>6, StopFacts DEF InterruptPoll, Ended
  <2>7. CASE DurationOver BY <2>7, StopFacts DEF DurationOver, Ended
  <2>8. CASE SourceEnds BY <2>8, StopFacts DEF SourceEnds, Ended
  <2>9. CASE CliTimePasses BY <2>1, <2>9 DEF CliTimePasses, Going
  <2>10. CASE WriteDefaultProfile BY <2>1, <2>2, <2>10 DEF WriteDefaultProfile, Exit
  <2>11. CASE ShowProfile BY <2>1, <2>2, <2>11 DEF ShowProfile, Exit
  <2>12. CASE OtherCommand BY <2>1, <2>2, <2>12 DEF OtherCommand, Exit
  <2>13. CASE UNCHANGED cliVars
    <3>1. UNCHANGED <<command, ran, channels, interrupted, cliTime, code>>
      BY <2>13 DEF cliVars
    <3>2. RunAsTyped => RunAsTyped' BY <3>1 DEF RunAsTyped, Acceptable, ProfileToRun
    <3> QED BY <3>1, <3>2 DEF CliInv, RunAsTyped
  <2> QED
    BY <2>3, <2>4, <2>5, <2>6, <2>7, <2>8, <2>9, <2>10, <2>11, <2>12, <2>13 DEF CliNext
<1> QED BY <1>1, <1>2, PTL DEF CliSpec

(* The program runs what its command line asks for, on top of the profile  *)
(* it names (cli/main.cpp).                                                *)
THEOREM RunsAreAsAsked == ASSUME CliAssumption PROVE CliSpec => []RunsWhatWasAsked
<1>1. CliInv => RunsWhatWasAsked BY AskedFacts
<1> QED BY <1>1, CommandLineInductive, PTL
=============================================================================

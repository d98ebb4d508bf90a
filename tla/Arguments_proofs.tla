-------------------------- MODULE Arguments_proofs --------------------------
(***************************************************************************)
(* Proofs about Arguments for command lines of any length, any limits on   *)
(* names and any widths of numbers: what is accepted, under which names a  *)
(* session begins, and what becomes of the files.                          *)
(***************************************************************************)
EXTENDS Arguments, FiniteSetTheorems, TLAPS

-----------------------------------------------------------------------------
(* The greatest element of a set of integers, and of an interval           *)

(* The intervals from the elements of a set to a bound of it are finite,   *)
(* and the least of them begins at the greatest element.                   *)
LEMMA GreatestExists ==
  ASSUME NEW n \in Int, NEW S \in SUBSET (1..n), S # {}
  PROVE  \E m \in S : \A k \in S : k <= m
<1> DEFINE From(m) == m..n
           Froms == {From(m) : m \in S}
<1>1. IsWellFoundedOn(StrictSubsetOrdering(1..n), FiniteSubsetsOf(1..n))
  BY FS_StrictSubsetOrderingWellFounded, Zenon
<1>2. Froms \subseteq FiniteSubsetsOf(1..n)
  <2> SUFFICES ASSUME NEW m \in S PROVE From(m) \in FiniteSubsetsOf(1..n)
    BY Zenon
  <2>1. m \in Int /\ 1 <= m
    OBVIOUS
  <2>2. From(m) \in SUBSET (1..n)
    BY <2>1
  <2>3. IsFiniteSet(From(m))
    BY <2>1, FS_Interval, Zenon
  <2> QED
    BY <2>2, <2>3, Zenon DEF FiniteSubsetsOf
<1>3. Froms # {}
  BY Zenon
<1>4. PICK x \in Froms : \A y \in Froms : <<y, x>> \notin StrictSubsetOrdering(1..n)
  <2> HIDE DEF Froms
  <2> QED
    BY <1>1, <1>2, <1>3, WFMin, Zenon
<1>5. PICK m \in S : x = From(m)
  BY <1>4, Zenon
<1>6. ASSUME NEW k \in S, m < k PROVE FALSE
  <2>1. From(k) \in SUBSET (1..n) /\ From(m) \in SUBSET (1..n)
    OBVIOUS
  <2>2. From(k) \subseteq From(m) /\ m \in From(m) /\ m \notin From(k)
    BY <1>6
  <2>3. <<From(k), From(m)>> \in StrictSubsetOrdering(1..n)
    <3> HIDE DEF From
    <3> QED
      BY <2>1, <2>2 DEF StrictSubsetOrdering
  <2> QED
    BY <1>4, <1>5, <2>3, Zenon
<1> QED
  BY <1>6

(* An element that no other exceeds is the greatest.                       *)
LEMMA MaxIs ==
  ASSUME NEW S \in SUBSET Int, NEW m \in S, \A k \in S : k <= m
  PROVE  Max(S) = m
<1>1. \A k \in S : m >= k
  OBVIOUS
<1>2. Max(S) \in S /\ \A k \in S : Max(S) >= k
  BY <1>1, Zenon DEF Max
<1>3. ASSUME NEW x \in S, \A k \in S : x >= k PROVE x = m
  BY <1>3
<1> QED
  BY <1>2, <1>3, Zenon

-----------------------------------------------------------------------------
(* Values and options of a command line                                    *)

(* The first token is nobody's value.                                      *)
LEMMA FirstIsNoValue == ~IsValue(1)
<1>1. ~ \E k \in 1..(1 - 1) : TRUE
  OBVIOUS
<1> QED
  BY <1>1, Zenon DEF IsValue

(* A token is a value exactly if an option --file stands before it that is *)
(* no value itself: what the loops find out one by one is what the whole   *)
(* command line says.                                                      *)
LEMMA ValueNext ==
  ASSUME argv \in Seq(Tokens), NEW i \in 1..Len(argv)
  PROVE  IsValue(i + 1) <=> argv[i].text = "--file" /\ ~IsValue(i)
<1> DEFINE F(j) == argv[j].text = "--file"
<1>0. i \in Int /\ 1 <= i
  OBVIOUS
<1>1. ASSUME NEW n \in Int
      PROVE  IsValue(n) <=> \E k \in 1..(n - 1) :
                              /\ k % 2 = 1
                              /\ \A j \in (n - k)..(n - 1) : F(j)
                              /\ k < n - 1 => ~F(n - k - 1)
  BY Zenon DEF IsValue
<1> HIDE DEF F
<1>2. ASSUME IsValue(i + 1) PROVE F(i) /\ ~IsValue(i)
  <2>1. PICK k \in 1..i : /\ k % 2 = 1
                          /\ \A j \in (i + 1 - k)..i : F(j)
                          /\ k < i => ~F(i - k)
    <3>1. (i + 1) \in Int /\ (i + 1) - 1 = i /\ \A k \in Int : i + 1 - k - 1 = i - k
      BY <1>0
    <3> QED
      BY <1>1, <1>2, <3>1
  <2>2. F(i)
    BY <2>1
  <2>3. ASSUME IsValue(i) PROVE FALSE
    <3>1. PICK l \in 1..(i - 1) : /\ l % 2 = 1
                                  /\ \A j \in (i - l)..(i - 1) : F(j)
                                  /\ l < i - 1 => ~F(i - l - 1)
      BY <1>0, <1>1, <2>3
    <3>2. k > l
      BY <1>0, <2>1, <3>1
    <3>3. k <= l + 1
      BY <1>0, <2>1, <3>1
    <3>4. k = l + 1
      BY <3>2, <3>3
    <3> QED
      BY <2>1, <3>1, <3>4
  <2> QED
    BY <2>2, <2>3
<1>3. ASSUME F(i), ~IsValue(i + 1) PROVE IsValue(i)
  <2>1. ASSUME NEW k \in 1..i, \A j \in (i + 1 - k)..i : F(j), k < i => ~F(i - k)
        PROVE  k % 2 = 0 
    <3>1. (i + 1) \in Int /\ (i + 1) - 1 = i /\ i + 1 - k - 1 = i - k
      BY <1>0
    <3>2. k % 2 # 1
      BY <1>1, <1>3, <2>1, <3>1
    <3> QED
      BY <3>2
  <2>2. PICK k \in 1..i : (\A j \in (i + 1 - k)..i : F(j)) /\ (k < i => ~F(i - k))
    <3> DEFINE S == {j \in 1..i : ~F(j)}
    <3>1. CASE S = {}
      <4>1. \A j \in 1..i : F(j)
        BY <3>1
      <4> WITNESS i \in 1..i
      <4> QED
        BY <1>0, <4>1
    <3>2. CASE S # {}
      <4>1. PICK m \in S : \A j \in S : j <= m
        BY <1>0, <3>2, GreatestExists
      <4>2. m \in 1..i /\ ~F(m) /\ m # i
        BY <1>3, <4>1
      <4>3. \A j \in (m + 1)..i : F(j)
        BY <1>0, <4>1, <4>2
      <4>4. i - m \in 1..i /\ i + 1 - (i - m) = m + 1 /\ i - (i - m) = m
        BY <1>0, <4>2
      <4> QED
        BY <4>2, <4>3, <4>4
    <3> QED
      BY <3>1, <3>2
  <2>3. k % 2 = 0
    BY <2>1, <2>2
  <2>4. k - 1 \in 1..(i - 1) /\ (k - 1) % 2 = 1
    BY <1>0, <2>2, <2>3
  <2>5. \A j \in (i - (k - 1))..(i - 1) : F(j)
    BY <1>0, <2>2
  <2>6. k - 1 < i - 1 => ~F(i - (k - 1) - 1)
    <3>1. i - (k - 1) - 1 = i - k
      BY <1>0
    <3> QED
      BY <1>0, <2>2, <3>1
  <2> QED
    BY <1>0, <1>1, <2>4, <2>5, <2>6
<1> QED
  BY <1>2, <1>3 DEF F

(* A token the loop comes to is an option if it looks like one, and the    *)
(* token after --file is passed over.                                      *)
LEMMA AtOption ==
  ASSUME argv \in Seq(Tokens), NEW i \in 1..Len(argv), ~IsValue(i)
  PROVE  /\ i \notin Values
         /\ \A texts : i \in Options(texts) <=> argv[i].text \in texts
         /\ argv[i].text # "--file" => ~IsValue(i + 1)
         /\ argv[i].text = "--file" /\ i < Len(argv) =>
              /\ i + 1 \in Values /\ ~IsValue(i + 2)
              /\ \A texts : i + 1 \notin Options(texts)
<1>1. i \in DOMAIN argv /\ i \notin Values
  BY DEF Values
<1>2. \A texts : i \in Options(texts) <=> argv[i].text \in texts
  BY <1>1 DEF Options
<1>3. IsValue(i + 1) <=> argv[i].text = "--file"
  BY ValueNext
<1>4. ASSUME argv[i].text = "--file", i < Len(argv)
      PROVE  /\ i + 1 \in Values /\ ~IsValue(i + 2)
             /\ \A texts : i + 1 \notin Options(texts)
  <2>1. PICK j \in 1..Len(argv) : j = i + 1
    BY <1>4
  <2>2. IsValue(j)
    BY <1>3, <1>4, <2>1, Zenon
  <2>3. j \in Values /\ \A texts : j \notin Options(texts)
    BY <2>2 DEF Values, Options
  <2>4. ~IsValue(j + 1)
    BY <2>2, ValueNext
  <2>5. j + 1 = i + 2
    BY <2>1
  <2> QED
    BY <2>1, <2>3, <2>4, <2>5, Zenon
<1> QED
  BY <1>1, <1>2, <1>3, <1>4, Zenon

-----------------------------------------------------------------------------
(***************************************************************************)
(* The inductive invariant: what the loop knows of the tokens before n,    *)
(* when the file read so far is f and the protocol is p.                   *)
(***************************************************************************)
NoneBefore(S, n) == \A i \in S : i >= n
LastBefore(S, n, i) == i \in S /\ i < n /\ \A j \in S : j < n => j <= i

(* The file is the last value.                                             *)
FileAt(n, f) ==
  \/ NoneBefore(Values, n) /\ f = Absent
  \/ \E i \in Values : LastBefore(Values, n, i) /\ f = argv[i]

(* The protocol is the last of the options of a set.                       *)
Meant(text) == IF text = "--help" THEN "help" ELSE text
ChosenAt(texts, n, p) ==
  \/ NoneBefore(Options(texts), n) /\ p = "none"
  \/ \E i \in Options(texts) : LastBefore(Options(texts), n, i) /\ p = Meant(argv[i].text)

(* NEW and RC go on only after one method at most, and nothing unknown.    *)
StrictAt(n, p) ==
  /\ ChosenAt(Methods, n, p)
  /\ \A i, j \in Options(Methods) : i < n /\ j < n => i = j
  /\ NoneBefore(Options({"--help", "--message"}), n)

ReadAt(n, f, p) ==
  /\ n \in 1..(Len(argv) + 1) /\ (n <= Len(argv) => ~IsValue(n))
  /\ FileAt(n, f)
  /\ program \in {"NEW", "RC"} => StrictAt(n, p)
  /\ program = "NEW" => \A i \in Values : i < n => FileFits(argv[i])
  /\ program = "RC" => NoneBefore(Options({"--file"}) \cap {Len(argv)}, n)
  /\ program = "C" => ChosenAt(Methods \cup {"--message", "--help"}, n, p)

Lines == argv \in Seq(Tokens) /\ \A i \in DOMAIN argv : Plausible(argv[i])
LoopInv == parsed = "none" /\ program # "Rust" => ReadAt(optind, filepath, protocol)

(* The name that goes with the method at n.                                *)
Chosen(n) ==
  IF n < Len(argv) /\ ~argv[n + 1].dash
  THEN correctingIPCName(argv[n].text, argv[n + 1])
  ELSE DefaultName[argv[n].text]
(* The channel of NEW has the name that goes with its protocol.            *)
ChannelInv ==
  program = "NEW" /\ protocol # "none" =>
    \E n \in Options(Methods) : protocol = argv[n].text /\ channel = Chosen(n)
(* The file of RC is one of the words of the line.                         *)
FileInv ==
  program = "RC" => filepath = Absent \/ \E i \in 1..Len(argv) : filepath = argv[i]
(* A file is removed, and sizes are looked up, at the end only.            *)
EndInv ==
  exit = "none" => copy = "untouched" /\ size = 0 /\ space = 0

ArgumentsInvariant ==
  /\ Lines /\ LoopInv /\ Understood /\ ChannelInv /\ FileInv /\ EndInv
  /\ FileSpared /\ SpaceChecked

-----------------------------------------------------------------------------
(* One token further                                                       *)

(* What one more token means for the last element of a set of positions.   *)
LEMMA OneMore ==
  ASSUME NEW S \in SUBSET Int, NEW n \in Int
  PROVE  /\ n \notin S /\ NoneBefore(S, n) => NoneBefore(S, n + 1)
         /\ \A i : n \notin S /\ LastBefore(S, n, i) => LastBefore(S, n + 1, i)
         /\ n \in S => LastBefore(S, n + 1, n)
<1>1. \A i \in S : i < n + 1 <=> i < n \/ i = n
  OBVIOUS
<1>2. \A i \in S : (i >= n /\ i # n => i >= n + 1) /\ (i < n => i <= n)
  OBVIOUS
<1>3. n < n + 1 /\ n <= n
  OBVIOUS
<1> QED
  BY <1>1, <1>2, <1>3, Zenon DEF NoneBefore, LastBefore

(* Values and options stand in the line.                                   *)
LEMMA Positions ==
  ASSUME argv \in Seq(Tokens)
  PROVE  /\ Values \subseteq 1..Len(argv)
         /\ \A texts : Options(texts) \subseteq 1..Len(argv)
BY DEF Values, Options

(* Passing a token that is no value keeps the file.                        *)
LEMMA FilePassed ==
  ASSUME argv \in Seq(Tokens), NEW n \in Int, n \notin Values, NEW f, FileAt(n, f)
  PROVE  FileAt(n + 1, f)
<1> Values \subseteq Int
  BY Positions
<1> QED
  BY OneMore, Zenon DEF FileAt

(* Passing a value makes it the file.                                      *)
LEMMA FileTaken ==
  ASSUME argv \in Seq(Tokens), NEW n \in Int, n \in Values
  PROVE  FileAt(n + 1, argv[n])
<1> Values \subseteq Int
  BY Positions
<1> QED
  BY OneMore, Zenon DEF FileAt

(* Passing a token that is no method keeps the choice.                     *)
LEMMA ChoicePassed ==
  ASSUME argv \in Seq(Tokens), NEW texts, NEW n \in Int, n \notin Options(texts),
         NEW p, ChosenAt(texts, n, p)
  PROVE  ChosenAt(texts, n + 1, p)
<1> Options(texts) \subseteq Int
  BY Positions
<1> QED
  BY OneMore, Zenon DEF ChosenAt

(* Passing a method makes it the choice.                                   *)
LEMMA ChoiceTaken ==
  ASSUME argv \in Seq(Tokens), NEW texts, NEW n \in Int, n \in Options(texts)
  PROVE  ChosenAt(texts, n + 1, Meant(argv[n].text))
<1> Options(texts) \subseteq Int
  BY Positions
<1> QED
  BY OneMore, Zenon DEF ChosenAt

(* A token that is no option of the program and no value changes nothing.  *)
LEMMA StrictPassed ==
  ASSUME argv \in Seq(Tokens), NEW n \in Int, NEW p, StrictAt(n, p),
         n \notin Options(Methods), n \notin Options({"--help", "--message"})
  PROVE  StrictAt(n + 1, p)
<1>1. ChosenAt(Methods, n + 1, p)
  BY ChoicePassed DEF StrictAt
<1>2. Options(Methods) \subseteq Int /\ Options({"--help", "--message"}) \subseteq Int
  BY Positions
<1>3. NoneBefore(Options({"--help", "--message"}), n + 1)
  BY <1>2, OneMore DEF StrictAt
<1>4. \A i \in Options(Methods) : i < n + 1 => i < n
  BY <1>2
<1> QED
  BY <1>1, <1>3, <1>4, Zenon DEF StrictAt

(* The first method is the one that is chosen.                             *)
LEMMA StrictTaken ==
  ASSUME argv \in Seq(Tokens), NEW n \in Int, StrictAt(n, "none"), n \in Options(Methods),
         n \notin Options({"--help", "--message"})
  PROVE  StrictAt(n + 1, argv[n].text)
<1>1. Options(Methods) \subseteq Int /\ Options({"--help", "--message"}) \subseteq Int
  BY Positions
<1>2. ChosenAt(Methods, n + 1, Meant(argv[n].text))
  BY ChoiceTaken
<1>3. \A i \in Options(Methods) : argv[i].text \in Methods
  BY DEF Options
<1>4. \A text \in Methods : Meant(text) = text /\ text # "none"
  BY DEF Methods, Meant
<1>5. NoneBefore(Options(Methods), n)
  BY <1>3, <1>4, Zenon DEF StrictAt, ChosenAt
<1>6. \A i \in Options(Methods) : i < n + 1 => i = n
  BY <1>1, <1>5 DEF NoneBefore
<1>7. NoneBefore(Options({"--help", "--message"}), n + 1)
  BY <1>1, OneMore DEF StrictAt
<1> QED
  BY <1>2, <1>3, <1>4, <1>6, <1>7, Zenon DEF StrictAt

-----------------------------------------------------------------------------
(* One round of a loop                                                     *)

(* Values that were passed and accepted fit.                               *)
LEMMA FitPassed ==
  ASSUME argv \in Seq(Tokens), NEW n \in Int,
         \A i \in Values : i < n => FileFits(argv[i]),
         n \in Values => FileFits(argv[n])
  PROVE  \A i \in Values : i < n + 1 => FileFits(argv[i])
<1>1. \A i \in Values : i < n + 1 => i < n \/ i = n
  BY Positions
<1> QED
  BY <1>1, Zenon

(* The option --file at the end, which is the only one RC refuses.         *)
LEMMA EndPassed ==
  ASSUME argv \in Seq(Tokens), NEW n \in 1..Len(argv),
         NoneBefore(Options({"--file"}) \cap {Len(argv)}, n),
         n # Len(argv) \/ n \notin Options({"--file"})
  PROVE  NoneBefore(Options({"--file"}) \cap {Len(argv)}, n + 1)
<1>1. n \notin Options({"--file"}) \cap {Len(argv)}
  BY Zenon
<1>2. Options({"--file"}) \cap {Len(argv)} \subseteq Int
  BY Positions
<1> QED
  BY <1>1, <1>2, OneMore

(* A word, which is no option of any program.                              *)
LEMMA WordRead ==
  ASSUME argv \in Seq(Tokens), NEW n \in 1..Len(argv), NEW f, NEW p, ReadAt(n, f, p),
         argv[n].text \notin OptionTexts
  PROVE  ReadAt(n + 1, f, p)
<1>1. n \in Int /\ n + 1 \in 1..(Len(argv) + 1) /\ ~IsValue(n)
  BY DEF ReadAt
<1>2. argv[n].text # "--file" /\ argv[n].text \notin Methods
      /\ argv[n].text \notin {"--help", "--message"} /\ argv[n].text \notin {"--file"}
      /\ argv[n].text \notin Methods \cup {"--message", "--help"}
  BY DEF OptionTexts
<1>3. n \notin Values /\ ~IsValue(n + 1)
  BY <1>1, <1>2, AtOption, Zenon
<1>4. n \notin Options(Methods) /\ n \notin Options({"--help", "--message"})
      /\ n \notin Options({"--file"}) /\ n \notin Options(Methods \cup {"--message", "--help"})
  BY <1>1, <1>2, AtOption, Zenon
<1>5. FileAt(n + 1, f)
  BY <1>1, <1>3, FilePassed DEF ReadAt
<1>6. program \in {"NEW", "RC"} => StrictAt(n + 1, p)
  BY <1>1, <1>4, StrictPassed, Zenon DEF ReadAt
<1>7. program = "NEW" => \A i \in Values : i < n + 1 => FileFits(argv[i])
  BY <1>1, <1>3, FitPassed, Zenon DEF ReadAt
<1>8. program = "RC" => NoneBefore(Options({"--file"}) \cap {Len(argv)}, n + 1)
  BY <1>4, EndPassed, Zenon DEF ReadAt
<1>9. program = "C" => ChosenAt(Methods \cup {"--message", "--help"}, n + 1, p)
  BY <1>1, <1>4, ChoicePassed, Zenon DEF ReadAt
<1> QED
  BY <1>1, <1>3, <1>5, <1>6, <1>7, <1>8, <1>9, Zenon DEF ReadAt

(* The first method of NEW and RC.                                         *)
LEMMA MethodRead ==
  ASSUME argv \in Seq(Tokens), NEW n \in 1..Len(argv), NEW f, ReadAt(n, f, "none"),
         argv[n].text \in Methods, program \in {"NEW", "RC"}
  PROVE  ReadAt(n + 1, f, argv[n].text)
<1>1. n \in Int /\ n + 1 \in 1..(Len(argv) + 1) /\ ~IsValue(n)
  BY DEF ReadAt
<1>2. argv[n].text # "--file" /\ argv[n].text \notin {"--help", "--message"}
      /\ argv[n].text \notin {"--file"}
  BY DEF Methods
<1>3. n \notin Values /\ ~IsValue(n + 1)
  BY <1>1, <1>2, AtOption, Zenon
<1>4. n \in Options(Methods) /\ n \notin Options({"--help", "--message"})
      /\ n \notin Options({"--file"})
  BY <1>1, <1>2, AtOption, Zenon
<1>5. FileAt(n + 1, f)
  BY <1>1, <1>3, FilePassed DEF ReadAt
<1>6. StrictAt(n + 1, argv[n].text)
  BY <1>1, <1>4, StrictTaken, Zenon DEF ReadAt
<1>7. program = "NEW" => \A i \in Values : i < n + 1 => FileFits(argv[i])
  BY <1>1, <1>3, FitPassed, Zenon DEF ReadAt
<1>8. program = "RC" => NoneBefore(Options({"--file"}) \cap {Len(argv)}, n + 1)
  BY <1>4, EndPassed, Zenon DEF ReadAt
<1>9. program # "C"
  OBVIOUS
<1> QED
  BY <1>1, <1>3, <1>5, <1>6, <1>7, <1>8, <1>9, Zenon DEF ReadAt

(* An option of C, which may replace the one before.                       *)
LEMMA OptionRead ==
  ASSUME argv \in Seq(Tokens), NEW n \in 1..Len(argv), NEW f, NEW p, ReadAt(n, f, p),
         argv[n].text \in Methods \cup {"--message", "--help"}, program = "C"
  PROVE  ReadAt(n + 1, f, Meant(argv[n].text))
<1>1. n \in Int /\ n + 1 \in 1..(Len(argv) + 1) /\ ~IsValue(n)
  BY DEF ReadAt
<1>2. argv[n].text # "--file"
  BY DEF Methods
<1>3. n \notin Values /\ ~IsValue(n + 1)
  BY <1>1, <1>2, AtOption, Zenon
<1>4. n \in Options(Methods \cup {"--message", "--help"})
  BY <1>1, AtOption, Zenon
<1>5. FileAt(n + 1, f)
  BY <1>1, <1>3, FilePassed DEF ReadAt
<1>6. ChosenAt(Methods \cup {"--message", "--help"}, n + 1, Meant(argv[n].text))
  BY <1>1, <1>4, ChoiceTaken, Zenon
<1>7. program \notin {"NEW", "RC"}
  OBVIOUS
<1> QED
  BY <1>1, <1>3, <1>5, <1>6, <1>7 DEF ReadAt

(* The option --file and what it names.                                    *)
LEMMA FileRead ==
  ASSUME argv \in Seq(Tokens), NEW n \in 1..Len(argv), NEW f, NEW p, ReadAt(n, f, p),
         argv[n].text = "--file", n < Len(argv), program = "NEW" => FileFits(argv[n + 1])
  PROVE  ReadAt(n + 2, argv[n + 1], p)
<1>1. PICK k \in Int : k = n + 1
  OBVIOUS
<1>2. n \in Int /\ ~IsValue(n) /\ k \in 1..Len(argv) /\ k + 1 = n + 2
  BY <1>1 DEF ReadAt
<1>3. argv[n].text \notin Methods /\ argv[n].text \notin {"--help", "--message"}
      /\ argv[n].text \notin Methods \cup {"--message", "--help"}
  BY DEF Methods
<1>4. n \notin Values /\ n \notin Options(Methods) /\ n \notin Options({"--help", "--message"})
      /\ n \notin Options(Methods \cup {"--message", "--help"})
  BY <1>2, <1>3, AtOption, Zenon
<1>5. k \in Values /\ ~IsValue(k + 1) /\ \A texts : k \notin Options(texts)
  BY <1>1, <1>2, AtOption, Zenon
<1>6. FileAt(k + 1, argv[k])
  BY <1>5, FileTaken
<1>7. program \in {"NEW", "RC"} => StrictAt(k + 1, p)
  <2>1. program \in {"NEW", "RC"} => StrictAt(k, p)
    BY <1>1, <1>2, <1>4, StrictPassed, Zenon DEF ReadAt
  <2> QED
    BY <2>1, <1>5, StrictPassed, Zenon
<1>8. program = "NEW" => \A i \in Values : i < k + 1 => FileFits(argv[i])
  <2>1. program = "NEW" => \A i \in Values : i < k => FileFits(argv[i])
    BY <1>1, <1>2, <1>4, FitPassed, Zenon DEF ReadAt
  <2> QED
    BY <2>1, <1>1, FitPassed, Zenon
<1>9. program = "RC" => NoneBefore(Options({"--file"}) \cap {Len(argv)}, k + 1)
  <2>1. n # Len(argv)
    OBVIOUS
  <2>2. program = "RC" => NoneBefore(Options({"--file"}) \cap {Len(argv)}, k)
    BY <1>1, <2>1, EndPassed, Zenon DEF ReadAt
  <2> QED
    BY <1>2, <1>5, <2>2, EndPassed, Zenon
<1>10. program = "C" => ChosenAt(Methods \cup {"--message", "--help"}, k + 1, p)
  <2>1. program = "C" => ChosenAt(Methods \cup {"--message", "--help"}, k, p)
    BY <1>1, <1>2, <1>4, ChoicePassed, Zenon DEF ReadAt
  <2> QED
    BY <2>1, <1>5, ChoicePassed, Zenon
<1>11. k + 1 \in 1..(Len(argv) + 1)
  BY <1>2
<1>12. ReadAt(k + 1, argv[k], p)
  BY <1>5, <1>6, <1>7, <1>8, <1>9, <1>10, <1>11, Zenon DEF ReadAt
<1> QED
  BY <1>1, <1>2, <1>12, Zenon

(* NEW and C pass over a --file that names nothing.                        *)
LEMMA FileMissing ==
  ASSUME argv \in Seq(Tokens), NEW f, NEW p, ReadAt(Len(argv), f, p), Len(argv) \in 1..Len(argv),
         argv[Len(argv)].text = "--file", program \in {"NEW", "C"}
  PROVE  ReadAt(Len(argv) + 1, f, p)
<1>1. PICK n \in 1..Len(argv) : n = Len(argv)
  OBVIOUS
<1>2. n \in Int /\ ~IsValue(n) /\ n + 1 \in 1..(Len(argv) + 1) /\ ~ (n + 1 <= Len(argv))
  BY <1>1 DEF ReadAt
<1>3. argv[n].text \notin Methods /\ argv[n].text \notin {"--help", "--message"}
      /\ argv[n].text \notin Methods \cup {"--message", "--help"}
  BY <1>1 DEF Methods
<1>4. n \notin Values /\ n \notin Options(Methods) /\ n \notin Options({"--help", "--message"})
      /\ n \notin Options(Methods \cup {"--message", "--help"})
  BY <1>2, <1>3, AtOption, Zenon
<1>5. ReadAt(n, f, p)
  BY <1>1, Zenon
<1>6. FileAt(n + 1, f)
  BY <1>4, <1>5, FilePassed DEF ReadAt
<1>7. program \in {"NEW", "RC"} => StrictAt(n + 1, p)
  BY <1>2, <1>4, <1>5, StrictPassed, Zenon DEF ReadAt
<1>8. program = "NEW" => \A i \in Values : i < n + 1 => FileFits(argv[i])
  BY <1>2, <1>4, <1>5, FitPassed, Zenon DEF ReadAt
<1>9. program = "C" => ChosenAt(Methods \cup {"--message", "--help"}, n + 1, p)
  BY <1>2, <1>4, <1>5, ChoicePassed, Zenon DEF ReadAt
<1>10. program # "RC"
  OBVIOUS
<1>11. ReadAt(n + 1, f, p)
  BY <1>2, <1>6, <1>7, <1>8, <1>9, <1>10, Zenon DEF ReadAt
<1> QED
  BY <1>1, <1>11, Zenon

-----------------------------------------------------------------------------
(* The loops of the programs                                               *)

(* What a line is made of.                                                 *)
LEMMA Words ==
  ASSUME Lines
  PROVE  /\ argv \in Seq(Tokens)
         /\ \A i \in 1..Len(argv) : ~argv[i].dash <=> argv[i].text \notin OptionTexts
         /\ \A i \in 1..Len(argv) : argv[i] # Absent
<1>1. argv \in Seq(Tokens) /\ DOMAIN argv = 1..Len(argv)
  BY DEF Lines
<1> QED
  BY <1>1, Zenon DEF Lines, Plausible

(* The name a method of NEW may be followed by is a word.                  *)
LEMMA NameRead ==
  ASSUME Lines, NEW n \in 1..Len(argv), NEW f, NEW p, ReadAt(n + 1, f, p)
  PROVE  /\ n < Len(argv) /\ ~argv[n + 1].dash => ReadAt(n + 2, f, p)
<1> SUFFICES ASSUME n < Len(argv), ~argv[n + 1].dash PROVE ReadAt(n + 2, f, p)
  OBVIOUS
<1>1. PICK k \in 1..Len(argv) : k = n + 1 /\ k + 1 = n + 2
  OBVIOUS
<1>2. argv \in Seq(Tokens) /\ argv[k].text \notin OptionTexts
  BY <1>1, Words, Zenon
<1>3. ReadAt(k, f, p)
  BY <1>1, Zenon
<1>4. ReadAt(k + 1, f, p)
  BY <1>2, <1>3, WordRead
<1> QED
  BY <1>1, <1>4, Zenon

(* While a token is left, the loop has read all those before it.           *)
LEMMA AtToken ==
  ASSUME Lines, LoopInv, parsed = "none", program # "Rust", optind <= Len(argv)
  PROVE  optind \in 1..Len(argv) /\ ReadAt(optind, filepath, protocol)
<1>1. ReadAt(optind, filepath, protocol)
  BY Zenon DEF LoopInv
<1>2. optind \in 1..(Len(argv) + 1)
  BY <1>1, Zenon DEF ReadAt
<1>3. argv \in Seq(Tokens)
  BY DEF Lines
<1> QED
  BY <1>1, <1>2, <1>3

(* NEW: handling one token reads the line up to the next.                  *)
LEMMA NewReads ==
  ASSUME Lines, LoopInv, NewOption, parsed' = "none"
  PROVE  ReadAt(optind', filepath', protocol')
<1>1. program = "NEW" /\ parsed = "none" /\ optind <= Len(argv)
  BY DEF NewOption, Reading
<1>2. optind \in 1..Len(argv) /\ ReadAt(optind, filepath, protocol)
  BY <1>1, AtToken
<1>3. PICK n \in 1..Len(argv) : n = optind
  BY <1>2
<1>4. PICK f, p : f = filepath /\ p = protocol
  OBVIOUS
<1>5. ReadAt(n, f, p) /\ argv \in Seq(Tokens)
      /\ (~argv[n].dash <=> argv[n].text \notin OptionTexts)
  BY <1>2, <1>3, <1>4, Words, Zenon
<1>6. CASE ~Option.dash /\ Skip(1)
  <2>1. optind' = n + 1 /\ filepath' = f /\ protocol' = p /\ ~argv[n].dash
    BY <1>3, <1>4, <1>6, Zenon DEF Skip, Goon, Option
  <2> QED
    BY <1>5, <2>1, WordRead, Zenon
<1>7. CASE /\ Option.text \in Methods /\ NewMethodIsFirst
           /\ Goon(IF NextIsName THEN 2 ELSE 1)
           /\ protocol' = Option.text /\ UNCHANGED filepath
  <2>1. argv[n].text \in Methods /\ p = "none"
    BY <1>3, <1>4, <1>7, Zenon DEF Option, NewMethodIsFirst
  <2>2. ReadAt(n + 1, f, argv[n].text)
    BY <1>1, <1>5, <2>1, MethodRead, Zenon
  <2>3. filepath' = f /\ protocol' = argv[n].text
    BY <1>3, <1>4, <1>7, Zenon DEF Option
  <2>4. CASE NextIsName
    <3>1. optind' = n + 2 /\ n < Len(argv) /\ ~argv[n + 1].dash
      BY <1>3, <1>7, <2>4, Zenon DEF Goon, NextIsName, HasNext, NextToken
    <3> QED
      BY <2>2, <2>3, <3>1, NameRead, Zenon
  <2>5. CASE ~NextIsName
    <3>1. optind' = n + 1
      BY <1>3, <1>7, <2>5, Zenon DEF Goon
    <3> QED
      BY <2>2, <2>3, <3>1, Zenon
  <2> QED
    BY <2>4, <2>5
<1>8. CASE Option.text = "--file" /\ HasNext /\ FileFits(NextToken) /\ TakeFile
  <2>1. argv[n].text = "--file" /\ n < Len(argv) /\ FileFits(argv[n + 1])
    BY <1>3, <1>8, Zenon DEF Option, HasNext, NextToken
  <2>2. optind' = n + 2 /\ filepath' = argv[n + 1] /\ protocol' = p
    BY <1>3, <1>4, <1>8, Zenon DEF TakeFile, Goon, NextToken
  <2> QED
    BY <1>5, <2>1, <2>2, FileRead, Zenon
<1>9. CASE Option.text = "--file" /\ ~HasNext /\ Skip(1)
  <2>1. argv[n].text = "--file" /\ ~ (n < Len(argv))
    BY <1>3, <1>9, Zenon DEF Option, HasNext
  <2>2. n = Len(argv)
    BY <1>5, <2>1
  <2>3. optind' = n + 1 /\ filepath' = f /\ protocol' = p
    BY <1>3, <1>4, <1>9, Zenon DEF Skip, Goon
  <2> QED
    BY <1>1, <1>5, <2>1, <2>2, <2>3, FileMissing, Zenon
<1> QED
  <2>1. \A result \in {"help", "bad"} : ~Parsed(result)
    BY DEF Parsed
  <2> QED
    BY <1>6, <1>7, <1>8, <1>9, <2>1 DEF NewOption

(* RC: handling one token reads the line up to the next.                   *)
LEMMA RcReads ==
  ASSUME Lines, LoopInv, RcOption, parsed' = "none"
  PROVE  ReadAt(optind', filepath', protocol')
<1>1. program = "RC" /\ parsed = "none" /\ optind <= Len(argv)
  BY DEF RcOption, Reading
<1>2. optind \in 1..Len(argv) /\ ReadAt(optind, filepath, protocol)
  BY <1>1, AtToken
<1>3. PICK n \in 1..Len(argv) : n = optind
  BY <1>2
<1>4. PICK f, p : f = filepath /\ p = protocol
  OBVIOUS
<1>5. ReadAt(n, f, p) /\ argv \in Seq(Tokens)
      /\ (~argv[n].dash <=> argv[n].text \notin OptionTexts)
  BY <1>2, <1>3, <1>4, Words, Zenon
<1>6. CASE ~Option.dash /\ Skip(1)
  <2>1. optind' = n + 1 /\ filepath' = f /\ protocol' = p /\ ~argv[n].dash
    BY <1>3, <1>4, <1>6, Zenon DEF Skip, Goon, Option
  <2> QED
    BY <1>5, <2>1, WordRead, Zenon
<1>7. CASE Option.text \in Methods /\ protocol = "none" /\ Take(1, Option.text)
  <2>1. argv[n].text \in Methods /\ p = "none"
    BY <1>3, <1>4, <1>7, Zenon DEF Option
  <2>2. optind' = n + 1 /\ filepath' = f /\ protocol' = argv[n].text
    BY <1>3, <1>4, <1>7, Zenon DEF Take, Goon, Option
  <2> QED
    BY <1>1, <1>5, <2>1, <2>2, MethodRead, Zenon
<1>8. CASE Option.text = "--file" /\ HasNext /\ TakeFile
  <2>1. argv[n].text = "--file" /\ n < Len(argv) /\ program # "NEW"
    BY <1>1, <1>3, <1>8, Zenon DEF Option, HasNext
  <2>2. optind' = n + 2 /\ filepath' = argv[n + 1] /\ protocol' = p
    BY <1>3, <1>4, <1>8, Zenon DEF TakeFile, Goon, NextToken
  <2> QED
    BY <1>5, <2>1, <2>2, FileRead, Zenon
<1> QED
  <2>1. \A result \in {"help", "bad"} : ~Parsed(result)
    BY DEF Parsed
  <2> QED
    BY <1>6, <1>7, <1>8, <2>1 DEF RcOption

(* C: handling one token reads the line up to the next.                    *)
LEMMA CReads ==
  ASSUME Lines, LoopInv, COption
  PROVE  ReadAt(optind', filepath', protocol')
<1>1. program = "C" /\ parsed = "none" /\ optind <= Len(argv)
  BY DEF COption, Reading
<1>2. optind \in 1..Len(argv) /\ ReadAt(optind, filepath, protocol)
  BY <1>1, AtToken
<1>3. PICK n \in 1..Len(argv) : n = optind
  BY <1>2
<1>4. PICK f, p : f = filepath /\ p = protocol
  OBVIOUS
<1>5. ReadAt(n, f, p) /\ argv \in Seq(Tokens)
      /\ (~argv[n].dash <=> argv[n].text \notin OptionTexts)
  BY <1>2, <1>3, <1>4, Words, Zenon
<1>6. CASE ~Option.dash /\ Skip(1)
  <2>1. optind' = n + 1 /\ filepath' = f /\ protocol' = p /\ ~argv[n].dash
    BY <1>3, <1>4, <1>6, Zenon DEF Skip, Goon, Option
  <2> QED
    BY <1>5, <2>1, WordRead, Zenon
<1>7. ASSUME argv[n].text \in Methods \cup {"--message", "--help"},
             Take(1, Meant(argv[n].text))
      PROVE  ReadAt(optind', filepath', protocol')
  <2>1. optind' = n + 1 /\ filepath' = f /\ protocol' = Meant(argv[n].text)
    BY <1>3, <1>4, <1>7, Zenon DEF Take, Goon
  <2> QED
    BY <1>1, <1>5, <1>7, <2>1, OptionRead, Zenon
<1>8. CASE Option.text = "--help" /\ Take(1, "help")
  <2>1. argv[n].text = "--help"
    BY <1>3, <1>8, Zenon DEF Option
  <2> QED
    BY <1>7, <1>8, <2>1, Zenon DEF Meant
<1>9. CASE Option.text \in Methods \cup {"--message"} /\ Take(1, Option.text)
  <2>1. Option = argv[n]
    BY <1>3, Zenon DEF Option
  <2>2. Meant(argv[n].text) = argv[n].text
    BY <1>9, <2>1 DEF Meant, Methods
  <2> QED
    BY <1>7, <1>9, <2>1, <2>2, Zenon
<1>10. CASE Option.text = "--file" /\ HasNext /\ TakeFile
  <2>1. argv[n].text = "--file" /\ n < Len(argv) /\ program # "NEW"
    BY <1>1, <1>3, <1>10, Zenon DEF Option, HasNext
  <2>2. optind' = n + 2 /\ filepath' = argv[n + 1] /\ protocol' = p
    BY <1>3, <1>4, <1>10, Zenon DEF TakeFile, Goon, NextToken
  <2> QED
    BY <1>5, <2>1, <2>2, FileRead, Zenon
<1>11. CASE Option.text = "--file" /\ ~HasNext /\ Skip(1)
  <2>1. argv[n].text = "--file" /\ ~ (n < Len(argv))
    BY <1>3, <1>11, Zenon DEF Option, HasNext
  <2>2. n = Len(argv)
    BY <1>5, <2>1
  <2>3. optind' = n + 1 /\ filepath' = f /\ protocol' = p
    BY <1>3, <1>4, <1>11, Zenon DEF Skip, Goon
  <2> QED
    BY <1>1, <1>5, <2>1, <2>2, <2>3, FileMissing, Zenon
<1> QED
  BY <1>6, <1>8, <1>9, <1>10, <1>11, Zenon DEF COption

-----------------------------------------------------------------------------
(* What is known of the whole command line                                 *)

(* Understood of a result, a file and a protocol.                          *)
Judged(result, f, p) ==
  /\ program \in {"NEW", "RC"} /\ result # "none" => (result = "good" <=> WellFormed)
  /\ result = "good" =>
       /\ program # "Rust"
       /\ Values # {} => f = argv[Max(Values)]
       /\ p = argv[Max(Options(Methods \cup
                         IF program = "C" THEN {"--message"} ELSE {}))].text

(* The property in terms of the three variables it is about.               *)
LEMMA UnderstoodIsJudged == Understood <=> Judged(parsed, filepath, protocol)
BY Zenon DEF Understood, Judged

(* What the line says does not change while it is read.                    *)
LEMMA SameLine ==
  ASSUME argv' = argv, program' = program
  PROVE  /\ Values' = Values
         /\ \A texts : Options(texts)' = Options(texts)
         /\ \A n : IsValue(n)' <=> IsValue(n)
<1>1. \A n : IsValue(n)' <=> IsValue(n)
  BY Zenon DEF IsValue
<1>2. Values' = Values
  BY <1>1 DEF Values
<1> QED
  BY <1>1, <1>2 DEF Options

(* What was read and judged of a line stays so.                            *)
LEMMA SameReading ==
  ASSUME argv' = argv, program' = program, NEW n, NEW f, NEW p, NEW result
  PROVE  /\ ReadAt(n, f, p) => ReadAt(n, f, p)'
         /\ Judged(result, f, p) => Judged(result, f, p)'
<1>1. Values' = Values /\ (IsValue(n)' <=> IsValue(n)) /\ Options(Methods)' = Options(Methods)
      /\ Options({"--help", "--message"})' = Options({"--help", "--message"})
      /\ Options({"--file"})' = Options({"--file"})
      /\ Options(Methods \cup {"--message", "--help"})'
           = Options(Methods \cup {"--message", "--help"})
  BY SameLine, Zenon DEF Methods
<1>2. Options(Methods \cup IF program = "C" THEN {"--message"} ELSE {})'
        = Options(Methods \cup IF program = "C" THEN {"--message"} ELSE {})
  BY SameLine, Zenon DEF Options
<1>3. \A w : FileFits(w)' <=> FileFits(w)
  BY Zenon DEF FileFits, PathRoom
<1>9. WellFormed' <=> WellFormed
  BY <1>1, <1>3, Zenon DEF WellFormed
<1>4. Judged(result, f, p) => Judged(result, f, p)'
  BY <1>1, <1>2, <1>9, Zenon DEF Judged
<1>5. FileAt(n, f) => FileAt(n, f)'
  BY <1>1, Zenon DEF FileAt
<1>6. StrictAt(n, p) => StrictAt(n, p)'
  BY <1>1, Zenon DEF StrictAt, ChosenAt
<1>7. ChosenAt(Methods \cup {"--message", "--help"}, n, p)
        => ChosenAt(Methods \cup {"--message", "--help"}, n, p)'
  BY <1>1, Zenon DEF ChosenAt
<1>8. ReadAt(n, f, p) => ReadAt(n, f, p)'
  BY <1>1, <1>3, <1>5, <1>6, <1>7, Zenon DEF ReadAt
<1> QED
  BY <1>4, <1>8

(* At the end the greatest value is the file, ...                          *)
LEMMA FileAtEnd ==
  ASSUME argv \in Seq(Tokens), NEW f, FileAt(Len(argv) + 1, f)
  PROVE  \/ Values = {} /\ f = Absent
         \/ Values # {} /\ Max(Values) \in Values /\ f = argv[Max(Values)]
<1>1. Values \subseteq 1..Len(argv) /\ Values \in SUBSET Int
  BY Positions
<1>2. \A i \in Values : i < Len(argv) + 1 /\ ~ (i >= Len(argv) + 1)
  BY <1>1
<1>3. CASE NoneBefore(Values, Len(argv) + 1) /\ f = Absent
  BY <1>2, <1>3, Zenon DEF NoneBefore
<1>4. ASSUME NEW i \in Values, LastBefore(Values, Len(argv) + 1, i), f = argv[i]
      PROVE  Values # {} /\ Max(Values) \in Values /\ f = argv[Max(Values)]
  <2>1. \A j \in Values : j <= i
    BY <1>2, <1>4, Zenon DEF LastBefore
  <2>2. Max(Values) = i
    BY <1>1, <2>1, MaxIs
  <2> QED
    BY <1>4, <2>2
<1> QED
  BY <1>3, <1>4, Zenon DEF FileAt

(* ... and the greatest option is what the protocol is read from.          *)
LEMMA ChosenAtEnd ==
  ASSUME argv \in Seq(Tokens), NEW texts, NEW p, ChosenAt(texts, Len(argv) + 1, p)
  PROVE  \/ Options(texts) = {} /\ p = "none"
         \/ \E i \in Options(texts) : (\A j \in Options(texts) : j <= i)
                                      /\ p = Meant(argv[i].text)
<1>1. Options(texts) \subseteq 1..Len(argv)
  BY Positions
<1>2. \A i \in Options(texts) : i < Len(argv) + 1 /\ ~ (i >= Len(argv) + 1)
  BY <1>1
<1> QED
  BY <1>2, Zenon DEF ChosenAt, LastBefore, NoneBefore

(* There is one method exactly when all positions of methods are one.      *)
LEMMA OneOption ==
  ASSUME argv \in Seq(Tokens)
  PROVE  Cardinality(Options(Methods)) = 1 <=> \E i : Options(Methods) = {i}
<1>1. Options(Methods) \in SUBSET (1..Len(argv)) /\ Len(argv) \in Int
  BY Positions
<1>2. IsFiniteSet(Options(Methods))
  <2>1. IsFiniteSet(1..Len(argv))
    BY <1>1, FS_Interval
  <2> QED
    BY <1>1, <2>1, FS_Subset
<1> QED
  BY <1>2, FS_Singleton, Zenon

(* NEW and RC accept what is well formed, and nothing else.                *)
LEMMA StrictEnd ==
  ASSUME Lines, program \in {"NEW", "RC"}, NEW f, NEW p, ReadAt(Len(argv) + 1, f, p)
  PROVE  Judged(IF p # "none" /\ f # Absent THEN "good" ELSE "bad", f, p)
<1> DEFINE e == Len(argv) + 1
<1>1. /\ argv \in Seq(Tokens) /\ FileAt(e, f) /\ ChosenAt(Methods, e, p)
      /\ \A i, j \in Options(Methods) : i < e /\ j < e => i = j
      /\ NoneBefore(Options({"--help", "--message"}), e)
      /\ program = "NEW" => \A i \in Values : i < e => FileFits(argv[i])
      /\ program = "RC" => NoneBefore(Options({"--file"}) \cap {Len(argv)}, e)
  BY Zenon DEF Lines, ReadAt, StrictAt
<1>2. /\ \A i \in Values : i < e /\ argv[i] # Absent
      /\ \A texts : \A i \in Options(texts) : i \in Int /\ i < e /\ ~ (i >= e)
  BY <1>1, Positions, Words
<1>3. Options({"--help", "--message"}) = {}
  BY <1>1, <1>2, Zenon DEF NoneBefore
<1>4. program = "NEW" => \A i \in Values : FileFits(argv[i])
  BY <1>1, <1>2, Zenon
<1>5. program = "RC" => Len(argv) \notin Options({"--file"})
  BY <1>1, <1>2, Zenon DEF NoneBefore
<1>6. /\ Values = {} <=> f = Absent
      /\ Values # {} => f = argv[Max(Values)]
  BY <1>1, <1>2, FileAtEnd, Zenon
<1>7. CASE p = "none"
  <2>1. \A i \in Options(Methods) : argv[i].text \in Methods
    BY DEF Options
  <2>2. \A text \in Methods : Meant(text) # "none"
    BY DEF Methods, Meant
  <2>3. Options(Methods) = {}
    BY <1>1, <1>7, <2>1, <2>2, ChosenAtEnd, Zenon
  <2>4. ~WellFormed
    BY <1>1, <2>3, OneOption, Zenon DEF WellFormed
  <2> QED
    BY <1>7, <2>4 DEF Judged
<1>8. CASE p # "none"
  <2>1. PICK i \in Options(Methods) : p = Meant(argv[i].text)
    BY <1>1, <1>8, ChosenAtEnd, Zenon
  <2>2. Options(Methods) = {i}
    BY <1>1, <1>2, <2>1, Zenon
  <2>3. Max(Options(Methods)) = i
    <3>1. Options(Methods) \in SUBSET Int /\ \A k \in Options(Methods) : k <= i
      BY <1>2, <2>2
    <3> QED
      BY <2>1, <3>1, MaxIs
  <2>4. argv[i].text \in Methods
    BY <2>1 DEF Options
  <2>5. p = argv[i].text
    BY <2>1, <2>4 DEF Meant, Methods
  <2>6. WellFormed <=> f # Absent
    BY <1>1, <1>3, <1>4, <1>5, <1>6, <2>2, OneOption, Zenon DEF WellFormed
  <2>7. p = argv[Max(Options(Methods))].text
    BY <2>3, <2>5, Zenon
  <2>8. Methods \cup (IF program = "C" THEN {"--message"} ELSE {}) = Methods
    OBVIOUS
  <2>9. program # "Rust"
    OBVIOUS
  <2>10. CASE f = Absent
    BY <1>8, <2>6, <2>10 DEF Judged
  <2>11. CASE f # Absent
    <3>1. (IF p # "none" /\ f # Absent THEN "good" ELSE "bad") = "good"
      BY <1>8, <2>11
    <3>2. WellFormed
      BY <2>6, <2>11
    <3> QED
      BY <1>6, <2>7, <2>8, <2>9, <3>1, <3>2, Zenon DEF Judged
  <2> QED
    BY <2>10, <2>11
<1> QED
  BY <1>7, <1>8

(* In C the last of the methods counts, unless --help comes after it.      *)
LEMMA CEnds ==
  ASSUME Lines, program = "C", NEW f, NEW p, ReadAt(Len(argv) + 1, f, p)
  PROVE  Judged(CASE p = "none" -> "bad" [] p = "help" -> "help" [] OTHER -> "good", f, p)
<1> DEFINE texts == Methods \cup {"--message"}
           all == Methods \cup {"--message", "--help"}
<1>1. argv \in Seq(Tokens) /\ FileAt(Len(argv) + 1, f) /\ ChosenAt(all, Len(argv) + 1, p)
  BY Zenon DEF Lines, ReadAt
<1>2. CASE p = "none" \/ p = "help"
  BY <1>2 DEF Judged
<1>3. CASE p # "none" /\ p # "help"
  <2>1. PICK i \in Options(all) : (\A j \in Options(all) : j <= i) /\ p = Meant(argv[i].text)
    BY <1>1, <1>3, ChosenAtEnd, Zenon
  <2>2. p = argv[i].text /\ argv[i].text # "--help"
    BY <1>3, <2>1 DEF Meant
  <2>3. i \in Options(texts) /\ Options(texts) \subseteq Options(all)
    BY <2>1, <2>2 DEF Options
  <2>4. Options(texts) \in SUBSET Int
    BY <1>1, Positions
  <2>5. Max(Options(texts)) = i
    BY <2>1, <2>3, <2>4, MaxIs
  <2>6. Values # {} => f = argv[Max(Values)]
    BY <1>1, FileAtEnd, Zenon
  <2>7. Methods \cup (IF program = "C" THEN {"--message"} ELSE {}) = texts
    OBVIOUS
  <2>8. (CASE p = "none" -> "bad" [] p = "help" -> "help" [] OTHER -> "good") = "good"
    BY <1>3
  <2>9. program \notin {"NEW", "RC"} /\ program # "Rust"
    OBVIOUS
  <2> HIDE DEF texts
  <2> QED
    BY <2>2, <2>5, <2>6, <2>7, <2>8, <2>9, Zenon DEF Judged
<1> QED
  BY <1>2, <1>3

-----------------------------------------------------------------------------
(* The steps                                                               *)

(* Each refusal of a loop shows that the command line is not well formed.  *)
LEMMA Refused ==
  ASSUME Lines, program \in {"NEW", "RC"}, NEW n \in 1..Len(argv), NEW f, NEW p,
         ReadAt(n, f, p),
         \/ argv[n].text \in {"--help", "--message"}
         \/ argv[n].text \in Methods /\ p # "none"
         \/ /\ program = "NEW" /\ argv[n].text = "--file" /\ n < Len(argv)
            /\ ~FileFits(argv[n + 1])
         \/ program = "RC" /\ argv[n].text = "--file" /\ ~ (n < Len(argv))
  PROVE  ~WellFormed
<1>1. argv \in Seq(Tokens) /\ ~IsValue(n) /\ StrictAt(n, p)
  <2>1. n <= Len(argv)
    OBVIOUS
  <2> QED
    BY <2>1, Zenon DEF Lines, ReadAt
<1>2. CASE argv[n].text \in {"--help", "--message"}
  <2>1. n \in Options({"--help", "--message"})
    BY <1>1, <1>2, AtOption, Zenon
  <2> QED
    BY <2>1, Zenon DEF WellFormed
<1>3. CASE argv[n].text \in Methods /\ p # "none"
  <2>1. n \in Options(Methods)
    BY <1>1, <1>3, AtOption, Zenon
  <2>2. PICK i \in Options(Methods) : i < n
    BY <1>1, <1>3, Zenon DEF StrictAt, ChosenAt, LastBefore
  <2>3. i # n
    BY <2>2
  <2>4. ASSUME NEW j, Options(Methods) = {j} PROVE FALSE
    BY <2>1, <2>2, <2>3, <2>4
  <2> QED
    BY <1>1, <2>4, OneOption, Zenon DEF WellFormed
<1>4. CASE /\ program = "NEW" /\ argv[n].text = "--file" /\ n < Len(argv)
           /\ ~FileFits(argv[n + 1])
  <2>1. n + 1 \in Values
    BY <1>1, <1>4, AtOption, Zenon
  <2> QED
    BY <1>4, <2>1, Zenon DEF WellFormed
<1>5. CASE program = "RC" /\ argv[n].text = "--file" /\ ~ (n < Len(argv))
  <2>1. n = Len(argv)
    BY <1>1, <1>5
  <2>2. argv[n].text \in {"--file"}
    BY <1>5
  <2>3. n \in Options({"--file"})
    BY <1>1, <2>2, AtOption, Zenon
  <2> QED
    BY <1>5, <2>1, <2>3, Zenon DEF WellFormed
<1> QED
  BY <1>2, <1>3, <1>4, <1>5, Zenon

(* A verdict that is right for the line makes the property hold.           *)
LEMMA JudgedNext ==
  ASSUME argv' = argv, program' = program, Judged(parsed', filepath', protocol')
  PROVE  Understood'
<1>1. PICK r, f, p : r = parsed' /\ f = filepath' /\ p = protocol'
  OBVIOUS
<1>2. Judged(r, f, p)'
  BY <1>1, SameReading, Zenon
<1>3. Judged(r, f, p)' <=> Understood'
  BY <1>1, Zenon DEF Judged, Understood
<1> QED
  BY <1>2, <1>3, Zenon

(* Having read up to the next token is the invariant of the loop.          *)
LEMMA ReadNext ==
  ASSUME argv' = argv, program' = program, ReadAt(optind', filepath', protocol')
  PROVE  LoopInv'
<1>1. PICK n, f, p : n = optind' /\ f = filepath' /\ p = protocol'
  OBVIOUS
<1>2. ReadAt(n, f, p)'
  BY <1>1, SameReading, Zenon
<1>3. ReadAt(n, f, p)' => LoopInv'
  BY <1>1, Zenon DEF ReadAt, LoopInv
<1> QED
  BY <1>2, <1>3, Zenon

(* A result that is not "good" is right if the line is not well formed.    *)
LEMMA NotGood ==
  ASSUME NEW f, NEW p, NEW r \in {"none", "bad", "help"},
         program \in {"NEW", "RC"} /\ r # "none" => ~WellFormed
  PROVE  Judged(r, f, p)
<1>1. r # "good"
  OBVIOUS
<1> QED
  BY <1>1, Zenon DEF Judged

(* NEW ends the loop early only on lines that are not well-formed.         *)
LEMMA NewRefusals ==
  ASSUME Lines, LoopInv, NewOption, parsed' # "none"
  PROVE  parsed' \in {"help", "bad"} /\ ~WellFormed
<1>1. program = "NEW" /\ parsed = "none" /\ optind <= Len(argv)
  BY DEF NewOption, Reading
<1>2. optind \in 1..Len(argv) /\ ReadAt(optind, filepath, protocol)
  BY <1>1, AtToken
<1>3. /\ parsed' \in {"help", "bad"}
      /\ \/ Option.text \in {"--help", "--message"}
         \/ Option.text \in Methods /\ protocol # "none"
         \/ Option.text = "--file" /\ HasNext /\ ~FileFits(NextToken)
  BY <1>1 DEF NewOption, Parsed, Skip, Goon, TakeFile, NewMethodIsFirst
<1>4. \/ argv[optind].text \in {"--help", "--message"}
      \/ argv[optind].text \in Methods /\ protocol # "none"
      \/ /\ program = "NEW" /\ argv[optind].text = "--file" /\ optind < Len(argv)
         /\ ~FileFits(argv[optind + 1])
  BY <1>1, <1>3, Zenon DEF Option, HasNext, NextToken
<1> QED
  BY <1>1, <1>2, <1>3, <1>4, Refused

(* RC ends the loop early only on lines that are not well-formed.          *)
LEMMA RcRefusals ==
  ASSUME Lines, LoopInv, RcOption, parsed' # "none"
  PROVE  parsed' \in {"help", "bad"} /\ ~WellFormed
<1>1. program = "RC" /\ parsed = "none" /\ optind <= Len(argv)
  BY DEF RcOption, Reading
<1>2. optind \in 1..Len(argv) /\ ReadAt(optind, filepath, protocol)
  BY <1>1, AtToken
<1>3. /\ parsed' \in {"help", "bad"}
      /\ \/ Option.text \in {"--help", "--message"}
         \/ Option.text \in Methods /\ protocol # "none"
         \/ Option.text = "--file" /\ ~HasNext
  BY <1>1 DEF RcOption, Parsed, Skip, Take, Goon, TakeFile
<1>4. \/ argv[optind].text \in {"--help", "--message"}
      \/ argv[optind].text \in Methods /\ protocol # "none"
      \/ program = "RC" /\ argv[optind].text = "--file" /\ ~ (optind < Len(argv))
  BY <1>1, <1>3, Zenon DEF Option, HasNext
<1> QED
  BY <1>1, <1>2, <1>3, <1>4, Refused

(* After the last token nothing has been overlooked.                       *)
LEMMA AtLineEnd ==
  ASSUME Lines, LoopInv, parsed = "none", program # "Rust", optind > Len(argv)
  PROVE  ReadAt(Len(argv) + 1, filepath, protocol)
<1>1. ReadAt(optind, filepath, protocol)
  BY Zenon DEF LoopInv
<1>2. optind \in 1..(Len(argv) + 1)
  BY <1>1, Zenon DEF ReadAt
<1>3. optind = Len(argv) + 1
  BY <1>2 DEF Lines
<1> QED
  BY <1>1, <1>3, Zenon

(* Every step keeps the command line and the program.                      *)
LEMMA Asked ==
  ASSUME [Next]_vars PROVE argv' = argv /\ program' = program /\ role' = role
BY Zenon DEF Next, vars, asked, NewOption, NewEnd, NewRefuses, NewLaunch, RcOption, RcEnd,
     RcLaunch, COption, CEnd, CLaunch, RustOption, RustEnd, RustEndOfLoop, RustLaunch, Ended,
     Goon, Skip, Take, TakeFile, Parsed, Leave, SenderChecks

(* Every step keeps the invariant of the loop and the property.            *)
LEMMA ReadingStep ==
  ASSUME Lines, LoopInv, Understood, [Next]_vars
  PROVE  LoopInv' /\ Understood'
<1>1. argv' = argv /\ program' = program
  BY Asked
<1>2. Judged(parsed, filepath, protocol)
  BY UnderstoodIsJudged
<1>3. ASSUME UNCHANGED <<parsed, optind, protocol, filepath>> PROVE LoopInv' /\ Understood'
  <2>1. parsed # "none" \/ program = "Rust" \/ ReadAt(optind, filepath, protocol)
    BY Zenon DEF LoopInv
  <2>2. LoopInv'
    BY <1>1, <1>3, <2>1, ReadNext, Zenon DEF LoopInv
  <2> QED
    BY <1>1, <1>2, <1>3, <2>2, JudgedNext, Zenon
<1>4. ASSUME Judged(parsed', filepath', protocol'),
             parsed' = "none" => program = "Rust" \/ ReadAt(optind', filepath', protocol')
      PROVE  LoopInv' /\ Understood'
  <2>1. Understood'
    BY <1>1, <1>4, JudgedNext
  <2>2. LoopInv'
    BY <1>1, <1>4, ReadNext, Zenon DEF LoopInv
  <2> QED
    BY <2>1, <2>2
<1>5. ASSUME parsed' \in {"none", "bad", "help"},
             program \in {"NEW", "RC"} /\ parsed' # "none" => ~WellFormed
      PROVE  Judged(parsed', filepath', protocol')
  BY <1>5, NotGood
<1>6. CASE NewOption
  <2>1. program = "NEW"
    BY <1>6 DEF NewOption, Reading
  <2>2. parsed' # "none" => parsed' \in {"help", "bad"} /\ ~WellFormed
    BY <1>6, NewRefusals
  <2>3. parsed' = "none" => ReadAt(optind', filepath', protocol')
    BY <1>6, NewReads
  <2> QED
    BY <1>4, <1>5, <2>2, <2>3
<1>7. CASE RcOption
  <2>1. parsed' # "none" => parsed' \in {"help", "bad"} /\ ~WellFormed
    BY <1>7, RcRefusals
  <2>2. parsed' = "none" => ReadAt(optind', filepath', protocol')
    BY <1>7, RcReads
  <2> QED
    BY <1>4, <1>5, <2>1, <2>2
<1>8. CASE COption
  <2>1. program = "C" /\ parsed' = "none"
    BY <1>8 DEF COption, Reading, Skip, Take, TakeFile, Goon
  <2>2. ReadAt(optind', filepath', protocol')
    BY <1>8, CReads
  <2> QED
    BY <1>4, <1>5, <2>1, <2>2
<1>9. CASE NewEnd \/ RcEnd
  <2>1. program \in {"NEW", "RC"} /\ parsed = "none" /\ optind > Len(argv) /\ program # "Rust"
    BY <1>9 DEF NewEnd, RcEnd, AtEnd
  <2>2. ReadAt(Len(argv) + 1, filepath, protocol)
    BY <2>1, AtLineEnd
  <2>3. /\ parsed' = IF protocol # "none" /\ filepath # Absent THEN "good" ELSE "bad"
        /\ filepath' = filepath /\ protocol' = protocol
    BY <1>9, Zenon DEF NewEnd, RcEnd, Parsed
  <2>4. Judged(parsed', filepath', protocol')
    BY <2>1, <2>2, <2>3, StrictEnd, Zenon
  <2>5. parsed' # "none"
    BY <2>3
  <2> QED
    BY <1>4, <2>4, <2>5
<1>10. CASE CEnd
  <2>1. program = "C" /\ parsed = "none" /\ optind > Len(argv) /\ program # "Rust"
    BY <1>10 DEF CEnd, AtEnd
  <2>2. ReadAt(Len(argv) + 1, filepath, protocol)
    BY <2>1, AtLineEnd
  <2>3. /\ parsed' = CASE protocol = "none" -> "bad" [] protocol = "help" -> "help"
                       [] OTHER -> "good"
        /\ filepath' = filepath /\ protocol' = protocol
    BY <1>10 DEF CEnd, Parsed
  <2>4. Judged(parsed', filepath', protocol')
    BY <2>1, <2>2, <2>3, CEnds, Zenon
  <2>5. parsed' # "none"
    BY <2>3
  <2> QED
    BY <1>4, <2>4, <2>5
<1>11. CASE RustOption \/ RustEnd
  <2>1. program = "Rust" /\ parsed' \in {"none", "bad", "help"}
    BY <1>11 DEF RustOption, RustEnd, RustEndOfLoop, Reading, AtEnd, Goon, Take, Parsed
  <2> QED
    BY <1>4, <1>5, <2>1
<1>12. CASE NewRefuses \/ NewLaunch \/ RcLaunch \/ CLaunch \/ RustLaunch \/ Ended \/ UNCHANGED vars
  <2>1. UNCHANGED <<parsed, optind, protocol, filepath>>
    BY <1>12, Zenon DEF NewRefuses, NewLaunch, RcLaunch, CLaunch, RustLaunch, Ended, vars,
         Leave, SenderChecks
  <2> QED
    BY <1>3, <2>1
<1> QED
  BY <1>6, <1>7, <1>8, <1>9, <1>10, <1>11, <1>12, Zenon DEF Next

-----------------------------------------------------------------------------
(* Names of channels                                                       *)

(* The default names are taken by the system.                              *)
LEMMA DefaultTaken ==
  ASSUME NEW p \in Methods, p # "--pipe"
  PROVE  /\ SystemTakes(p, DefaultName[p])
         /\ DefaultName[p].lead /\ DefaultName[p].last = 0
<1>1. NameMax \in Nat /\ SemSuffix \in Nat /\ NameMax >= SemSuffix + 8
  BY ArgumentsAssumption
<1>2. CASE p = "--queue"
  <2>1. DefaultName[p] = Name("QueueIPC", TRUE, 9)
    BY <1>2 DEF DefaultName, Methods
  <2> QED
    BY <1>1, <1>2, <2>1 DEF SystemTakes, Name
<1>3. CASE p = "--shm"
  <2>1. DefaultName[p] = Name("ShmIPC", TRUE, 7)
    BY <1>3 DEF DefaultName, Methods
  <2> QED
    BY <1>1, <1>3, <2>1 DEF SystemTakes, Name
<1> QED
  BY <1>2, <1>3 DEF Methods

(* What becomes of a name that is asked for.                               *)
LEMMA CorrectedName ==
  ASSUME NEW p \in Methods, p # "--pipe", NEW w \in Tokens, Plausible(w)
  PROVE  LET c == correctingIPCName(p, w)
         IN  /\ c.lead /\ c.last = 0
             /\ w.length <= NameMax /\ SystemTakes(p, Slashed(w)) => c = Slashed(w)
             /\ SystemTakes(p, c) \/ c = Slashed(w)
<1>1. NameMax \in Nat
  BY ArgumentsAssumption
<1>2. w.last \in Int /\ w.last >= -1 /\ w.length \in Nat /\ (w.last = 0 => w.lead)
  BY DEF Tokens, Plausible
<1>3. CASE w.last > 0 \/ w.length > NameMax
  <2>1. correctingIPCName(p, w) = DefaultName[p]
    BY <1>1, <1>2, <1>3 DEF correctingIPCName, CorrectedUnlessLong
  <2>2. ~ (w.length <= NameMax /\ SystemTakes(p, Slashed(w)))
    <3>1. CASE w.last > 0
      <4>1. Slashed(w) = w /\ w.last # 0
        BY <1>2, <3>1 DEF Slashed
      <4> QED
        BY <4>1, Zenon DEF SystemTakes
    <3>2. CASE w.length > NameMax
      BY <1>1, <1>2, <3>2
    <3> QED
      BY <1>3, <3>1, <3>2
  <2> QED
    BY <2>1, <2>2, DefaultTaken, Zenon
<1>4. CASE w.last = -1 /\ w.length <= NameMax
  <2>1. correctingIPCName(p, w) = [w EXCEPT !.lead = TRUE, !.last = 0, !.length = @ + 1]
    BY <1>1, <1>2, <1>4 DEF correctingIPCName, CorrectedUnlessLong
  <2>2. correctingIPCName(p, w) = Slashed(w)
    BY <1>4, <2>1, Zenon DEF Slashed
  <2>3. correctingIPCName(p, w).lead /\ correctingIPCName(p, w).last = 0
    BY <2>1 DEF Tokens
  <2> QED
    BY <2>2, <2>3, Zenon
<1>5. CASE w.last = 0 /\ w.length <= NameMax
  <2>1. correctingIPCName(p, w) = w
    BY <1>1, <1>2, <1>5 DEF correctingIPCName, CorrectedUnlessLong
  <2>2. Slashed(w) = w
    BY <1>5 DEF Slashed
  <2> QED
    BY <1>2, <1>5, <2>1, <2>2, Zenon
<1> QED
  BY <1>1, <1>2, <1>3, <1>4, <1>5

(* Every step keeps what is said of the name of the channel.               *)
LEMMA ChannelStep ==
  ASSUME Lines, LoopInv, ChannelInv, [Next]_vars
  PROVE  ChannelInv'
<1>1. program' = program /\ argv' = argv
  BY Asked
<1>2. Options(Methods)' = Options(Methods) /\ \A n : Chosen(n)' = Chosen(n)
  <2>1. \A n : Chosen(n)' = Chosen(n)
    BY <1>1, Zenon DEF Chosen
  <2> QED
    BY <1>1, <2>1, SameLine, Zenon
<1> SUFFICES ASSUME program = "NEW" PROVE ChannelInv'
  BY <1>1 DEF ChannelInv
<1>3. CASE UNCHANGED <<protocol, channel>>
  BY <1>1, <1>2, <1>3, Zenon DEF ChannelInv
<1>4. CASE /\ Reading("NEW") /\ Option.text \in Methods
           /\ protocol' = Option.text
           /\ channel' = IF NextIsName THEN correctingIPCName(protocol', NextToken)
                         ELSE DefaultName[protocol']
  <2>1. optind \in 1..Len(argv) /\ ~IsValue(optind)
    <3>1. optind \in 1..Len(argv) /\ ReadAt(optind, filepath, protocol)
      BY <1>4, AtToken DEF Reading
    <3>2. optind <= Len(argv)
      BY <1>4, Zenon DEF Reading
    <3> QED
      BY <3>1, <3>2, Zenon DEF ReadAt
  <2>2. optind \in Options(Methods)
    BY <1>4, <2>1, AtOption, Zenon DEF Option, Lines
  <2>3. protocol' = argv[optind].text
    BY <1>4, Zenon DEF Option
  <2>4. channel' = Chosen(optind)
    BY <1>4, <2>3, Zenon DEF Chosen, NextIsName, HasNext, NextToken
  <2> QED
    BY <1>1, <1>2, <2>2, <2>3, <2>4, Zenon DEF ChannelInv
<1> QED
  <2>1. ~COption /\ ~CEnd /\ ~CLaunch /\ ~RcOption /\ ~RcEnd /\ ~RcLaunch
        /\ ~RustOption /\ ~RustEnd /\ ~RustLaunch
    BY DEF COption, CEnd, CLaunch, RcOption, RcEnd, RcLaunch, RustOption, RustEnd, RustLaunch,
         Reading, AtEnd
  <2>2. CASE NewOption
    BY <1>3, <1>4, <2>2, Zenon DEF NewOption, Skip, Parsed, TakeFile
  <2>3. CASE NewEnd \/ NewRefuses \/ NewLaunch \/ Ended \/ UNCHANGED vars
    BY <1>3, <2>3, Zenon DEF NewEnd, NewRefuses, NewLaunch, Ended, vars, Parsed, Leave, SenderChecks
  <2> QED
    BY <2>1, <2>2, <2>3, Zenon DEF Next

-----------------------------------------------------------------------------
(* The end of a program                                                    *)

(* A file is taken from the line.                                          *)
LEMMA FileStep ==
  ASSUME Lines, LoopInv, FileInv, [Next]_vars
  PROVE  FileInv'
<1>1. argv' = argv /\ program' = program
  BY Asked
<1>2. CASE filepath' = filepath
  BY <1>1, <1>2, Zenon DEF FileInv
<1>3. CASE filepath' = NextToken /\ optind \in Nat /\ HasNext
  <2>1. PICK k \in 1..Len(argv) : k = optind + 1
    BY <1>3 DEF HasNext, Lines
  <2>2. filepath' = argv[k]
    BY <1>3, <2>1, Zenon DEF NextToken
  <2> QED
    BY <1>1, <2>1, <2>2, Zenon DEF FileInv
<1>4. CASE program = "RC" /\ filepath' # filepath
  <2>1. HasNext /\ filepath' = NextToken /\ parsed = "none" /\ optind <= Len(argv)
    BY <1>4, Zenon DEF Next, vars, asked, NewOption, NewEnd, NewRefuses, NewLaunch, RcOption,
         RcEnd, RcLaunch, COption, CEnd, CLaunch, RustOption, RustEnd, RustEndOfLoop, RustLaunch,
         Ended, Goon, Skip, Take, TakeFile, Parsed, Leave, SenderChecks, Reading
  <2>2. optind \in Nat
    BY <1>4, <2>1, AtToken
  <2> QED
    BY <1>3, <2>1, <2>2
<1> QED
  BY <1>1, <1>2, <1>4, Asked DEF FileInv

(* A path that does not fit and may be there names a file in a directory   *)
(* by NAME_MAX characters.                                                 *)
LEMMA UnfitIsLongest ==
  ASSUME Lines, FileInv, program = "RC", ~FileFits(filepath), CanExist(filepath)
  PROVE  filepath.last >= 0 /\ filepath.length - filepath.last - 1 = NameMax
<1>1. NameMax \in Nat /\ PathMax \in Nat
  BY ArgumentsAssumption
<1>2. filepath.last \in Int /\ filepath.length \in Nat /\ filepath.last >= -1
      /\ filepath.last < filepath.length
  <2>1. CASE filepath = Absent
    <3>1. Absent.last = -1 /\ Absent.length = 0
      BY DEF Absent
    <3> QED
      BY <2>1, <3>1
  <2>2. CASE filepath # Absent
    <3>1. PICK i \in 1..Len(argv) : filepath = argv[i]
      BY <2>2, Zenon DEF FileInv
    <3>2. argv[i] \in Tokens /\ Plausible(argv[i])
      BY DEF Lines
    <3> QED
      BY <3>1, <3>2 DEF Tokens, Plausible
  <2> QED
    BY <2>1, <2>2
<1>3. PathRoom = PathMax
  BY DEF PathRoom
<1> QED
  BY <1>1, <1>2, <1>3 DEF FileFits, CanExist

(* No step removes a file it should spare.                                 *)
LEMMA FileSparedStep ==
  ASSUME Lines, FileInv, EndInv, FileSpared, [Next]_vars
  PROVE  FileSpared'
<1>1. CASE exit = "none" /\ ~NewRefuses /\ ~RcLaunch
  <2>1. copy = "untouched"
    BY <1>1 DEF EndInv
  <2>2. copy' = copy
    BY <1>1 DEF Next, vars, asked, NewOption, NewEnd, NewLaunch, RcOption, RcEnd,
         COption, CEnd, CLaunch, RustOption, RustEnd, RustEndOfLoop, RustLaunch, Ended,
         Goon, Skip, Take, TakeFile, Parsed, Leave, SenderChecks
  <2> QED
    BY <2>1, <2>2 DEF FileSpared
<1>2. CASE NewRefuses /\ exit = "none"
  <2>1. copy' = "removed" => SameName \/ copy = "removed"
    BY <1>2 DEF NewRefuses, Leave
  <2>2. copy # "removed"
    BY <1>2 DEF EndInv
  <2>3. program' = program /\ filepath' = filepath /\ channel' = channel /\ program = "NEW"
    BY <1>2, Zenon DEF NewRefuses, Leave, asked
  <2> QED
    BY <2>1, <2>2, <2>3, Zenon DEF FileSpared, SameName, Complete
<1>3. CASE RcLaunch /\ exit = "none"
  <2>1. copy' = "removed" => (~FileFits(filepath) /\ CanExist(filepath)) \/ copy = "removed"
    BY <1>3 DEF RcLaunch, Leave, SenderChecks
  <2>2. copy # "removed"
    BY <1>3 DEF EndInv
  <2>3. program' = program /\ filepath' = filepath /\ program = "RC"
    BY <1>3, Zenon DEF RcLaunch, Leave, SenderChecks, asked
  <2>4. CASE copy' # "removed"
    BY <2>4 DEF FileSpared
  <2>5. CASE copy' = "removed"
    <3>1. filepath.last >= 0 /\ filepath.length - filepath.last - 1 = NameMax
      BY <2>1, <2>2, <2>3, <2>5, UnfitIsLongest
    <3> QED
      BY <2>3, <3>1, Zenon DEF FileSpared
  <2> QED
    BY <2>4, <2>5
<1>4. CASE exit # "none"
  <2>1. UNCHANGED vars
    BY <1>4 DEF Next, NewOption, NewEnd, NewRefuses, NewLaunch, RcOption, RcEnd, RcLaunch,
         COption, CEnd, CLaunch, RustOption, RustEnd, RustLaunch, Ended, Reading, AtEnd
  <2> QED
    BY <2>1, Zenon DEF vars, FileSpared, Complete
<1> QED
  BY <1>1, <1>2, <1>3, <1>4

(* The unsigned numbers of the tests do not wrap around for the lengths    *)
(* and the disks there are.                                                *)
LEMMA EnoughIsEnough ==
  ASSUME NEW n \in 0..(Modulus \div 2 - 1), NEW free \in 0..(Modulus - 1)
  PROVE  /\ NewEnough(n, free) <=> n + BufferSize < free
         /\ RcEnough(n, free) <=> n + BufferSize < free
<1>1. BufferSize \in Nat /\ Modulus \in Nat /\ 0 < Modulus /\ BufferSize <= Modulus \div 2
  BY ArgumentsAssumption
<1>2. ASSUME NEW a \in Nat, a < Modulus PROVE a % Modulus = a
  BY <1>1, <1>2
<1>3. n + BufferSize \in Nat /\ n + BufferSize < Modulus
  BY <1>1
<1>4. (n + BufferSize) % Modulus = n + BufferSize
  BY <1>2, <1>3
<1>5. free >= BufferSize => (free - BufferSize) % Modulus = free - BufferSize
  <2> HAVE free >= BufferSize
  <2>1. free - BufferSize \in Nat /\ free - BufferSize < Modulus
    BY <1>1
  <2> QED
    BY <1>2, <2>1
<1>6. NewEnough(n, free) <=> n + BufferSize < free
  <2>1. CASE free >= BufferSize
    <3>1. NewEnough(n, free) <=> n < free - BufferSize
      BY <1>5, <2>1, Zenon DEF NewEnough
    <3> QED
      BY <1>1, <3>1
  <2>2. CASE ~ (free >= BufferSize)
    BY <1>1, <2>2 DEF NewEnough
  <2> QED
    BY <2>1, <2>2
<1> QED
  BY <1>4, <1>6 DEF RcEnough

(* Every step keeps what is said of the end of a program.                  *)
LEMMA EndStep ==
  ASSUME EndInv, SpaceChecked, [Next]_vars
  PROVE  EndInv' /\ SpaceChecked'
<1>0. BufferSize \in Nat /\ Modulus \in Nat
  BY ArgumentsAssumption
<1>1. CASE exit # "none"
  <2>1. UNCHANGED vars
    BY <1>1 DEF Next, NewOption, NewEnd, NewRefuses, NewLaunch, RcOption, RcEnd, RcLaunch,
         COption, CEnd, CLaunch, RustOption, RustEnd, RustLaunch, Ended, Reading, AtEnd
  <2> QED
    BY <2>1, Zenon DEF vars, EndInv, SpaceChecked
<1>2. CASE exit = "none" /\ exit' = "none"
  <2>1. UNCHANGED <<copy, size, space>>
    BY <1>2 DEF Next, vars, sizes, NewOption, NewEnd, NewRefuses, NewLaunch, RcOption, RcEnd,
         RcLaunch, COption, CEnd, CLaunch, RustOption, RustEnd, RustEndOfLoop, RustLaunch, Ended,
         Goon, Skip, Take, TakeFile, Parsed, Leave, SenderChecks
  <2> QED
    BY <1>2, <2>1 DEF EndInv, SpaceChecked
<1>3. CASE exit = "none" /\ exit' # "none"
  <2>1. EndInv'
    BY <1>3 DEF EndInv
  <2>2. CASE /\ program \in {"NEW", "RC"}
             /\ size' \in 0..(Modulus \div 2 - 1) /\ space' \in 0..(Modulus - 1)
             /\ exit' = IF enoughSpaceAvailable(size', space') THEN "launch" ELSE "failure"
    <3>1. PICK n \in 0..(Modulus \div 2 - 1), free \in 0..(Modulus - 1) :
            n = size' /\ free = space'
      BY <2>2
    <3>2. exit' = IF enoughSpaceAvailable(n, free) THEN "launch" ELSE "failure"
      BY <2>2, <3>1, Zenon
    <3>3. enoughSpaceAvailable(n, free) <=> n + BufferSize < free
      BY <2>2, EnoughIsEnough DEF enoughSpaceAvailable
    <3>4. exit' = "launch" => n + BufferSize < free
      BY <3>2, <3>3
    <3>5. exit' = "failure" => n + BufferSize >= free
      BY <1>0, <3>2, <3>3
    <3> QED
      BY <2>1, <3>1, <3>4, <3>5, Zenon DEF SpaceChecked
  <2>3. CASE /\ UNCHANGED sizes
             /\ exit' = "launch" => role' # "sender" \/ program' \notin {"NEW", "RC"}
    <3>1. size' = 0 /\ space' = 0
      BY <1>3, <2>3 DEF EndInv, sizes
    <3>2. size' + BufferSize >= space'
      <4>1. 0 + BufferSize >= 0
        BY <1>0
      <4> QED
        BY <3>1, <4>1, Zenon
    <3> QED
      BY <2>1, <2>3, <3>2, Zenon DEF SpaceChecked
  <2>4. program' = program /\ role' = role
    BY Asked
  <2>5. NewRefuses \/ NewLaunch \/ RcLaunch \/ CLaunch \/ RustLaunch
    BY <1>3 DEF Next, vars, NewOption, NewEnd, RcOption, RcEnd, COption, CEnd, RustOption,
         RustEnd, RustEndOfLoop, Ended, Goon, Skip, Take, TakeFile, Parsed
  <2>6. CASE NewRefuses \/ CLaunch \/ RustLaunch
    BY <2>3, <2>4, <2>6 DEF NewRefuses, CLaunch, RustLaunch, Leave
  <2>7. CASE NewLaunch
    BY <2>2, <2>3, <2>4, <2>7 DEF NewLaunch, Leave, SenderChecks
  <2>8. CASE RcLaunch
    BY <2>2, <2>3, <2>4, <2>8 DEF RcLaunch, Leave, SenderChecks
  <2> QED
    BY <2>5, <2>6, <2>7, <2>8
<1> QED
  BY <1>1, <1>2, <1>3

-----------------------------------------------------------------------------
(* The theorems                                                            *)

(* The invariant holds at the start.                                       *)
LEMMA ArgumentsInit == Init => ArgumentsInvariant
<1> SUFFICES ASSUME Init PROVE ArgumentsInvariant
  OBVIOUS
<1>1. Lines
  BY CommandLinesAssumption, Zenon DEF Init, Lines
<1>2. ReadAt(1, Absent, "none")
  <2>1. Values \subseteq 1..Len(argv) /\ \A texts : Options(texts) \subseteq 1..Len(argv)
    BY <1>1, Positions DEF Lines
  <2>2. \A S \in SUBSET (1..Len(argv)) : NoneBefore(S, 1) /\ \A i \in S : ~ (i < 1)
    BY DEF NoneBefore
  <2>3. 1 \in 1..(Len(argv) + 1)
    BY <1>1 DEF Lines
  <2>4. FileAt(1, Absent) /\ \A texts : ChosenAt(texts, 1, "none")
    BY <2>1, <2>2, Zenon DEF FileAt, ChosenAt
  <2>5. StrictAt(1, "none")
    BY <2>1, <2>2, <2>4, Zenon DEF StrictAt
  <2>6. NoneBefore(Options({"--file"}) \cap {Len(argv)}, 1)
    BY <2>1, <2>2
  <2> QED
    BY <2>1, <2>2, <2>3, <2>4, <2>5, <2>6, FirstIsNoValue, Zenon DEF ReadAt
<1>3. LoopInv
  BY <1>2, Zenon DEF Init, LoopInv
<1>4. Understood
  BY DEF Init, Understood
<1>5. ChannelInv /\ FileInv /\ EndInv /\ FileSpared /\ SpaceChecked
  BY DEF Init, ChannelInv, FileInv, EndInv, FileSpared, SpaceChecked
<1> QED
  BY <1>1, <1>3, <1>4, <1>5 DEF ArgumentsInvariant

(* Every step keeps the invariant.                                         *)
LEMMA ArgumentsStep == ArgumentsInvariant /\ [Next]_vars => ArgumentsInvariant'
<1> SUFFICES ASSUME ArgumentsInvariant, [Next]_vars PROVE ArgumentsInvariant'
  OBVIOUS
<1>1. /\ Lines /\ LoopInv /\ Understood /\ ChannelInv /\ FileInv /\ EndInv
      /\ FileSpared /\ SpaceChecked
  BY DEF ArgumentsInvariant
<1>2. Lines'
  BY <1>1, Asked, Zenon DEF Lines
<1>3. LoopInv' /\ Understood'
  BY <1>1, ReadingStep
<1>4. ChannelInv' /\ FileInv'
  BY <1>1, ChannelStep, FileStep
<1>5. EndInv' /\ SpaceChecked' /\ FileSpared'
  BY <1>1, EndStep, FileSparedStep
<1> QED
  BY <1>2, <1>3, <1>4, <1>5 DEF ArgumentsInvariant

(* What the loops know of the tokens they have passed, and what has been   *)
(* done so far, in every reachable state.                                  *)
THEOREM ArgumentsInvariantHolds == Spec => []ArgumentsInvariant
BY ArgumentsInit, ArgumentsStep, PTL DEF Spec

(* However long a command line is, NEW and RC accept it exactly if it has  *)
(* one method, a file and nothing unknown, and every program that goes on  *)
(* does so with the last file and the method that the line says.           *)
THEOREM UnderstoodHolds == Spec => []Understood
<1>1. ArgumentsInvariant => Understood
  BY DEF ArgumentsInvariant
<1> QED
  BY <1>1, ArgumentsInvariantHolds, PTL

(* However a queue or a shared memory of NEW is asked for, and whatever    *)
(* the limits on names are: a name the system takes is used as it is, and  *)
(* a name the system refuses is one that was asked for.                    *)
THEOREM NamesUsableHolds == Spec => []NamesUsable
<1>1. ArgumentsInvariant => NamesUsable
  <2> SUFFICES ASSUME ArgumentsInvariant, program = "NEW", parsed = "good", protocol # "--pipe"
               PROVE  NamesUsable
    BY DEF NamesUsable
  <2>1. Understood /\ ChannelInv /\ Lines /\ argv \in Seq(Tokens)
    BY DEF ArgumentsInvariant, Lines
  <2>2. PICK i : Options(Methods) = {i}
    <3>1. WellFormed
      BY <2>1 DEF Understood
    <3> QED
      BY <2>1, <3>1, OneOption DEF WellFormed, Lines
  <2>3. i \in 1..Len(argv) /\ i \in Int /\ argv[i].text \in Methods
    BY <2>1, <2>2, Positions DEF Options
  <2>4. Max(Options(Methods)) = i
    BY <2>2, <2>3, MaxIs
  <2>5. Methods \cup (IF program = "C" THEN {"--message"} ELSE {}) = Methods
    OBVIOUS
  <2>6. protocol = argv[i].text
    BY <2>1, <2>4, <2>5, Zenon DEF Understood
  <2>7. protocol # "none" /\ protocol \in Methods
    BY <2>3, <2>6 DEF Methods
  <2>8. channel = Chosen(i)
    BY <2>1, <2>2, <2>7, Zenon DEF ChannelInv
  <2>9. CASE i < Len(argv) /\ ~argv[i + 1].dash
    <3>1. PICK w : w = argv[i + 1]
      OBVIOUS
    <3>2. w \in Tokens /\ Plausible(w)
      <4>1. PICK k \in 1..Len(argv) : k = i + 1
        BY <2>3, <2>9
      <4> QED
        BY <2>1, <3>1, <4>1 DEF Lines
    <3>3. channel = correctingIPCName(protocol, w)
      BY <2>6, <2>8, <2>9, <3>1, Zenon DEF Chosen
    <3>4. /\ channel.lead /\ channel.last = 0
          /\ w.length <= NameMax /\ SystemTakes(protocol, Slashed(w)) => channel = Slashed(w)
          /\ SystemTakes(protocol, channel) \/ channel = Slashed(w)
      BY <2>7, <3>2, <3>3, CorrectedName, Zenon
    <3>5. NameAsked
      BY <2>4, <2>9, Zenon DEF NameAsked
    <3> QED
      BY <2>4, <3>1, <3>4, <3>5, Zenon DEF NamesUsable
  <2>10. CASE ~ (i < Len(argv) /\ ~argv[i + 1].dash)
    <3>1. channel = DefaultName[protocol]
      BY <2>6, <2>8, <2>10, Zenon DEF Chosen
    <3>2. ~NameAsked
      BY <2>4, <2>10, Zenon DEF NameAsked
    <3>3. SystemTakes(protocol, channel) /\ channel.lead /\ channel.last = 0
      BY <2>7, <3>1, DefaultTaken, Zenon
    <3> QED
      BY <3>1, <3>2, <3>3, Zenon DEF NamesUsable
  <2> QED
    BY <2>9, <2>10
<1> QED
  BY <1>1, ArgumentsInvariantHolds, PTL

(* A receiver that refuses its command line removes no file, except one of *)
(* NEW that has the name of its channel and one of RC that is named with   *)
(* its directory by exactly NAME_MAX characters.                           *)
THEOREM FileSparedHolds == Spec => []FileSpared
<1>1. ArgumentsInvariant => FileSpared
  BY DEF ArgumentsInvariant
<1> QED
  BY <1>1, ArgumentsInvariantHolds, PTL

(* A sender of NEW or RC goes on exactly if the disk has more than the     *)
(* file and a buffer, for every width of the unsigned numbers.             *)
THEOREM SpaceCheckedHolds == Spec => []SpaceChecked
<1>1. ArgumentsInvariant => SpaceChecked
  BY DEF ArgumentsInvariant
<1> QED
  BY <1>1, ArgumentsInvariantHolds, PTL
=============================================================================

----------------------------- MODULE Arguments -----------------------------
(***************************************************************************)
(* What the programs of the repository do with a command line, up to the   *)
(* launch of a session: the loops over the options, the corrected name of  *)
(* the channel, and the checks of the path and of the free space.  A token *)
(* is what the parsers look at: its text (without the current directory or *)
(* the slash in front), whether it begins with a dash or with a slash, the *)
(* place of its last slash (-1 without one, 0 the first character) and its *)
(* length.                                                                 *)
(***************************************************************************)
EXTENDS Integers, Sequences, FiniteSets, FiniteSetsExt

CONSTANTS
  CommandLines,   (* the sequences of tokens that are tried                 *)
  NameMax,        (* NAME_MAX                                               *)
  PathMax,        (* PATH_MAX                                               *)
  CwdLength,      (* the length of the current directory                    *)
  SemSuffix,      (* what a semaphore's name needs beside that of the       *)
                  (* channel: "receiverSem" and the "sem." of the system    *)
  BufferSize,     (* what is kept free beside the file                      *)
  Modulus         (* size_t counts modulo this, a length is below its half  *)

Methods == {"--queue", "--pipe", "--shm"}
OptionTexts == Methods \cup {"--help", "--file", "--message"}
Absent == [text |-> "", dash |-> FALSE, lead |-> FALSE, last |-> -1, length |-> 0]

(* No argument is empty; what begins with a dash is an option, and what    *)
(* has its last slash in front begins with it.                             *)
Tokens ==
  [text : STRING, dash : BOOLEAN, lead : BOOLEAN, last : Int, length : Nat]
Plausible(w) ==
  /\ w # Absent
  /\ w.dash <=> w.text \in OptionTexts
  /\ w.last >= -1 /\ (w.last = 0 => w.lead) /\ w.last < w.length

ASSUME ArgumentsAssumption ==
  /\ {NameMax, PathMax, CwdLength, SemSuffix, BufferSize, Modulus} \subseteq Nat
  /\ NameMax >= SemSuffix + 8 /\ CwdLength < PathMax
  /\ 0 < Modulus /\ BufferSize <= Modulus \div 2
ASSUME CommandLinesAssumption ==
  \A line \in CommandLines :
    line \in Seq(Tokens) /\ \A i \in DOMAIN line : Plausible(line[i])

VARIABLES
  program,        (* which of the programs, and of their two ends           *)
  role,
  argv,
  optind,         (* the next token                                         *)
  protocol,
  filepath,
  channel,        (* the name of the channel of the protocol                *)
  parsed,         (* how the loop over the options ended                    *)
  exit,           (* what comes after it                                    *)
  copy,           (* what becomes of a file that has the receiver's path    *)
  size, space     (* the length of the source, the free bytes of the disk   *)

vars == <<program, role, argv, optind, protocol, filepath, channel, parsed, exit,
          copy, size, space>>
asked == <<program, role, argv>>
sizes == <<size, space>>

Name(text, lead, length) ==
  [text |-> text, dash |-> FALSE, lead |-> lead, last |-> IF lead THEN 0 ELSE -1,
   length |-> length]
DefaultName ==
  [m \in Methods |->
     CASE m = "--queue" -> Name("QueueIPC", TRUE, 9)
       [] m = "--pipe" -> Name("PipeIPC", FALSE, 7)
       [] m = "--shm" -> Name("ShmIPC", TRUE, 7)]

Init ==
  /\ program \in {"NEW", "RC", "C", "Rust"} /\ role \in {"sender", "receiver"}
  /\ argv \in CommandLines /\ optind = 1
  /\ protocol = "none" /\ filepath = Absent /\ channel = Absent
  /\ parsed = "none" /\ exit = "none"
  /\ copy = "untouched" /\ size = 0 /\ space = 0

-----------------------------------------------------------------------------
(* One round of a loop over the options *)

Option == argv[optind]
HasNext == optind < Len(argv)
NextToken == argv[optind + 1]
NextIsName == HasNext /\ ~NextToken.dash

Reading(p) == program = p /\ parsed = "none" /\ exit = "none" /\ optind <= Len(argv)
AtEnd(p) == program = p /\ parsed = "none" /\ exit = "none" /\ optind > Len(argv)

Goon(n) ==
  /\ optind' = optind + n
  /\ UNCHANGED <<asked, parsed, exit, copy, sizes>>
Skip(n) == Goon(n) /\ UNCHANGED <<protocol, filepath, channel>>
Take(n, p) == Goon(n) /\ protocol' = p /\ UNCHANGED <<filepath, channel>>
TakeFile == Goon(2) /\ filepath' = NextToken /\ UNCHANGED <<protocol, channel>>
Parsed(result) ==
  /\ parsed' = result
  /\ UNCHANGED <<asked, optind, protocol, filepath, channel, exit, copy, sizes>>
(* The program ends, or its session begins; the receiver of NEW and RC may *)
(* remove its file in a handler of exceptions.                             *)
Leave(how, removing) ==
  /\ exit' = how
  /\ copy' = IF removing THEN "removed" ELSE copy
  /\ UNCHANGED <<asked, optind, protocol, filepath, channel, parsed>>

(* checkFilePath, which counts the slash in front of a name.               *)
PathRoom == IF program = "NEW" THEN PathMax - CwdLength ELSE PathMax
FileFits(w) ==
  IF w.last = -1 THEN w.length <= NameMax
  ELSE w.length - w.last <= NameMax /\ w.last <= PathRoom

(* NEW: a queue or shared memory has one slash, the first character.       *)
CorrectedUnlessLong(p, w) ==
  CASE w.length > NameMax -> DefaultName[p]
    [] w.length <= NameMax /\ p # "--pipe" /\ w.last = -1 ->
         [w EXCEPT !.lead = TRUE, !.last = 0, !.length = @ + 1]
    [] OTHER -> w
correctingIPCName(p, w) ==
  IF p # "--pipe" /\ w.last > 0 THEN DefaultName[p] ELSE CorrectedUnlessLong(p, w)

NewMethodIsAllowed == TRUE
NewMethodIsFirst == protocol = "none"
NewOption ==
  /\ Reading("NEW")
  /\ \/ ~Option.dash /\ Skip(1)
     \/ Option.text = "--help" /\ Parsed("help")
     \/ /\ Option.text \in Methods /\ NewMethodIsFirst
        /\ Goon(IF NextIsName THEN 2 ELSE 1)
        /\ protocol' = Option.text
        /\ channel' = IF NextIsName THEN correctingIPCName(protocol', NextToken)
                      ELSE DefaultName[protocol']
        /\ UNCHANGED filepath
     \/ Option.text \in Methods /\ ~NewMethodIsFirst /\ Parsed("bad")
     \/ /\ Option.text = "--file" /\ HasNext
        /\ IF FileFits(NextToken) THEN TakeFile ELSE Parsed("bad")
     \/ Option.text = "--file" /\ ~HasNext /\ Skip(1)
     \/ Option.text = "--message" /\ Parsed("bad")
NewEnd ==
  /\ AtEnd("NEW")
  /\ Parsed(IF protocol # "none" /\ filepath # Absent THEN "good" ELSE "bad")

(* RC: a second method overwrites the first one by TOOMUCHARG.             *)
RcOption ==
  /\ Reading("RC")
  /\ \/ ~Option.dash /\ Skip(1)
     \/ Option.text = "--help" /\ Parsed("help")
     \/ Option.text \in Methods /\ protocol = "none" /\ Take(1, Option.text)
     \/ Option.text \in Methods /\ protocol # "none" /\ Parsed("bad")
     \/ Option.text = "--file" /\ HasNext /\ TakeFile
     \/ Option.text = "--file" /\ ~HasNext /\ Parsed("bad")
     \/ Option.text = "--message" /\ Parsed("bad")
RcEnd ==
  /\ AtEnd("RC")
  /\ Parsed(IF protocol # "none" /\ filepath # Absent THEN "good" ELSE "bad")

(* C: the last method or --help counts, and what is unknown is skipped.    *)
COption ==
  /\ Reading("C")
  /\ \/ ~Option.dash /\ Skip(1)
     \/ Option.text = "--file" /\ ~HasNext /\ Skip(1)
     \/ Option.text = "--help" /\ Take(1, "help")
     \/ Option.text \in Methods \cup {"--message"} /\ Take(1, Option.text)
     \/ Option.text = "--file" /\ HasNext /\ TakeFile
CEnd ==
  /\ AtEnd("C")
  /\ Parsed(CASE protocol = "none" -> "bad" [] protocol = "help" -> "help"
              [] OTHER -> "good")

(* Rust: only a missing file, or a word where an option is expected, ends  *)
(* the loop early.  No method is implemented, so that all but the help is  *)
(* an error.                                                               *)
RustEndOfLoop == Parsed(IF protocol = "help" THEN "help" ELSE "bad")
RustOption ==
  /\ Reading("Rust")
  /\ \/ Option.text = "--help" /\ Take(1, "help")
     \/ /\ Option.text \in Methods
        /\ Goon(IF NextIsName THEN 2 ELSE 1)
        /\ protocol' = Option.text
        /\ channel' = IF NextIsName THEN NextToken ELSE channel
        /\ UNCHANGED filepath
     \/ /\ Option.text = "--file" /\ NextIsName
        /\ Goon(2) /\ filepath' = NextToken
        /\ protocol' = IF protocol = "none" THEN "methodMissing" ELSE protocol
        /\ UNCHANGED channel
     \/ Option.text = "--file" /\ ~NextIsName /\ Parsed("bad")
     \/ (~Option.dash \/ Option.text = "--message") /\ RustEndOfLoop
RustEnd == AtEnd("Rust") /\ RustEndOfLoop

-----------------------------------------------------------------------------
(* After the loop *)

(* enoughSpaceAvailable of NEW and of RC, with unsigned arithmetic.        *)
NewEnoughUnguarded(n, free) == n < (free - BufferSize) % Modulus
NewEnough(n, free) == free >= BufferSize /\ n < (free - BufferSize) % Modulus
RcEnough(n, free) == (n + BufferSize) % Modulus < free

enoughSpaceAvailable(n, free) ==
  IF program = "NEW" THEN NewEnough(n, free) ELSE RcEnough(n, free)

(* The sender looks for its file, then for the space a copy needs.         *)
SenderChecks ==
  /\ role = "sender"
  /\ \/ Leave("failure", FALSE) /\ UNCHANGED sizes
     \/ /\ size' \in 0..(Modulus \div 2 - 1) /\ space' \in 0..(Modulus - 1)
        /\ Leave(IF enoughSpaceAvailable(size', space') THEN "launch" ELSE "failure", FALSE)

(* compareFileNames compares two names after the current directory, which  *)
(* can be looked up.  It does not ask what the names stand for.            *)
Complete(w) ==
  IF w.lead THEN w
  ELSE [w EXCEPT !.lead = TRUE, !.length = @ + CwdLength + 1,
                 !.last = IF @ = -1 THEN CwdLength ELSE @ + CwdLength + 1]
SameName == Complete(filepath) = Complete(channel)

NewRefusesAndRemoves ==
  /\ program = "NEW" /\ exit = "none"
  /\ \/ parsed = "bad" /\ Leave("failure", role = "receiver" /\ filepath # Absent)
     \/ parsed = "good" /\ SameName /\ Leave("failure", role = "receiver")
  /\ UNCHANGED sizes
NewRefuses ==
  /\ program = "NEW" /\ exit = "none"
  /\ \/ parsed = "bad" /\ Leave("failure", FALSE)
     \/ parsed = "good" /\ SameName /\ Leave("failure", role = "receiver")
  /\ UNCHANGED sizes
NewLaunch ==
  /\ program = "NEW" /\ exit = "none"
  /\ \/ parsed = "help" /\ Leave("success", FALSE) /\ UNCHANGED sizes
     \/ /\ parsed = "good" /\ ~SameName
        /\ \/ SenderChecks
           \/ role = "receiver" /\ Leave("launch", FALSE) /\ UNCHANGED sizes

(* The help of RC is a failure.  The receiver checks the path where an     *)
(* exception makes it remove the file, which may be there if the system    *)
(* takes the path.                                                         *)
CanExist(w) == w.length - w.last - 1 <= NameMax /\ w.length < PathMax
RcLaunch ==
  /\ program = "RC" /\ exit = "none"
  /\ \/ parsed \in {"bad", "help"} /\ Leave("failure", FALSE) /\ UNCHANGED sizes
     \/ parsed = "good" /\ SenderChecks
     \/ /\ parsed = "good" /\ role = "receiver"
        /\ Leave(IF FileFits(filepath) THEN "launch" ELSE "failure",
                 ~FileFits(filepath) /\ CanExist(filepath))
        /\ UNCHANGED sizes

(* Without --file the name is an uninitialized pointer.                    *)
CLaunch ==
  /\ program = "C" /\ exit = "none"
  /\ \/ parsed = "bad" /\ Leave("failure", FALSE)
     \/ parsed = "help" /\ Leave("success", FALSE)
     \/ /\ parsed = "good"
        /\ \E how \in IF filepath = Absent THEN {"launch", "failure", "crash"}
                       ELSE {"launch"} :
             Leave(how, FALSE)
  /\ UNCHANGED sizes

RustLaunch ==
  /\ program = "Rust" /\ exit = "none"
  /\ \/ parsed = "bad" /\ Leave("failure", FALSE)
     \/ parsed = "help" /\ Leave("success", FALSE)
  /\ UNCHANGED sizes

Ended == exit # "none" /\ UNCHANGED vars

Next ==
  \/ NewOption \/ NewEnd \/ NewRefuses \/ NewLaunch
  \/ RcOption \/ RcEnd \/ RcLaunch
  \/ COption \/ CEnd \/ CLaunch
  \/ RustOption \/ RustEnd \/ RustLaunch
  \/ Ended

Spec == Init /\ [][Next]_vars

-----------------------------------------------------------------------------
(* Properties.  A command line is read as a whole: the token after --file  *)
(* is its value even if it looks like an option, and the other tokens that *)
(* look like one are options.                                              *)

IsValue(i) ==
  \E k \in 1..(i - 1) :
    /\ k % 2 = 1
    /\ \A j \in (i - k)..(i - 1) : argv[j].text = "--file"
    /\ k < i - 1 => argv[i - k - 1].text # "--file"
Values == {i \in DOMAIN argv : IsValue(i)}
Options(texts) == {i \in DOMAIN argv \ Values : argv[i].text \in texts}
WellFormed ==
  /\ Cardinality(Options(Methods)) = 1
  /\ Options({"--help", "--message"}) = {}
  /\ Values # {}
  /\ program = "NEW" => \A i \in Values : FileFits(argv[i])
  /\ program = "RC" => Len(argv) \notin Options({"--file"})

(* A session begins only with what the command line says: in NEW and RC    *)
(* exactly one method and nothing unknown are accepted, and every such     *)
(* line is; in C the last method counts; Rust launches nothing.  The file  *)
(* is the last one named.                                                  *)
Understood ==
  /\ program \in {"NEW", "RC"} /\ parsed # "none" => (parsed = "good" <=> WellFormed)
  /\ parsed = "good" =>
       /\ program # "Rust"
       /\ Values # {} => filepath = argv[Max(Values)]
       /\ LET methods == Options(Methods \cup
                                IF program = "C" THEN {"--message"} ELSE {})
          IN  protocol = argv[Max(methods)].text

(* What mq_open takes, and shm_open with a sem_open for each semaphore: a  *)
(* slash, and then a name that is neither empty nor too long.              *)
SystemTakes(p, w) ==
  /\ w.lead /\ w.last = 0
  /\ w.length - 1 \in 1..(IF p = "--shm" THEN NameMax - SemSuffix ELSE NameMax)

(* A name as it is asked for, with a slash in front if it has none.        *)
Slashed(w) ==
  IF w.last = -1 THEN [w EXCEPT !.lead = TRUE, !.last = 0, !.length = @ + 1] ELSE w
NameAsked == LET m == Max(Options(Methods)) IN m < Len(argv) /\ ~argv[m + 1].dash

(* A queue or a shared memory of NEW has the name that is asked for, with  *)
(* a slash in front, if the system takes that and it is written with at    *)
(* most NAME_MAX characters.  Any other session has either the default     *)
(* name, which the system takes, or a name that was asked for with no      *)
(* slash but the first: what the system refuses is never of the program's  *)
(* making.                                                                 *)
NamesUsable ==
  program = "NEW" /\ parsed = "good" /\ protocol # "--pipe" =>
    /\ channel.lead /\ channel.last = 0
    /\ IF NameAsked
       THEN LET name == argv[Max(Options(Methods)) + 1]
            IN  /\ name.length <= NameMax /\ SystemTakes(protocol, Slashed(name)) =>
                     channel = Slashed(name)
                /\ SystemTakes(protocol, channel) \/ channel = Slashed(name)
       ELSE channel = DefaultName[protocol] /\ SystemTakes(protocol, channel)

(* A receiver that refuses its command line leaves the file alone, with    *)
(* two exceptions: a file of NEW that has the name of the channel, and one *)
(* of RC that is written with a directory and whose name has exactly       *)
(* NAME_MAX characters.                                                    *)
FileSpared ==
  copy = "removed" =>
    \/ program = "NEW" /\ Complete(filepath) = Complete(channel)
    \/ program = "RC" /\ filepath.last >= 0 /\ filepath.length - filepath.last - 1 = NameMax

(* A sender that finds its file goes on exactly if the disk has more than  *)
(* the file and a buffer, though the test uses unsigned numbers.           *)
SpaceChecked ==
  parsed = "good" /\ role = "sender" /\ program \in {"NEW", "RC"} =>
    /\ exit = "launch" => size + BufferSize < space
    /\ exit = "failure" => size + BufferSize >= space
=============================================================================

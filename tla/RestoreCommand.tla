---------------------------- MODULE RestoreCommand ----------------------------
(***************************************************************************)
(* The C entry point that native-restore.ts links into a standalone binary *)
(* built --with-restore: main, sb_cli_restore_dispatch, its walk over the  *)
(* arguments and its reading of a transaction id as an unsigned 64-bit     *)
(* number.                                                                 *)
(*                                                                         *)
(* An argument is its name and, as its text, the value of every character  *)
(* minus that of "0"; what is not a digit is above 9, as unsigned.         *)
(***************************************************************************)
EXTENDS Naturals, Sequences

CONSTANTS
  MaxTxid,    \* UINT64_MAX
  Texts,      \* texts of values
  Lines       \* command lines, argv[1] first

ASSUME MaxAssumption == MaxTxid \in Nat /\ MaxTxid >= 9
ASSUME TextsAssumption == Texts \subseteq Seq(Nat)

Flag == {"--generation", "--output", "--txid"}
Name == Flag \cup {"ltx-restore", "--help", "value", "long value"}

Argument == [name : Name, text : Texts \cup {<<10>>}]

ASSUME LinesAssumption == Lines \subseteq Seq(Argument)

VARIABLES
  dpc,      \* where the dispatcher is
  argv, word,  \* the arguments and the one that is looked at
  taken,    \* the value of each flag: source, output and target
  mark,        \* the character of target that is looked at
  value,    \* what has been read so far, in 64 bits
  exact     \* the same in full; of the property, not of the code

restoreVars == <<dpc, argv, word, taken, mark, value, exact>>

Absent == [name |-> "value", text |-> <<>>]

RestoreInit ==
  /\ dpc = "start"
  /\ argv \in Lines
  /\ word = 2 /\ mark = 1
  /\ taken = [f \in Flag |-> Absent]
  /\ value = 0 /\ exact = 0

Goes(from, to) == dpc = from /\ dpc' = to

ForRestore == argv # <<>> /\ argv[1].name = "ltx-restore"
AsksHelp == Len(argv) = 2 /\ argv[2].name = "--help"

\* Not for the dispatcher: the application's own main.
Application ==
  /\ ~ForRestore
  /\ Goes("start", "app")
  /\ UNCHANGED <<argv, word, taken, mark, value, exact>>

Help ==
  /\ ForRestore /\ AsksHelp
  /\ Goes("start", "help")
  /\ UNCHANGED <<argv, word, taken, mark, value, exact>>

Dispatches ==
  /\ ForRestore /\ ~AsksHelp
  /\ Goes("start", "words")
  /\ UNCHANGED <<argv, word, taken, mark, value, exact>>

\* A flag that has no value yet, followed by a value that is not empty.
IsPair ==
  /\ word + 1 \in DOMAIN argv /\ argv[word + 1].text # <<>>
  /\ argv[word].name \in Flag /\ taken[argv[word].name].text = <<>>

TakePair ==
  /\ word <= Len(argv) /\ IsPair
  /\ Goes("words", "words")
  /\ taken' = [taken EXCEPT ![argv[word].name] = argv[word + 1]]
  /\ word' = word + 2
  /\ UNCHANGED <<argv, mark, value, exact>>

NoPair ==
  /\ word <= Len(argv) /\ ~IsPair
  /\ Goes("words", "usage")
  /\ UNCHANGED <<argv, word, taken, mark, value, exact>>

\* Both directories are needed, and must fit a path.
Complete == \A f \in {"--generation", "--output"} :
  taken[f].text # <<>> /\ taken[f].name # "long value"

WordsEnd ==
  /\ word > Len(argv)
  /\ Goes("words", IF ~Complete THEN "usage"
                    ELSE IF taken["--txid"].text = <<>> THEN "set" ELSE "digits")
  /\ UNCHANGED <<argv, word, taken, mark, value, exact>>

Target == taken["--txid"].text

\* Mutant: the digit is left out of the check.
FitsAlmost(digit) == digit <= 9 /\ value <= MaxTxid \div 10

\* UINT64_MAX - digit is taken only of a digit.
Fits(digit) == digit <= 9 /\ value <= (MaxTxid - digit) \div 10

TakeDigit ==
  /\ mark <= Len(Target) /\ Fits(Target[mark])
  /\ Goes("digits", "digits")
  /\ value' = (value * 10 + Target[mark]) % (MaxTxid + 1)
  /\ exact' = exact * 10 + Target[mark]
  /\ mark' = mark + 1
  /\ UNCHANGED <<argv, word, taken>>

RefuseDigit ==
  /\ mark <= Len(Target) /\ ~Fits(Target[mark])
  /\ Goes("digits", "usage")
  /\ UNCHANGED <<argv, word, taken, mark, value, exact>>

DigitsEnd ==
  /\ mark > Len(Target)
  /\ Goes("digits", IF value = 0 THEN "usage" ELSE "set")
  /\ UNCHANGED <<argv, word, taken, mark, value, exact>>

\* setenv and dup, then the restore; or one of them fails.
Restore ==
  /\ Goes("set", "restoring") \/ Goes("set", "failed")
  /\ UNCHANGED <<argv, word, taken, mark, value, exact>>

RestoreNext ==
  \/ Application \/ Help \/ Dispatches \/ TakePair \/ NoPair \/ WordsEnd
  \/ TakeDigit \/ RefuseDigit \/ DigitsEnd \/ Restore

RestoreSpec == RestoreInit /\ [][RestoreNext]_restoreVars

-----------------------------------------------------------------------------
\* The number that is used is the one that was written, although the code
\* counts in 64 bits, and is at least 1; a number is refused only if it has
\* another character, or is 0, or has a beginning that is too great.
\* A restore has both directories.
TargetExact ==
  /\ value = exact
  /\ dpc \in {"set", "restoring"} =>
       /\ Complete
       /\ Target # <<>> => exact \in 1..MaxTxid /\ mark > Len(Target)
  /\ dpc = "usage" /\ Complete /\ word > Len(argv) =>
       \/ exact = 0 /\ mark > Len(Target)
       \/ mark <= Len(Target) /\ (Target[mark] > 9 \/ exact * 10 + Target[mark] > MaxTxid)

=============================================================================

------------------------------ MODULE ArgParser ------------------------------
(***************************************************************************)
(* ArgParser: options are looked up one by one in the command line, each   *)
(* marking the words it takes; what is left over at the end is an error.   *)
(*                                                                         *)
(* A word is its leading dashes and its text.  An option is its key and    *)
(* flag ("" for none), its type ("void" for an indicator) and its default  *)
(* value (<<>> for none, or a sequence of one).                            *)
(*                                                                         *)
(* What the standard library reads of a word is given by two tables: stoi  *)
(* and stof convert the number in front of a text ("20", "3x", "1.5" is 1  *)
(* to stoi) and say nothing of what follows it; they throw at a text that  *)
(* is not in the table, for it has no number in front or one out of range. *)
(***************************************************************************)
EXTENDS Integers, SequencesExt

CONSTANTS
    INT_MAX,  \* the largest int
    stoi,     \* the texts std::stoi converts, to the number in front of them
    stof      \* the texts std::stof converts, to the fraction in front of them

ASSUME NumbersAssumption ==
    /\ INT_MAX \in Nat
    /\ \A text \in DOMAIN stoi : stoi[text] \in -(INT_MAX + 1) .. INT_MAX

Word == [dashes : 0 .. 2, text : STRING]

getFlag(flag) == [dashes |-> 1, text |-> flag]
getKey(key) == [dashes |-> 2, text |-> key]

\* A word with a leading dash is no value; a number below 0 has a blank in front.
isValue(arg) == arg.dashes = 0

HelpWords == {getKey("help"), getFlag("h")}

\* m_argv without the program's name, and what the constructor makes of it.
NewParser(argv) ==
    [argv |-> argv,
     m_checked |-> [i \in DOMAIN argv |-> FALSE],
     m_help |-> \E i \in DOMAIN argv : argv[i] \in HelpWords,
     m_unique_keys |-> {"help"},
     m_unique_flags |-> {"h"}]

\* to<T>, where it returns: nothing asks whether all of the word was converted.
converts(type, text) ==
    CASE type = "uint32_t" -> text \in DOMAIN stoi
      [] type = "float" -> text \in DOMAIN stof
      [] OTHER -> TRUE

\* What it returns: a negative int is cast to uint32_t.
to(type, text) ==
    CASE type = "uint32_t" -> stoi[text] % (2 * (INT_MAX + 1))
      [] type = "float" -> stof[text]
      [] OTHER -> text

\* An Argument: m_valid, and m_arg if it was ever set.
NotGiven == [m_valid |-> FALSE, m_arg |-> <<>>]
Indicated == [m_valid |-> TRUE, m_arg |-> <<>>]
Given(v) == [m_valid |-> TRUE, m_arg |-> <<v>>]

\* The word i is an option's.
Names(option, arg) ==
    \/ option.flag # "" /\ arg = getFlag(option.flag)
    \/ option.key # "" /\ arg = getKey(option.key)

\* The assertions on a program's options: no key or flag twice.
IsNewOption(parser, option) ==
    option.key \notin parser.m_unique_keys /\ option.flag \notin parser.m_unique_flags

Documented(parser, option) ==
    [parser EXCEPT !.m_unique_keys = @ \cup ({option.key} \ {""}),
                   !.m_unique_flags = @ \cup ({option.flag} \ {""})]

Checked(parser, words) == [parser EXCEPT !.m_checked = [i \in DOMAIN @ |-> @[i] \/ i \in words]]

\* Slip seen by AnswersFollowTheCommandLine: the value is not marked.
SlotWithoutValue(option, i) == {i}

\* The words an option takes.
Slot(option, i) == IF option.type = "void" THEN {i} ELSE {i, i + 1}

\* The option was found at word i: an indicator is answered, anything else
\* asserts that a value follows, and converts it.
Taken(parser, option, i) ==
    LET after == Checked(parser, Slot(option, i))
        ends(outcome) == [parser |-> after, argument |-> NotGiven, outcome |-> outcome]
        answer(argument) == [parser |-> after, argument |-> argument, outcome |-> "parsed"]
    IN  IF option.type = "void" THEN answer(Indicated)
        ELSE IF i = Len(parser.argv) \/ ~ isValue(parser.argv[i + 1]) THEN ends("exit 1")
        ELSE IF ~ converts(option.type, parser.argv[i + 1].text) THEN ends("abort")
        ELSE answer(Given(to(option.type, parser.argv[i + 1].text)))

\* One parse() of a program: the option, its documentation left out.
Option(key, flag, type, default) == [key |-> key, flag |-> flag, type |-> type, default |-> default]

\* What an option was answered, of the answers in the order of the options.
Answer(options, answered, key) == answered[CHOOSE k \in DOMAIN options : options[k].key = key]

\* _parse: the first word that was not taken yet and names the option.
_parse(parser, option) ==
    LET documented == Documented(parser, option)
        found == {i \in DOMAIN parser.argv : ~ parser.m_checked[i] /\ Names(option, parser.argv[i])}
        answer(argument) == [parser |-> documented, argument |-> argument, outcome |-> "parsed"]
    IN  IF ~ IsNewOption(parser, option) THEN [answer(NotGiven) EXCEPT !.outcome = "exit 1"]
        ELSE IF parser.m_help THEN answer(Indicated)
        ELSE IF found # {}
          THEN Taken(documented, option, CHOOSE i \in found : \A j \in found : i <= j)
        ELSE answer(IF option.default = <<>> THEN NotGiven ELSE Given(option.default[1]))

\* enableHelp: the message and exit(0), exit(1) for a word nobody took, or on.
enableHelp(parser) ==
    IF parser.m_help THEN "exit 0"
    ELSE IF \E i \in DOMAIN parser.argv : ~ parser.m_checked[i] THEN "exit 1"
    ELSE "return"
=============================================================================

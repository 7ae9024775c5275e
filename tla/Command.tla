------------------------------ MODULE Command ------------------------------
(***************************************************************************)
(* redis::command (command.cpp): how a command is read from a text, one    *)
(* turn of the loop per action, and how its words are serialized.          *)
(* Exchange has the life of a command around it.                           *)
(***************************************************************************)
EXTENDS ReplyParser

VARIABLES
    text,      \* the parameter command
    it,        \* the iterator
    member,    \* the word being read
    words,     \* commands_
    stage      \* "idle", "reading", "built" or "undefined"

commandVars == <<text, it, member, words, stage>>

-----------------------------------------------------------------------------
(* The constructors.                                                       *)

NoCommand == text = <<>> /\ it = 1 /\ member = <<>> /\ words = <<>> /\ stage = "idle"

FromText(t) ==
    /\ stage = "idle"
    /\ text' = t
    /\ it' = 1
    /\ member' = <<>>
    /\ words' = <<>>
    /\ stage' = "reading"

FromWords(list) ==
    /\ stage = "idle"
    /\ text' = <<>>
    /\ it' = 1
    /\ member' = <<>>
    /\ words' = list
    /\ stage' = "built"

AtByte(byte) == stage = "reading" /\ it # End(text) /\ text[it] = byte

\* Words without the empty member; it is not a word
WithMember == IF member = <<>> THEN words ELSE Append(words, member)

\* Mutant of Delimiter: an empty member is a word
DelimiterPushes ==
    /\ AtByte("SP")
    /\ words' = Append(words, member)
    /\ member' = <<>>
    /\ it' = it + 1
    /\ UNCHANGED <<text, stage>>

Delimiter ==
    /\ AtByte("SP")
    /\ words' = WithMember
    /\ member' = <<>>
    /\ it' = it + 1
    /\ UNCHANGED <<text, stage>>

\* Mutant of Quoted: the closing quote ends the word
QuotedEnds ==
    /\ AtByte("QUOTE")
    /\ it + 1 # End(text)
    /\ LET closing == {i \in (it + 1)..Len(text) : text[i] = "QUOTE"}
           close   == IF closing = {} THEN End(text) ELSE Min(closing)
       IN  /\ words' = Append(words, member \o SubSeq(text, it + 1, close - 1))
           /\ it' = Min({close + 1, End(text)})
    /\ member' = <<>>
    /\ UNCHANGED <<text, stage>>

\* The part in quotes is added as it is; without a closing one it is the rest
Quoted ==
    /\ AtByte("QUOTE")
    /\ it + 1 # End(text)
    /\ LET closing == {i \in (it + 1)..Len(text) : text[i] = "QUOTE"}
           close   == IF closing = {} THEN End(text) ELSE Min(closing)
       IN  /\ member' = member \o SubSeq(text, it + 1, close - 1)
           /\ it' = Min({close + 1, End(text)})
    /\ UNCHANGED <<text, words, stage>>

\* An opening quote at the end: the inner loop steps over the end and reads on
LastQuote ==
    /\ AtByte("QUOTE")
    /\ it + 1 = End(text)
    /\ stage' = "undefined"
    /\ UNCHANGED <<text, it, member, words>>

Other ==
    /\ stage = "reading" /\ it # End(text) /\ text[it] \notin {"SP", "QUOTE"}
    /\ member' = Append(member, text[it])
    /\ it' = it + 1
    /\ UNCHANGED <<text, words, stage>>

LastMember ==
    /\ stage = "reading" /\ it = End(text)
    /\ words' = WithMember
    /\ member' = <<>>
    /\ stage' = "built"
    /\ UNCHANGED <<text, it>>

\* Mutant of SerializedCommand: the first word is not counted
SerializedShort(list) ==
    CASE Len(list) = 0 -> <<>>
      [] Len(list) = 1 -> list[1] \o CRLF
      [] OTHER -> LineOf("*", Decimal(Len(list) - 1)) \o
                    FlattenSeq([i \in DOMAIN list |->
                        LineOf("$", Decimal(Len(list[i]))) \o list[i] \o CRLF])

\* A command of one word goes as it is, none as nothing
SerializedCommand(list) ==
    CASE Len(list) = 0 -> <<>>
      [] Len(list) = 1 -> list[1] \o CRLF
      [] OTHER -> LineOf("*", Decimal(Len(list))) \o
                    FlattenSeq([i \in DOMAIN list |->
                        LineOf("$", Decimal(Len(list[i]))) \o list[i] \o CRLF])

Turn == Delimiter \/ Quoted \/ LastQuote \/ Other \/ LastMember

-----------------------------------------------------------------------------
(* Properties.                                                             *)

\* A byte is in quotes if an odd number of quotes is before it; a space that is
\* not ends a word. A word is what is behind the end of the last one, without
\* the quotes
InQuotes(s, i) == Cardinality({j \in 1..(i - 1) : s[j] = "QUOTE"}) % 2 = 1
EndsWord(s, i) == i = End(s) \/ (s[i] = "SP" /\ ~ InQuotes(s, i))
InWord(s, j, i) == s[j] # "QUOTE" /\ \A k \in j..(i - 1) : ~ EndsWord(s, k)
WordBefore(s, i) ==
    FlattenSeq([j \in 1..(i - 1) |-> IF InWord(s, j, i) THEN <<s[j]>> ELSE <<>>])
WordsOf(s) ==
    FlattenSeq([i \in 1..End(s) |->
        IF EndsWord(s, i) /\ WordBefore(s, i) # <<>> THEN <<WordBefore(s, i)>> ELSE <<>>])

\* After every turn the words and the member are those of the text read so far,
\* quotes in the middle of a word and unclosed ones included (command.cpp:13-41;
\* redis_command_test.cpp:54-67 tries four of these texts).
ReadSoFar ==
    stage \in {"reading", "built"} /\ text # <<>> =>
        WithMember = WordsOf(SubSeq(text, 1, it - 1))
=============================================================================

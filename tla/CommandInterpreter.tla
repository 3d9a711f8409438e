------------------------- MODULE CommandInterpreter -------------------------
(***************************************************************************)
(* The command interpreter (FreeRTOS_CLI.c) and the two commands of the    *)
(* bootloader that answer in more than one string, help and echo.  What the *)
(* code keeps in static variables is the record `state'; a call is the     *)
(* operator ProcessCommand.                                                *)
(*                                                                         *)
(* A command line is a sequence of words and spaces, two words never being *)
(* neighbours; a string that is written out is a member of a small set.    *)
(***************************************************************************)
EXTENDS Integers, Sequences, FiniteSets

CONSTANT Registered     \* the list of commands: [name, expected], expected = -1: any

Null == "null"
Space == " "

\* Each name is a word that is registered once.
ASSUME RegisteredAssumption ==
    /\ Registered \in Seq([name : STRING \ {Space}, expected : Int])
    /\ \A j, k \in DOMAIN Registered :
          Registered[k].expected >= -1 /\ (Registered[j].name = Registered[k].name => j = k)

Incorrect == "Incorrect command parameter(s)"
NotRecognised == "Command not recognised"
Crlf == "CRLF"
Empty == ""

\* pxCommand of the interpreter, pxCommand of help, parameter_num of echo.
AtRest == [pxCommand |-> 0, help |-> 0, parameter_num |-> 0]

-----------------------------------------------------------------------------
(* The command line                                                        *)

IsLine(line) ==
    /\ line \in Seq(STRING \ {Null})
    /\ \A i \in 2 .. Len(line) : line[i] = Space \/ line[i - 1] = Space

Words(line) == {i \in DOMAIN line : line[i] # Space}

\* Runs of spaces, less the one at the end.
GetNumberOfParameters(line) ==
    Cardinality({i \in DOMAIN line : line[i] = Space /\ (i = 1 \/ line[i - 1] # Space)})
        - IF line # <<>> /\ line[Len(line)] = Space THEN 1 ELSE 0

\* Mutated form: one space separates two parameters.
GetParameterOneSpace(line, n) ==
    LET found == {i \in DOMAIN line : i = 1 + 2 * n /\ line[i] # Space} IN
    IF n = 0 \/ found = {} THEN Null ELSE line[CHOOSE i \in found : TRUE]

\* The n-th word that comes after spaces.
GetParameter(line, n) ==
    LET starts == {i \in Words(line) : i > 1 /\ line[i - 1] = Space}
        found == {i \in starts : Cardinality({j \in starts : j <= i}) = n}
    IN IF found = {} THEN Null ELSE line[CHOOSE i \in found : TRUE]

\* The first command of the list whose name is the first word.
Search(line) ==
    LET hits == {k \in DOMAIN Registered : line # <<>> /\ line[1] = Registered[k].name} IN
    IF hits = {} THEN 0 ELSE CHOOSE k \in hits : \A j \in hits : k <= j

-----------------------------------------------------------------------------
(* The callbacks: what is written, whether more follows, the static state  *)

\* prvHelpCommand: the next string of the list, from its start if at rest.
Help(state, line) ==
    LET k == IF state.help = 0 THEN 1 ELSE state.help
        next == IF k = Len(Registered) THEN 0 ELSE k + 1
    IN [out |-> Registered[k].name, more |-> next # 0, state |-> [state EXCEPT !.help = next]]

\* prvEchoCommand: an empty string, each parameter, the end of the line.
Echo(state, line) ==
    LET n == state.parameter_num
        p == IF n = 0 THEN Null ELSE GetParameter(line, n)
        more == n = 0 \/ p # Null
    IN [out |-> IF n = 0 THEN Empty ELSE IF p = Null THEN Crlf ELSE p,
        more |-> more,
        state |-> [state EXCEPT !.parameter_num = IF more THEN n + 1 ELSE 0]]

\* The other commands write one string.
Callback(name, state, line) ==
    CASE name = "help" -> Help(state, line)
      [] name = "echo" -> Echo(state, line)
      [] OTHER -> [out |-> name, more |-> FALSE, state |-> state]

\* FreeRTOS_CLIProcessCommand: goes on with the command in work, or looks for
\* the command and counts its parameters.
ProcessCommand(state, line) ==
    LET k == IF state.pxCommand # 0 THEN state.pxCommand ELSE Search(line)
        e == Registered[k].expected
        r == Callback(Registered[k].name, state, line)
    IN IF k = 0 THEN [out |-> NotRecognised, more |-> FALSE, state |-> state]
       ELSE IF state.pxCommand = 0 /\ e >= 0 /\ GetNumberOfParameters(line) # e
       THEN [out |-> Incorrect, more |-> FALSE, state |-> state]
       ELSE [r EXCEPT !.state.pxCommand = IF r.more THEN k ELSE 0]

-----------------------------------------------------------------------------
(* The reference: all that a line is to be answered with                   *)

\* The parameters of a line are its words but the first.
Parameters(line) ==
    LET upTo[i \in 0 .. Len(line)] ==
            IF i <= 1 THEN <<>>
            ELSE IF line[i] = Space THEN upTo[i - 1]
            ELSE Append(upTo[i - 1], line[i])
    IN upTo[Len(line)]

Answer(line) ==
    IF line = <<>> \/ \A k \in DOMAIN Registered : Registered[k].name # line[1]
    THEN <<NotRecognised>>
    ELSE LET c == CHOOSE c \in {Registered[k] : k \in DOMAIN Registered} : c.name = line[1] IN
         IF c.expected \notin {-1, Len(Parameters(line))} THEN <<Incorrect>>
         ELSE CASE c.name = "help" -> [k \in DOMAIN Registered |-> Registered[k].name]
                [] c.name = "echo" -> <<Empty>> \o Parameters(line) \o <<Crlf>>
                [] OTHER -> <<c.name>>

=============================================================================

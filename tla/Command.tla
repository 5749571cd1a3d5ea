------------------------------- MODULE Command -------------------------------
(***************************************************************************)
(* The builder WorrywartCommand of core.rs, and what its spawn() makes of  *)
(* it for CreateProcessW: the command line and the environment block.      *)
(*                                                                         *)
(* A string is a sequence of characters, and the name of a variable one of *)
(* UTF-16 units, whose order matters.  What a loop of the code computes is *)
(* a recursive function, of which the proofs can follow every step.        *)
(***************************************************************************)
EXTENDS Integers, SequencesExt

CONSTANTS
  Char,          \* characters
  Programs,      \* programs that may be asked for
  FirstArgs,     \* arguments, when arg() is the first call
  LaterArgs,     \* arguments of later calls
  Names,         \* names of variables, the sentinel's included
  ENV_VAR,       \* the name of the variable for the sentinel handle
  Values,        \* values env() may be called with
  Environments,  \* environments the parent may have
  Handle,        \* the value of the write end's handle
  None,          \* no block, no value
  MaxCalls       \* bound on the calls of the builder

Backslash == "backslash"
Quote     == "quote"
Space     == "space"
Blank     == {Space, "tab"}
Lone      == "lone"      \* half of a surrogate pair: no Unicode character
Replaced  == "replaced"  \* U+FFFD

Monitor == {"DebugApi", "JobObject", "Sentinel"}

\* The values in the environments of the parent, and all that a child can see.
InheritedValues == {p.value : p \in UNION {ToSet(e) : e \in Environments}}
AnyValue        == Values \cup {Handle} \cup InheritedValues
Variable        == [name : Names, value : AnyValue]
Given           == [name : Names, value : Values \cup {Handle}]

\* The names of variables are ASCII, as upper_wide() expects.  A program is the
\* name of a file: it has no quote, and no backslash at the end where it has to
\* be quoted.
ASSUME CommandAssumption ==
  /\ MaxCalls \in Nat
  /\ Names \subseteq Seq(0..127) /\ ENV_VAR \in Names
  /\ Environments \subseteq Seq(Variable)
  /\ None \notin AnyValue \cup Seq(Variable)
  /\ {Backslash, Quote, Replaced} \cup Blank \subseteq Char
  /\ Programs \cup FirstArgs \cup LaterArgs \subseteq Seq(Char)
  /\ \A p \in Programs :
       /\ p # <<>> /\ Quote \notin ToSet(p)
       /\ ToSet(p) \cap Blank # {} => Last(p) # Backslash

VARIABLES
  state,        \* "building", "asked" of CreateProcess, "created"
  program, args, envs, env_clear, monitors,  \* fields of WorrywartCommand
  inherited,    \* the environment of the parent
  line,         \* lpCommandLine
  environment,  \* lpEnvironment
  told,         \* what the child reads under ENV_VAR
  calls,        \* calls of the builder
  wanted,       \* history: what the calls ask for, as std::process has it
  spelled       \* history: the names the parent and the calls use

commandVars ==
  <<state, program, args, envs, env_clear, monitors, inherited, line,
    environment, told, calls, wanted, spelled>>

\* The states of a loop over s, from the one before it to the one after it.
Loop(Step(_, _), init, s) ==
  LET at[n \in 0..Len(s)] == IF n = 0 THEN init ELSE Step(at[n - 1], s[n])
  IN at

-----------------------------------------------------------------------------
(* The command line.                                                       *)

\* OsStr::to_string_lossy()
Lossy(s) == [i \in DOMAIN s |-> IF s[i] = Lone THEN Replaced ELSE s[i]]

Backslashes(n) == [i \in 1..n |-> Backslash]

NeedsQuote(arg) ==
  arg = <<>> \/ \E i \in DOMAIN arg : arg[i] \in Blank \cup {Quote}

\* One character of a quoted argument: backslashes are held back until it is
\* known whether they stand before a quote.
QuoteChar(acc, c) ==
  IF c = Backslash THEN [acc EXCEPT !.backslashes = @ + 1]
  ELSE [out |-> acc.out \o
                  (IF c = Quote
                   THEN Backslashes(2 * acc.backslashes + 1)
                   ELSE Backslashes(acc.backslashes)) \o <<c>>,
        backslashes |-> 0]

Quoting(arg) ==
  Loop(QuoteChar, [out |-> <<Quote>>, backslashes |-> 0], arg)

\* Fault: backslashes are escaped only before a quote of the argument itself.
QuoteArgOpenEnd(arg) ==
  IF ~NeedsQuote(arg) THEN arg
  ELSE LET acc == Quoting(arg)[Len(arg)]
       IN acc.out \o Backslashes(acc.backslashes) \o <<Quote>>

\* quote_arg(): the closing quote is one the last backslashes stand before.
QuoteArg(arg) ==
  IF ~NeedsQuote(arg) THEN arg
  ELSE LET acc == Quoting(arg)[Len(arg)]
       IN acc.out \o Backslashes(2 * acc.backslashes) \o <<Quote>>

\* build_command_line()
AddArg(out, a) == out \o <<Space>> \o QuoteArg(Lossy(a))

BuildCommandLine(prog, words) ==
  Loop(AddArg, QuoteArg(Lossy(prog)), words)[Len(words)]

-----------------------------------------------------------------------------
(* How the C runtime of the child splits the line.                         *)

NoArg == [argv |-> <<>>, arg |-> <<>>, mode |-> "between", slashes |-> 0]

\* Backslashes stand for themselves unless a quote follows.
Flushed(p) == p.arg \o Backslashes(p.slashes)

EndArg(p) ==
  IF p.mode = "between" THEN p
  ELSE [NoArg EXCEPT !.argv = Append(p.argv, Flushed(p))]

ParseChar(p, c) ==
  LET begun == IF p.mode = "between" THEN "word" ELSE p.mode
      half  == p.arg \o Backslashes(p.slashes \div 2)
  IN
  IF c = Backslash THEN [p EXCEPT !.mode = begun, !.slashes = @ + 1]
  ELSE IF c = Quote
  THEN IF p.slashes % 2 = 1
       THEN [p EXCEPT !.arg = Append(half, Quote), !.mode = begun,
                      !.slashes = 0]
       ELSE [p EXCEPT !.arg = half,
                      !.mode = IF @ = "quoted" THEN "word" ELSE "quoted",
                      !.slashes = 0]
  ELSE IF c \in Blank /\ p.mode # "quoted" THEN EndArg(p)
  ELSE [p EXCEPT !.arg = Append(Flushed(p), c), !.mode = begun, !.slashes = 0]

\* The program name ends at the next quote if it begins with one, else at a
\* blank; backslashes mean nothing in it.
ProgramEnd(s) ==
  SelectInSeq(Append(Tail(s), Quote),
              LAMBDA c : IF s[1] = Quote THEN c = Quote
                         ELSE c \in Blank \cup {Quote})

Parsing(s) == Loop(ParseChar, NoArg, s)

ReadBack(s) ==
  LET n == ProgramEnd(s)
      prog == IF s[1] = Quote THEN SubSeq(s, 2, n) ELSE SubSeq(s, 1, n)
      rest == SubSeq(s, IF s[1] = Quote THEN n + 2 ELSE n + 1, Len(s))
  IN <<prog>> \o EndArg(Parsing(rest)[Len(rest)]).argv

-----------------------------------------------------------------------------
(* The environment block, a sequence of pairs.                             *)

Pair(k, v) == [name |-> k, value |-> v]

\* Fault: no folding at all.
NameAsItIs(name) == name

\* upper_wide(): only ASCII letters are folded, as only they are expected.
UpperWide(name) ==
  [i \in DOMAIN name |-> IF name[i] \in 97..122 THEN name[i] - 32 ELSE name[i]]

\* The order of two names by their units.
Before(m, n) ==
  \/ IsStrictPrefix(m, n)
  \/ \E i \in DOMAIN m \cap DOMAIN n :
       m[i] < n[i] /\ \A j \in 1..(i - 1) : m[j] = n[j]

\* sort_by_key() is stable.
SortByName(pairs) ==
  LET key(i) == UpperWide(pairs[i].name)
      rank(i) == Cardinality({j \in DOMAIN pairs :
                                \/ Before(key(j), key(i))
                                \/ key(j) = key(i) /\ j <= i})
  IN [r \in DOMAIN pairs |->
        pairs[CHOOSE i \in DOMAIN pairs : rank(i) = r]]

\* Fault: what is overridden stays.
AddOnly(pairs, e) == Append(pairs, e)

\* What is left of pairs without those of exactly the name k.
Without(pairs, k) ==
  Loop(LAMBDA kept, p : IF p.name = k THEN kept ELSE Append(kept, p), <<>>,
       pairs)[Len(pairs)]

\* An override replaces the pair with exactly its name.
Override(pairs, e) == Append(Without(pairs, e.name), e)

\* build_env_block()
BuildEnvBlock(clear, es) ==
  IF ~clear /\ es = <<>> THEN None
  ELSE LET own == IF clear THEN <<>> ELSE inherited
       IN SortByName(Loop(Override, own, es)[Len(es)])

-----------------------------------------------------------------------------
(* How Windows and std::process read environments: case does not matter.   *)

\* The upper case table of Windows, for the letters the names have.
WindowsUpper == [u \in 0..127 |-> IF u \in 97..122 THEN u - 32 ELSE u]

SameName(m, n) ==
  [i \in DOMAIN m |-> WindowsUpper[m[i]]] =
  [i \in DOMAIN n |-> WindowsUpper[n[i]]]

\* The value of the first pair that fits.
Lookup(block, n) ==
  LET i == SelectInSeq(block, LAMBDA p : SameName(p.name, n))
  IN IF i = 0 THEN None ELSE block[i].value

\* The child of std::process::Command, for the calls spawn_plain() makes.
StdEnvironment(clear, es, n) ==
  LET given == Lookup(Reverse(es), n)
  IN IF given # None THEN given
     ELSE IF clear THEN None ELSE Lookup(inherited, n)

-----------------------------------------------------------------------------
(* The builder.                                                            *)

CommandInit ==
  /\ state = "building"
  /\ program \in Programs
  /\ args = <<>> /\ envs = <<>> /\ env_clear = FALSE /\ monitors = {}
  /\ inherited \in Environments
  /\ line = <<>> /\ environment = None
  /\ told = None
  /\ calls = 0
  /\ wanted = [n \in Names |-> Lookup(inherited, n)]
  /\ spelled = {p.name : p \in ToSet(inherited)}

Call ==
  /\ state = "building" /\ calls < MaxCalls
  /\ calls' = calls + 1
  /\ UNCHANGED <<state, program, inherited, line, environment, told>>

Arg(a) ==
  /\ Call
  /\ a \in IF calls = 0 THEN FirstArgs ELSE LaterArgs
  /\ args' = Append(args, a)
  /\ UNCHANGED <<envs, env_clear, monitors, wanted, spelled>>

\* What a call for k leaves all its spellings at.
Want(k, v) ==
  /\ wanted' = [n \in Names |-> IF SameName(k, n) THEN v ELSE wanted[n]]
  /\ spelled' = spelled \cup {k}

Env(k, v) ==
  /\ Call
  /\ envs' = Append(envs, Pair(k, v))
  /\ Want(k, v)
  /\ UNCHANGED <<args, env_clear, monitors>>

\* env_remove() takes back what env() has added, under exactly this name.
EnvRemove(k) ==
  /\ Call
  /\ envs' = Without(envs, k)
  /\ Want(k, None)
  /\ UNCHANGED <<args, env_clear, monitors>>

\* Fault: what was added before is kept.
EnvClearInheritedOnly ==
  /\ Call
  /\ env_clear' = TRUE
  /\ wanted' = [n \in Names |-> None]
  /\ UNCHANGED <<args, envs, monitors, spelled>>

EnvClear ==
  /\ Call
  /\ env_clear' = TRUE /\ envs' = <<>>
  /\ wanted' = [n \in Names |-> None]
  /\ UNCHANGED <<args, monitors, spelled>>

AddMonitor(m) ==
  /\ Call
  /\ monitors' = monitors \cup {m}
  /\ UNCHANGED <<args, envs, env_clear, wanted, spelled>>

\* Fault: the handle counts as a default the caller's variables go before.
WithHandleFirst ==
  IF "Sentinel" \in monitors THEN <<Pair(ENV_VAR, Handle)>> \o envs ELSE envs

\* spawn() adds the handle of the sentinel pipe after all that was asked for.
WithHandle ==
  IF "Sentinel" \in monitors THEN Append(envs, Pair(ENV_VAR, Handle)) ELSE envs

\* spawn() up to CreateProcess: by spawn_debug() and spawn_job_monitored(),
\* or, without a monitor, by std::process::Command (whose line is its own).
Spawn ==
  /\ state = "building"
  /\ state' = "asked"
  /\ envs' = WithHandle
  /\ IF monitors # {}
     THEN /\ line' = BuildCommandLine(program, args)
          /\ environment' = BuildEnvBlock(env_clear, envs')
     ELSE UNCHANGED <<line, environment>>
  /\ UNCHANGED <<program, args, env_clear, monitors, inherited, told,
                 calls, wanted, spelled>>

\* What the child reads: without a block, what its parent has.
ChildReads(n) ==
  IF monitors = {} THEN StdEnvironment(env_clear, envs, n)
  ELSE Lookup(IF environment = None THEN inherited ELSE environment, n)

\* CreateProcess.  The command is gone then: what is kept is the sentinel, and
\* what concerns its variable.
CreateProcess ==
  /\ state = "asked"
  /\ state' = "created"
  /\ told' = ChildReads(ENV_VAR)
  /\ monitors' = monitors \cap {"Sentinel"}
  /\ spelled' = {n \in spelled : SameName(n, ENV_VAR)}
  /\ program' = <<>> /\ args' = <<>> /\ envs' = <<>> /\ env_clear' = FALSE
  /\ line' = <<>> /\ environment' = None /\ inherited' = <<>> /\ calls' = 0
  /\ wanted' = [n \in Names |-> None]

CommandNext ==
  \/ Spawn \/ CreateProcess \/ EnvClear
  \/ \E a \in FirstArgs \cup LaterArgs : Arg(a)
  \/ \E k \in Names : EnvRemove(k) \/ \E v \in Values : Env(k, v)
  \/ \E m \in Monitor : AddMonitor(m)

CommandSpec == CommandInit /\ [][CommandNext]_commandVars

-----------------------------------------------------------------------------
\* Every field has values that the calls can give it.
CommandTypeOK ==
  /\ state \in {"building", "asked", "created"}
  /\ program \in Programs \cup {<<>>}
  /\ args \in Seq(FirstArgs \cup LaterArgs) /\ line \in Seq(Char)
  /\ envs \in Seq(Given)
  /\ environment \in {None} \cup Seq(Variable)
  /\ env_clear \in BOOLEAN /\ monitors \subseteq Monitor
  /\ inherited \in Environments \cup {<<>>}
  /\ calls \in 0..MaxCalls /\ spelled \subseteq Names
  /\ told \in AnyValue \cup {None}
  /\ wanted \in [Names -> AnyValue \cup {None}]

\* Whatever quotes, blanks and backslashes the arguments have, and wherever
\* they end, the child reads as many, and the same, up to characters that no
\* string of the parent can hold.
ArgumentsReadBack ==
  state = "asked" /\ monitors # {} =>
    ReadBack(line) =
      <<Lossy(program)>> \o [i \in DOMAIN args |-> Lossy(args[i])]

\* The names the child may find: those of the parent, of the calls, and the
\* sentinel's.
Spellings ==
  spelled \cup (IF "Sentinel" \in monitors THEN {ENV_VAR} ELSE {})

\* Not two of them are n but for the case: the block would have both.
OneSpelling(n) ==
  \A k, m \in Spellings : SameName(k, n) /\ SameName(m, n) => k = m

\* An inherited variable that the calls want removed: env_remove() is no such
\* call in the code.
RemovedInherited(n) ==
  wanted[n] = None /\ ~env_clear /\ Lookup(inherited, n) # None

\* The child of every path sees what std::process::Command would give it after
\* the same calls in the same order, and a sentinel child its handle, even if
\* the parent is one itself or the caller has set the variable.
EnvironmentAsWanted ==
  state = "asked" =>
    \A n \in Names :
      OneSpelling(n) =>
        IF "Sentinel" \in monitors /\ SameName(n, ENV_VAR)
        THEN ChildReads(n) = Handle
        ELSE ChildReads(n) = wanted[n] \/ RemovedInherited(n)

\* CreateProcessW wants the block sorted without regard to case, where names
\* have units between the upper and the lower case letters too.
BlockIsSorted ==
  state = "asked" /\ environment # None =>
    \A i, j \in DOMAIN environment :
      LET up(k) == [u \in DOMAIN environment[k].name |->
                      WindowsUpper[environment[k].name[u]]]
      IN i < j => ~Before(up(j), up(i))
=============================================================================

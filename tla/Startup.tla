------------------------------ MODULE Startup ------------------------------
(***************************************************************************)
(* svnsrv from main() to the point where it serves, controls a daemon, or  *)
(* ends: the command line (Getopt), the search for svnsrv.toml, reading it *)
(* (Toml), the settings with their defaults and widths, the router table,  *)
(* the logs, and the dispatch.                                             *)
(*                                                                         *)
(* main is one thread.  What the rest of the machine answers is the record *)
(* world, which does not change: the build, whether the path of the        *)
(* program can be told, the files that exist and what is in them, and      *)
(* whether router.toml is good.  Daemon control, which has a module of its *)
(* own, answers one way or the other.                                      *)
(***************************************************************************)
EXTENDS Integers, Sequences, FiniteSets, SequencesExt, TLC

CONSTANTS
  Starts,      \* pairs of a command line and a world
  Lines,       \* the lines files are made of; a file is a sequence of indices
  Begins,      \* which long option names begin with a given name
  PastEnd,     \* what lies behind the copy of argv
  Digits, TooLong, OutOfRange, Wide,
  Worth,       \* value of runs of digits, as words [hi, lo] of 16 bits
  MaxThreads   \* threads the machine can run

VARIABLES
  argv, nargv, optind, place, nonopt_start, nonopt_end, optarg, ch,
  text, it, root, curr_table, inserted, state,
  pc,          \* where main is
  world,
  opts,        \* daemon, version, quiet, cfile and signame
  profile,     \* the place of the profile that is read
  settings,    \* NetworkServerArgs and LauncherArgs, once they are read
  outcome      \* how main has ended, or what it serves

getoptVars == <<argv, nargv, optind, place, nonopt_start, nonopt_end, optarg, ch>>
tomlVars   == <<text, it, root, curr_table, inserted, state>>
mainVars   == <<pc, world, opts, profile, settings, outcome>>
vars       == <<getoptVars, tomlVars, mainVars>>

longopts == << [name |-> "daemon",  has_arg |-> FALSE, val |-> "D"],
               [name |-> "config",  has_arg |-> TRUE,  val |-> "c"],
               [name |-> "debug",   has_arg |-> FALSE, val |-> "d"],
               [name |-> "help",    has_arg |-> FALSE, val |-> "h"],
               [name |-> "version", has_arg |-> FALSE, val |-> "v"],
               [name |-> "quiet",   has_arg |-> FALSE, val |-> "q"],
               [name |-> "signal",  has_arg |-> TRUE,  val |-> "s"] >>

G == INSTANCE Getopt WITH ShortOpts <- {"?", "D", "c", "d", "h", "v", "q", "s"},
                          WithArg <- {"c", "s"}, LongOpts <- longopts,
                          behind <- IF world.windows THEN PastEnd ELSE {}
T == INSTANCE Toml

Places == {"custom", "exe", "cwd", "home"}

Words == [kind : {"short"}, letters : Seq(STRING) \ {<<>>}]
         \cup [kind : {"long"}, name : DOMAIN Begins, tail : BOOLEAN]
         \cup [kind : {"end", "operand"}]

Names == {longopts[i].name : i \in DOMAIN longopts}

\* A command line is a sequence of words, and no name of the table begins another.
ASSUME StartsAssumption == \A start \in Starts : start[1] \in Seq(Words)
ASSUME BeginsAssumption ==
  \A s \in DOMAIN Begins : /\ Begins[s] \subseteq Names
                           /\ s \in Names => Begins[s] = {s}

\* A file's text: its lines, each ended.
TextOf(file) == FlattenSeq([i \in DOMAIN file |-> Append(Lines[file[i]], "\n")])

Unset == [set |-> FALSE]
Running == [end |-> "none"]
Exit(code) == [end |-> "exit", code |-> code]

At(where) == pc = where
GoTo(where) == pc' = where /\ UNCHANGED outcome
Ends(how) == pc' = "ended" /\ outcome' = how

-----------------------------------------------------------------------------
(* The command line *)

getopt_long ==
  /\ At("options")
  /\ G!Next
  /\ UNCHANGED <<tomlVars, mainVars>>

\* What main notes of option c.
Chosen(c) ==
  CASE c = "D" -> [opts EXCEPT !.daemon = TRUE]
    [] c = "c" -> [opts EXCEPT !.cfile = optarg]
    [] c = "v" -> [opts EXCEPT !.version = TRUE]
    [] c = "q" -> [opts EXCEPT !.quiet = TRUE]
    [] c = "s" -> [opts EXCEPT !.signame = optarg]
    [] OTHER   -> opts

\* One round of the loop over the options, or its end.  The next call of
\* getopt_long resets optarg.
TakeOption ==
  /\ At("options") /\ ch # ""
  /\ CASE ch \in {"?", "h"} ->
            /\ Ends(Exit(0))
            /\ UNCHANGED <<getoptVars, opts>>
       [] ch = "end" ->
            /\ IF opts.version THEN Ends(Exit(0)) ELSE GoTo("search")
            /\ UNCHANGED <<getoptVars, opts>>
       [] ch = "undefined" ->
            /\ Ends([end |-> "crash"])
            /\ UNCHANGED <<getoptVars, opts>>
       [] OTHER ->
            /\ opts' = Chosen(ch)
            /\ ch' = "" /\ optarg' = G!NoArg
            /\ UNCHANGED <<argv, nargv, optind, place, nonopt_start, nonopt_end,
                           pc, outcome>>
  /\ UNCHANGED <<tomlVars, world, profile, settings>>

-----------------------------------------------------------------------------
(* The profile *)

PathFileIsExists(p) == p \in DOMAIN world.files

GetProcessImageFileFolder == world.self

\* On Windows the answer is whether there is a home, not whether the file is there.
HomeUnchecked         == world.windows
PathCombineHomeExists == HomeUnchecked \/ PathFileIsExists("home")

Found(p) == IF p = "home" THEN PathCombineHomeExists ELSE PathFileIsExists(p)

\* Fault: the current directory is looked at first.
SearchOrder_CwdFirst == <<"cwd", "exe", "home">>

\* Where to look, in this order.
SearchOrder == <<"exe", "cwd", "home">>

\* A -c that points at nothing sensible names a file that does not exist, or
\* is an address nobody may read.
Search ==
  /\ At("search")
  /\ LET hits == {i \in DOMAIN SearchOrder : Found(SearchOrder[i])} IN
     IF opts.cfile = G!NoArg /\ ~GetProcessImageFileFolder
     THEN Ends(Exit(-1)) /\ UNCHANGED profile
     ELSE IF opts.cfile = G!WildArg
     THEN /\ Ends(Exit(-1)) \/ Ends([end |-> "crash"])
          /\ UNCHANGED profile
     ELSE IF opts.cfile # G!NoArg
     THEN IF PathFileIsExists("custom") THEN GoTo("open") /\ profile' = "custom"
          ELSE Ends(Exit(-1)) /\ UNCHANGED profile
     ELSE IF hits = {} THEN Ends(Exit(-1)) /\ UNCHANGED profile
     ELSE /\ GoTo("open")
          /\ profile' = SearchOrder[CHOOSE i \in hits : \A j \in hits : i <= j]
  /\ UNCHANGED <<getoptVars, tomlVars, world, opts, settings>>

\* parse_file: a file that cannot be opened is a parse_exception as well.
parse_file ==
  /\ At("open")
  /\ IF PathFileIsExists(profile)
     THEN /\ text' = TextOf(world.files[profile])
          /\ state' = IF text' = <<>> THEN "done" ELSE "line"
          /\ GoTo("parse")
     ELSE Ends(Exit(-1)) /\ UNCHANGED <<text, state>>
  /\ UNCHANGED <<it, root, curr_table, inserted, getoptVars, world, opts, profile,
                 settings>>

parse ==
  /\ At("parse") /\ state \notin {"done", "refused"}
  /\ T!Next
  /\ UNCHANGED <<getoptVars, mainVars>>

Parsed ==
  /\ At("parse") /\ state \in {"done", "refused"}
  /\ IF state = "done" THEN GoTo("settings") ELSE Ends(Exit(-1))
  /\ UNCHANGED <<getoptVars, tomlVars, world, opts, profile, settings>>

-----------------------------------------------------------------------------
(* The settings *)

Key(tbl, name) == << <<tbl>>, <<name>> >>
Given(k) == T!contains_qualified(k)

\* The keys ParseServiceProfile reads, by the type it reads them as.
IntegerKeys == {Key("Service", "PoolSize"), Key("Network", "Port"),
                Key("Network", "Compression"), Key("Network", "Timeout")}
StringKeys  == {Key("Network", "Address"), Key("Network", "Domain"),
                Key("Logger", "Access"), Key("Logger", "Error"),
                Key("Daemon", "PidFile"), Key("Router", "RangeFile")}
BooleanKeys == {Key("Network", "DomainFilter"), Key("Network", "Tunnel"),
                Key("Daemon", "CrashRestart")}

\* as<T>() is null for a key of another type, and get() of null is undefined:
\* the process is killed.
WrongType ==
  \/ \E k \in IntegerKeys : Given(k) /\ root[k][1] # "int"
  \/ \E k \in StringKeys  : Given(k) /\ root[k][1] # "string"
  \/ \E k \in BooleanKeys : Given(k) /\ root[k][1] # "bool"

\* An int64_t made int and then uint32_t, in two words of 16 bits.
Uint32(v) ==
  LET d == Worth[SelectSeq(v, LAMBDA c : c \in Digits)] IN
  IF v[1] = "-"
  THEN [hi |-> (-d.hi - (IF d.lo > 0 THEN 1 ELSE 0)) % 65536,
        lo |-> (-d.lo) % 65536]
  ELSE [hi |-> d.hi % 65536, lo |-> d.lo]

Integer(k, default) == IF Given(k) THEN Uint32(root[k][2]) ELSE [hi |-> 0, lo |-> default]
Strings(k, default) == IF Given(k) THEN root[k][2] ELSE <<default>>
Boolean(k, default) == IF Given(k) THEN root[k][2] = <<"true">> ELSE default

\* Those of them that main or the server looks at.
Settings ==
  [set |-> TRUE,
   poolSize     |-> Integer(Key("Service", "PoolSize"), 64),
   port         |-> Integer(Key("Network", "Port"), 3690),
   address      |-> Strings(Key("Network", "Address"), "127.0.0.1"),
   routerFile   |-> Strings(Key("Router", "RangeFile"), "router.toml"),
   crashRestart |-> Boolean(Key("Daemon", "CrashRestart"), ~world.windows)]

ReadSettings ==
  /\ At("settings")
  /\ IF WrongType THEN Ends([end |-> "crash"]) /\ UNCHANGED settings
     ELSE settings' = Settings /\ GoTo("router")
  /\ UNCHANGED <<getoptVars, tomlVars, world, opts, profile>>

-----------------------------------------------------------------------------
(* The router, the logs and the dispatch *)

InitializeRouterSeletor ==
  /\ At("router")
  /\ \/ world.router = "good" /\ GoTo("dispatch")
     \/ world.router = "refused" /\ Ends(Exit(-2))
     \/ world.router = "crash" /\ Ends([end |-> "crash"])
  /\ UNCHANGED <<getoptVars, tomlVars, world, opts, profile, settings>>

\* The argument of -s, as strcmp sees it: the word, or what stands behind the
\* letter or the equals sign.
Signal == IF opts.signame = G!WildArg THEN "" ELSE world.words[opts.signame.from]

\* ProcessSignalArgs.  DaemonStop and DaemonRestart succeed or not.
ProcessSignalArgs ==
  /\ At("dispatch") /\ opts.signame # G!NoArg
  /\ \/ Signal = "stop"    /\ \E code \in {0, 1} : Ends(Exit(code))
     \/ Signal = "restart" /\ \E code \in {2, 1} : Ends(Exit(code))
     \/ Signal \notin {"stop", "restart"} /\ Ends(Exit(3))
     \/ opts.signame = G!WildArg /\ Ends([end |-> "crash"])
  /\ UNCHANGED <<getoptVars, tomlVars, world, opts, profile, settings>>

\* Daemonize or DaemonWait fails, or this process (a worker, or the one process
\* of a daemon without a master) goes on to serve.
RunAsDaemon ==
  /\ At("dispatch") /\ opts.signame = G!NoArg /\ opts.daemon
  /\ Ends(Exit(-1)) \/ GoTo("serve")
  /\ UNCHANGED <<getoptVars, tomlVars, world, opts, profile, settings>>

RunInForeground ==
  /\ At("dispatch") /\ opts.signame = G!NoArg /\ ~opts.daemon
  /\ GoTo("serve")
  /\ UNCHANGED <<getoptVars, tomlVars, world, opts, profile, settings>>

\* The constructor and run() throw for a pool of no threads, an address that
\* is none, a port in use, and more threads than there can be.  The port of an
\* endpoint has 16 bits.
SubversionServerInitialize ==
  /\ At("serve")
  /\ LET n == settings.poolSize IN
     IF (n.hi = 0 /\ n.lo \in 1..MaxThreads) /\ settings.address \in world.addresses
     THEN \/ Ends([end |-> "serving", port |-> settings.port.lo,
                   address |-> settings.address, threads |-> n.lo])
          \/ Ends([end |-> "terminate"])
     ELSE Ends([end |-> "terminate"])
  /\ UNCHANGED <<getoptVars, tomlVars, world, opts, profile, settings>>

\* Nothing more happens here; anywhere else main can go on.
Ended == At("ended") /\ UNCHANGED vars

-----------------------------------------------------------------------------
Init ==
  /\ \E start \in Starts : G!Init(start[1]) /\ world = start[2]
  /\ T!Init(<<>>)
  /\ pc = "options"
  /\ opts = [daemon |-> FALSE, version |-> FALSE, quiet |-> FALSE,
             cfile |-> G!NoArg, signame |-> G!NoArg]
  /\ profile = "" /\ settings = Unset /\ outcome = Running

Next ==
  \/ getopt_long \/ TakeOption
  \/ Search \/ parse_file \/ parse \/ Parsed \/ ReadSettings
  \/ InitializeRouterSeletor
  \/ ProcessSignalArgs \/ RunAsDaemon \/ RunInForeground
  \/ SubversionServerInitialize
  \/ Ended

Spec == Init /\ [][Next]_vars

\* What main notes, reads and ends with has the types the rest relies on.
TypeOK ==
  /\ pc \in {"options", "search", "open", "parse", "settings", "router",
             "dispatch", "serve", "ended"}
  /\ nargv \in [DOMAIN argv -> DOMAIN argv] /\ optind \in 1 .. Len(argv) + 2
  /\ nonopt_start \in 0 .. Len(argv) /\ nonopt_end \in 0 .. Len(argv)
  /\ profile \in Places \cup {""}
  /\ it \in 1 .. Len(text) + 2
  /\ state \in {"line", "table", "array", "done", "refused"}
  /\ \A q \in DOMAIN root \ {<<>>} : Front(q) \in DOMAIN root
  /\ curr_table \in DOMAIN root /\ root[curr_table] = <<"table">>
  /\ (pc = "ended") <=> (outcome # Running)
=============================================================================

------------------------------ MODULE Library ------------------------------
(***************************************************************************)
(* The library as a whole: initialization, configuration and exit.         *)
(*                                                                         *)
(* A static object of sqxx.cpp initializes SQLite before main() and shuts  *)
(* it down at exit; the program can do both, too.  SQLite refuses to be    *)
(* configured while it is initialized, except that some versions let the   *)
(* log handler be changed.  The handlers belong to config_callbacks,       *)
(* another static object, and SQLite has bare pointers to them.            *)
(***************************************************************************)

CONSTANTS LogKinds,   \* the handlers of config_callback_table
          LogObjs,    \* heap objects for them
          Options,    \* the other options, each of a function config_X()
          Settings,   \* what they can be set to
          Spill,      \* the option of config_stmtjrnl_spill()
          Pmasz,      \* the option of config_pmasz()
          None,
          LibBeyond   \* what the program does beyond the plain use

\* "exit": config_callbacks is destroyed before SQLite is shut down, which
\*         the order of static objects leaves open
LibBehaviours == {"exit"}

ASSUME LibBeyondAssumption == LibBeyond \subseteq LibBehaviours
ASSUME LogObjsAssumption == None \notin LogObjs
ASSUME SettingsAssumption == None \notin Settings
ASSUME OptionsAssumption == Spill \in Options => Pmasz \in Options

VARIABLES up,        \* SQLite is initialized
          setup,     \* lib_setup: "unmade", "alive" or "gone"
          tableGone, \* config_callbacks has been destroyed
          logHeap,   \* the log handlers not yet freed
          logSlot,   \* config_callbacks
          logHook,   \* what SQLite calls
          setting    \* the options of SQLite, None for its default

logVars == <<logHeap, logSlot, logHook>>
staticVars == <<up, setup, tableGone>>
libVars == <<staticVars, logVars, setting>>

LibTypeOK ==
  /\ up \in BOOLEAN /\ tableGone \in BOOLEAN
  /\ setup \in {"unmade", "alive", "gone"}
  /\ logHeap \subseteq LogObjs
  /\ logSlot \in [LogKinds -> LogObjs \cup {None}]
  /\ logHook \in [LogKinds -> LogObjs \cup {None}]
  /\ setting \in [Options -> Settings \cup {None}]

LibInit ==
  /\ up = FALSE /\ setup = "unmade" /\ tableGone = FALSE
  /\ logHeap = {}
  /\ logSlot = [k \in LogKinds |-> None]
  /\ logHook = [k \in LogKinds |-> None]
  /\ setting = [o \in Options |-> None]

Exiting == setup = "gone" \/ tableGone

-----------------------------------------------------------------------------
(* Initialization and exit. *)

\* lib_setup(), which does not look at the result of sqlite3_initialize().
LibSetup ==
  /\ setup = "unmade" /\ setup' = "alive"
  /\ up' \in {up, TRUE}
  /\ UNCHANGED <<tableGone, logVars, setting>>

\* The program calls sqlite3_initialize() or sqlite3_shutdown().
RawInitialize ==
  /\ ~Exiting
  /\ up' = ~up
  /\ UNCHANGED <<setup, tableGone, logVars, setting>>

\* ~lib_setup()
LibTeardown ==
  /\ setup = "alive" /\ setup' = "gone"
  /\ up' = FALSE
  /\ UNCHANGED <<tableGone, logVars, setting>>

\* ~config_callback_table()
TableTeardown ==
  /\ ~tableGone /\ tableGone' = TRUE
  /\ setup = "gone" \/ ("exit" \in LibBeyond /\ setup = "alive")
  /\ logHeap' = {} /\ logSlot' = [k \in LogKinds |-> None]
  /\ UNCHANGED <<up, setup, logHook, setting>>

-----------------------------------------------------------------------------
(* Configuration. *)

\* What sqlite3_config() answers.
ConfigCodes(option) == IF ~up THEN {"ok"}
                       ELSE IF option \in LogKinds THEN {"ok", "misuse"} ELSE {"misuse"}

\* A static_error is thrown.
ConfigThrows(rv) == rv # "ok"

\* Mutant: the handler is stored before SQLite is asked.
StoreAnyway(k, o, rv) ==
  /\ logSlot' = [logSlot EXCEPT ![k] = o]
  /\ logHeap' = (logHeap \ {logSlot[k]}) \cup {o}

\* The new handler is stored and frees the old one, or, when an exception is
\* thrown, is freed itself.
StoreLogHandler(k, o, rv) ==
  IF ConfigThrows(rv)
  THEN UNCHANGED <<logSlot, logHeap>>
  ELSE /\ logSlot' = [logSlot EXCEPT ![k] = o]
       /\ logHeap' = (logHeap \ {logSlot[k]}) \cup {o}

\* config_log(fun) and config_sqllog(fun)
ConfigLog(k, o) ==
  /\ ~Exiting /\ o \notin logHeap
  /\ \E rv \in ConfigCodes(k) :
       /\ logHook' = IF rv = "ok" THEN [logHook EXCEPT ![k] = o] ELSE logHook
       /\ StoreLogHandler(k, o, rv)
  /\ UNCHANGED <<staticVars, setting>>

\* Mutant: the table lets the handler go before SQLite is asked.
ConfigLogOffFirst(k) ==
  /\ ~Exiting
  /\ logSlot' = [logSlot EXCEPT ![k] = None]
  /\ logHeap' = logHeap \ {logSlot[k]}
  /\ \E rv \in ConfigCodes(k) :
       logHook' = IF rv = "ok" THEN [logHook EXCEPT ![k] = None] ELSE logHook
  /\ UNCHANGED <<staticVars, setting>>

\* config_log() and config_sqllog(), also with an empty function: SQLite
\* forgets the handler, and the table keeps it.
ConfigLogOff(k) ==
  /\ ~Exiting
  /\ "ok" \in ConfigCodes(k)
  /\ logHook' = [logHook EXCEPT ![k] = None]
  /\ UNCHANGED <<staticVars, logHeap, logSlot, setting>>

\* The option that a function passes to sqlite3_config(), which is not its own
\* for config_stmtjrnl_spill().
OptionOf(f) == IF f = Spill THEN Pmasz ELSE f

\* The other functions config_X().
ConfigOption(f, value) ==
  /\ ~Exiting
  /\ \E rv \in ConfigCodes(OptionOf(f)) :
       setting' = IF rv = "ok" THEN [setting EXCEPT ![OptionOf(f)] = value] ELSE setting
  /\ UNCHANGED <<staticVars, logVars>>

-----------------------------------------------------------------------------
Configure ==
  \/ \E k \in LogKinds : ConfigLogOff(k) \/ \E o \in LogObjs : ConfigLog(k, o)
  \/ \E f \in Options, value \in Settings : ConfigOption(f, value)

LibNext == LibSetup \/ RawInitialize \/ LibTeardown \/ TableTeardown \/ Configure

LibSpec == LibInit /\ [][LibNext]_libVars

-----------------------------------------------------------------------------
(* What makes it correct. *)

\* As long as SQLite is initialized, each log handler it can call has not
\* been freed, also when a new one was refused and at exit.
LogLive ==
  up => \A k \in LogKinds : logHook[k] # None => logHook[k] \in logHeap
=============================================================================

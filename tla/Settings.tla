------------------------------ MODULE Settings ------------------------------
(***************************************************************************)
(* What a reload makes of the configuration file: reload() starts from the *)
(* defaults, puts the file over them and the command line over both.  This *)
(* refines the editions of Reload: an edition is a set of settings, and    *)
(* whether it gives a client follows from the settings that come out.      *)
(*                                                                         *)
(* A setting is a model value; a file or a command line is a function on   *)
(* the settings that it names.  Without a file, DefaultConfig stands in    *)
(* for it, which is a file that names no setting.                          *)
(***************************************************************************)
EXTENDS Reload

CONSTANTS
    Names,          \* the settings
    Addresses,      \* those that NewClient looks for: one of them must be set
    PutBack,        \* the durations that reload() copies even when they are zero
    Values, Empty,  \* Empty is the zero value: "", 0, false
    Default,        \* DefaultConfig
    Files, Broken,  \* what an edition of the file may hold; Broken does not load
    CommandLines    \* what the adapter may be started with

Partial == UNION {[names -> Values] : names \in SUBSET Names}

ASSUME SettingsAssumption ==
    /\ Addresses \subseteq Names /\ PutBack \subseteq Names
    /\ \A n \in PutBack : Default[n] # Empty
    /\ Empty \in Values
    /\ Default \in [Names -> Values]
    /\ Files \subseteq Partial /\ CommandLines \subseteq Partial
    /\ Broken \notin Files

VARIABLES
    files,   \* what each edition of the file holds
    flags,   \* the command line
    cfg      \* the settings in Handler.cfg

settings     == <<files, flags, cfg>>
settingsVars == <<vars, settings>>

-----------------------------------------------------------------------------
(* f, and what g has besides. *)
Over(f, g) ==
    [n \in DOMAIN f \cup DOMAIN g |-> IF n \in DOMAIN f THEN f[n] ELSE g[n]]

(* The flags start from the defaults: cliCfg cannot tell a flag that was    *)
(* not given from one that was given the default.                           *)
ParseCommandLine == Over(flags, Default)

LoadFile(file) == Over(file, Default)

(* Mutant: the file is put over the command line. *)
Merge_FileFirst(cfgOfFile, cliCfg) ==
    [n \in Names |-> IF cfgOfFile[n] # Empty THEN cfgOfFile[n] ELSE cliCfg[n]]

(* mergo.Merge with WithOverride: what is not zero in cliCfg.               *)
Merge(cfgOfFile, cliCfg) ==
    [n \in Names |-> IF cliCfg[n] # Empty THEN cliCfg[n] ELSE cfgOfFile[n]]

(* reload() *)
Reloaded(file) ==
    [n \in Names |->
        IF n \in PutBack /\ ParseCommandLine[n] = Empty
        THEN Empty
        ELSE Merge(LoadFile(file), ParseCommandLine)[n]]

(* NewClient gives no client for a configuration without an address. *)
Kind(e) ==
    IF files[e] = Broken THEN "broken"
    ELSE IF \E n \in Addresses : Reloaded(files[e])[n] # Empty THEN "carbon"
    ELSE "idle"

SettingsInit ==
    /\ files \in [Editions -> Files \cup {Broken}]
    /\ flags \in CommandLines
    /\ kind = [e \in Editions |-> Kind(e)]
    /\ Init
    /\ cfg = Reloaded(files[1])

(* ApplyConfig: h.cfg = cfg. *)
Configure ==
    /\ BuildClients
    /\ cfg' = Reloaded(files[loaded])
    /\ UNCHANGED <<files, flags>>

Others ==
    \/ Edit
    \/ Signal
    \/ TakeSignal \/ Load \/ Lock \/ ShutdownClients \/ Unlock \/ Reply
    \/ \E p \in Posts : Post(p) \/ TakePost(p)
    \/ \E q \in Requests : Arrive(q) \/ Depart(q)

SettingsNext == Configure \/ (Others /\ UNCHANGED settings)

SettingsSpec == SettingsInit /\ [][SettingsNext]_settingsVars

SettingsFairSpec == SettingsSpec /\ Fairness

-----------------------------------------------------------------------------
OfFile(n) == IF n \in DOMAIN files[running] THEN files[running][n] ELSE Default[n]

(* What the user may rely on.  A flag that was given a value wins, and so    *)
(* does a zero for a duration that reload() puts back; a setting that has no *)
(* default and no flag is as the running edition of the file has it.  Which  *)
(* edition that is, and that no earlier one shows through, is what a reload  *)
(* has to get right.  A setting that has a default and no flag is the matter *)
(* of FileInForce; a zero for any other flag is as good as no flag.         *)
SettingsInForce ==
    \A n \in Names :
        /\ n \in DOMAIN flags /\ (flags[n] # Empty \/ n \in PutBack) => cfg[n] = flags[n]
        /\ n \notin DOMAIN flags /\ Default[n] = Empty => cfg[n] = OfFile(n)

-----------------------------------------------------------------------------
(* What the chart says, and the code does not do. *)

(* What the file sets is in force unless a flag was given: the values of the *)
(* chart name carbon_reconnect_interval, for which there is no flag, and     *)
(* paths_cache_ttl as settings of the file (values.yaml).                   *)
FileInForce ==
    \A n \in Names :
        n \notin DOMAIN flags /\ n \in DOMAIN files[running] => cfg[n] = files[running][n]

=============================================================================

---------------------------- MODULE SharedSetup -----------------------------
(***************************************************************************)
(* One setup for every account (src/daemon/src/sharedSetup.ts, run by      *)
(* pollAccounts of src/daemon/src/main.ts at every poll).  Settings are    *)
(* merged into the default account's file and every other account's file   *)
(* becomes a link to it; MCP logins are joined into every account's        *)
(* credentials.  The daemon reads all files, then writes them one by one,  *)
(* while Claude Code processes of any account write the same files; the    *)
(* settings are taken as one step, the credentials file by file.           *)
(*                                                                         *)
(* A settings file is the set of entries in it (hooks and permissions are  *)
(* joined; first-wins keys are not modelled), and the default account has  *)
(* one that can be read.  An MCP login is the number of the sign-in that   *)
(* produced it, 0 the stub of an unfinished one; an account's own Claude   *)
(* login is the number of its last refresh.  An account's settings may     *)
(* also be its user's own link to a file kept elsewhere.                   *)
(***************************************************************************)
EXTENDS Naturals, FiniteSets, FiniteSetsExt

CONSTANTS SetupHome,        \* ~/.claude
          SetupNamed,       \* the named accounts' directories
          Entries,          \* settings entries
          MaxWrites, MaxShares   \* bounds

ASSUME SetupAssumption ==
    SetupHome \notin SetupNamed /\ MaxWrites \in Nat /\ MaxShares \in Nat

SetupDirs == SetupNamed \cup {SetupHome}

VARIABLES mainSettings,  \* entries of ~/.claude/settings.json
          ownSettings,   \* per named account: the link, or what it has instead
          entered,       \* every entry a save recorded
          severed,       \* history: entries in files that lost their link
          creds,         \* per account: its own login, its MCP login, file time
          newestMcp,     \* the last MCP sign-in
          sharing,       \* where shareAccountSetup stands
          taken,         \* what it has read
          disturbed,     \* a file was written while it ran, or cannot be read
          overtaken,     \* an account saved an older MCP login after the newest
          writes, shares \* bounds

setupVars == <<mainSettings, ownSettings, entered, severed, creds, newestMcp, sharing,
               taken, disturbed, overtaken, writes, shares>>

Linked == [kind |-> "link", has |-> {}]
OwnFile(entries) == [kind |-> "file", has |-> entries]
Unreadable(entries) == [kind |-> "broken", has |-> entries]
Elsewhere(entries) == [kind |-> "elsewhere", has |-> entries]
SeenBy(d) == IF ownSettings[d] = Linked THEN mainSettings ELSE ownSettings[d].has

Clock == Max({creds[d].at : d \in SetupDirs})

SetupInit ==
    /\ mainSettings = {} /\ entered = {} /\ severed = {}
    /\ ownSettings = [d \in SetupNamed |-> OwnFile({})]
    /\ creds = [d \in SetupDirs |-> [own |-> 0, mcp |-> 0, at |-> 0]]
    /\ newestMcp = 0
    /\ sharing = "no" /\ taken = creds
    /\ disturbed = FALSE /\ overtaken = FALSE
    /\ writes = 0 /\ shares = 0

Writes == writes < MaxWrites /\ writes' = writes + 1

(* Claude Code saves settings by replacing the file: a link becomes a file  *)
(* of its own.                                                              *)
SaveSettings(d, e) ==
    /\ Writes
    /\ ownSettings[d].kind # "broken"
    /\ ownSettings' = [ownSettings EXCEPT ![d] = OwnFile(SeenBy(d) \cup {e})]
    /\ entered' = entered \cup {e}
    /\ disturbed' = (disturbed \/ sharing # "no")
    /\ UNCHANGED <<overtaken, severed, mainSettings, creds, newestMcp, sharing, taken, shares>>

(* The default account's own save, or an edit of the shared file by hand. *)
SaveMain(e) ==
    /\ Writes
    /\ mainSettings' = mainSettings \cup {e}
    /\ entered' = entered \cup {e}
    /\ disturbed' = (disturbed \/ sharing # "no")
    /\ UNCHANGED <<overtaken, severed, ownSettings, creds, newestMcp, sharing, taken, shares>>

(* An edit by hand that leaves the file no valid JSON. *)
BreakSettings(d, e) ==
    /\ Writes
    /\ ownSettings[d].kind = "file"
    /\ ownSettings' = [ownSettings EXCEPT ![d] = Unreadable(SeenBy(d) \cup {e})]
    /\ entered' = entered \cup {e}
    /\ disturbed' = TRUE
    /\ UNCHANGED <<overtaken, severed, mainSettings, creds, newestMcp, sharing, taken, shares>>

(* The user keeps the settings of an account somewhere else. *)
LinkElsewhere(d, e) ==
    /\ Writes
    /\ ownSettings[d].kind # "broken"
    /\ ownSettings' = [ownSettings EXCEPT ![d] = Elsewhere(SeenBy(d) \cup {e})]
    /\ entered' = entered \cup {e}
    /\ disturbed' = (disturbed \/ sharing # "no")
    /\ UNCHANGED <<overtaken, severed, mainSettings, creds, newestMcp, sharing, taken, shares>>

(* A sign-in to the MCP server, in one account. *)
McpSignIn(d) ==
    /\ Writes
    /\ newestMcp' = newestMcp + 1
    /\ creds' = [creds EXCEPT ![d] = [own |-> @.own, mcp |-> newestMcp', at |-> Clock + 1]]
    /\ disturbed' = (disturbed \/ sharing # "no")
    /\ UNCHANGED <<overtaken, severed, mainSettings, ownSettings, entered, sharing, taken, shares>>

(* Claude Code refreshes the account's own login: the whole file is         *)
(* written, with the MCP login it had.                                      *)
RefreshLogin(d) ==
    /\ Writes
    /\ creds' = [creds EXCEPT ![d] = [own |-> @.own + 1, mcp |-> @.mcp, at |-> Clock + 1]]
    /\ disturbed' = (disturbed \/ sharing # "no")
    /\ overtaken' = (overtaken \/ creds[d].mcp # newestMcp)
    /\ UNCHANGED <<mainSettings, ownSettings, entered, severed, newestMcp, sharing, taken, shares>>

(* shareSettings: the readable files of their own are merged into the main  *)
(* one (and kept aside); then what is not that link is removed and linked,   *)
(* a link to some other file too, which is not among those that were read.   *)
shareSettings ==
    /\ sharing = "no" /\ shares < MaxShares
    /\ LET own == {d \in SetupNamed : ownSettings[d].kind = "file"} IN
        mainSettings' = mainSettings \cup UNION {ownSettings[d].has : d \in own}
    /\ ownSettings' = [d \in SetupNamed |-> Linked]
    /\ severed' = severed \cup UNION {ownSettings[d].has :
                                         d \in {n \in SetupNamed : ownSettings[n].kind = "elsewhere"}}
    /\ sharing' = "settings"
    /\ shares' = shares + 1
    /\ UNCHANGED <<overtaken, entered, creds, newestMcp, taken, disturbed, writes>>

(* shareMcp reads every credentials file. *)
ReadCreds ==
    /\ sharing = "settings"
    /\ sharing' = "write"
    /\ taken' = creds
    /\ UNCHANGED <<overtaken, severed, mainSettings, ownSettings, entered, creds, newestMcp,
                   disturbed, writes, shares>>

newestLogins_AnyFilled(c) ==
    LET filled == {d \in SetupDirs : c[d].mcp # 0} IN
    IF filled = {} THEN 0 ELSE c[CHOOSE d \in filled : TRUE].mcp

(* The login kept for all: a real one before a stub, then the one whose     *)
(* file was saved last.                                                     *)
newestLogins(c) ==
    LET filled == {d \in SetupDirs : c[d].mcp # 0}
        last == {d \in filled : \A o \in filled : c[o].at <= c[d].at}
    IN IF filled = {} THEN 0 ELSE c[CHOOSE d \in last : TRUE].mcp

(* One file is written, from what was read of it; unchanged ones are not.   *)
WriteCreds(d) ==
    /\ sharing = "write"
    /\ newestLogins(taken) # taken[d].mcp
    /\ taken' = [taken EXCEPT ![d] = [own |-> @.own, mcp |-> newestLogins(taken), at |-> Clock + 1]]
    /\ creds' = [creds EXCEPT ![d] = taken'[d]]
    /\ UNCHANGED <<overtaken, severed, mainSettings, ownSettings, entered, newestMcp, sharing,
                   disturbed, writes, shares>>

ShareDone ==
    /\ sharing = "write"
    /\ \A d \in SetupDirs : newestLogins(taken) = taken[d].mcp
    /\ sharing' = "no"
    /\ taken' = [d \in SetupDirs |-> [own |-> 0, mcp |-> 0, at |-> 0]]
    /\ UNCHANGED <<overtaken, severed, mainSettings, ownSettings, entered, creds, newestMcp,
                   disturbed, writes, shares>>

SetupNext ==
    \/ \E e \in Entries : SaveMain(e)
    \/ \E d \in SetupNamed, e \in Entries : SaveSettings(d, e) \/ BreakSettings(d, e)
                                          \/ LinkElsewhere(d, e)
    \/ \E d \in SetupDirs : McpSignIn(d) \/ RefreshLogin(d) \/ WriteCreds(d)
    \/ shareSettings
    \/ ReadCreds
    \/ ShareDone

SetupSpec == SetupInit /\ [][SetupNext]_setupVars

-----------------------------------------------------------------------------
(* Sharing costs nobody anything: every settings entry ever saved is in the *)
(* shared file or waits in an account's own, and the last MCP sign-in is in *)
(* some account.  Not covered: entries of a file elsewhere that an account  *)
(* was linked to (it stays, but no account reads it), a file written while  *)
(* the daemon shares, a file of settings it cannot read, and an account     *)
(* that saves its credentials, with an older MCP login in them, after the   *)
(* sign-in: the file's time then speaks for the older login, although       *)
(* "signing in again in any account must not be overruled by a stale copy   *)
(* elsewhere".                                                              *)
SharingLosesNothing ==
    ~disturbed /\ ~overtaken =>
        /\ entered \subseteq
               mainSettings \cup severed \cup UNION {ownSettings[d].has : d \in SetupNamed}
        /\ \E d \in SetupDirs : creds[d].mcp = newestMcp
=============================================================================

---------------------------- MODULE Transcripts -----------------------------
(***************************************************************************)
(* One conversation across accounts and folders (src/daemon/src/accounts.ts *)
(* and ensureQuery of src/daemon/src/session.ts).  Claude Code keeps a     *)
(* conversation in a file under the config directory of the account and    *)
(* the folder it runs with, and resumes only from there.  Before a launch  *)
(* the daemon looks through the directories of the accounts it lists and   *)
(* copies the newest file it finds to where the launch will look.          *)
(*                                                                         *)
(* A file is the sequence of turns it holds and its modification time.     *)
(* The Claude Code process a switch closes is taken to have written what   *)
(* it writes before the next launch.                                       *)
(***************************************************************************)
EXTENDS Naturals, Sequences

CONSTANTS HomeDir,       \* ~/.claude, the default account
          NamedDirs,     \* directories under ~/.claude-accounts
          Folders,       \* working folders, each with its own project directory
          Logins,        \* people who can be signed in
          MaxTurns, MaxChanges   \* bounds

ASSUME TranscriptsAssumption ==
    /\ HomeDir \notin NamedDirs
    /\ Folders # {}
    /\ MaxTurns \in Nat /\ MaxChanges \in Nat

AccountDirs == NamedDirs \cup {HomeDir}
Nowhere == "nowhere"           \* no login, no process
NoFile == [turns |-> <<>>, at |-> 0]

VARIABLES login,      \* whose credentials a directory holds, or Nowhere
          chosen,     \* account.json: the stored choice (HomeDir stands for null)
          folder,     \* meta.cwd
          resumeId,   \* meta.sdkSessionId is set
          copies,     \* the conversation's files, by directory and folder
          cli,        \* the directory the live query runs with, or Nowhere
          said,       \* every turn of the conversation
          strayed,    \* a launch found the newest file outside what it searches
          changes     \* bound

transcriptsVars == <<login, chosen, folder, resumeId, copies, cli, said, strayed, changes>>

Place == AccountDirs \X Folders
Held == {p \in Place : copies[p] # NoFile}

(* Named directories with credentials, and the one among them that is the  *)
(* same login as the default account's: it hides the default row.          *)
Named == {d \in NamedDirs : login[d] # Nowhere}
Twins == IF login[HomeDir] = Nowhere THEN {} ELSE {d \in Named : login[d] = login[HomeDir]}
scanAccounts == Named \cup (IF Twins = {} THEN {HomeDir} ELSE {})

effectiveActive ==
    IF chosen = HomeDir /\ Twins # {} THEN CHOOSE d \in Twins : TRUE ELSE chosen

isNewer(a, b) == a.at > b.at \/ (a.at = b.at /\ Len(a.turns) > Len(b.turns))

(* Where a launch looks: the active directory and every listed account's,  *)
(* any folder of them.                                                     *)
Searched == {p \in Held : p[1] \in scanAccounts \cup {effectiveActive}}
NewestOf(places) == {p \in places : \A q \in places : ~isNewer(copies[q], copies[p])}

TranscriptsInit ==
    /\ login = [d \in AccountDirs |-> IF d = HomeDir THEN CHOOSE i \in Logins : TRUE
                                      ELSE Nowhere]
    /\ chosen = HomeDir
    /\ folder = CHOOSE f \in Folders : TRUE
    /\ resumeId = FALSE
    /\ copies = [p \in Place |-> NoFile]
    /\ cli = Nowhere
    /\ said = <<>>
    /\ strayed = FALSE
    /\ changes = 0

ensureSdkTranscript_AnyCopy(dest) ==
    IF copies[dest] # NoFile \/ Searched = {} THEN copies
    ELSE [copies EXCEPT ![dest] = copies[CHOOSE p \in NewestOf(Searched) : TRUE]]

(* The newest file found, copied (with its time) to where the launch looks. *)
ensureSdkTranscript(dest) ==
    IF Searched = {} \/ dest \in NewestOf(Searched) THEN copies
    ELSE [copies EXCEPT ![dest] = copies[CHOOSE p \in NewestOf(Searched) : TRUE]]

(* The launch of a query: without a file to resume from the id is          *)
(* forgotten, and with it every file it names.                             *)
Launch ==
    /\ cli = Nowhere
    /\ LET dest == <<effectiveActive, folder>>
           synced == IF resumeId THEN ensureSdkTranscript(dest) ELSE copies
       IN /\ cli' = effectiveActive
          /\ resumeId' = (resumeId /\ synced[dest] # NoFile)
          /\ copies' = IF resumeId' THEN synced ELSE [p \in Place |-> NoFile]
          /\ strayed' = (strayed \/ (resumeId /\ NewestOf(Held) \cap Searched = {}))
    /\ UNCHANGED <<login, chosen, folder, said, changes>>

(* A turn: the live query appends it to its own file, at a time no earlier *)
(* than any file has.  A fresh conversation's file begins here.            *)
Turn ==
    /\ cli # Nowhere
    /\ Len(said) < MaxTurns
    /\ LET here == <<cli, folder>>
           turn == Len(said) + 1
           before == IF resumeId THEN copies[here].turns ELSE <<>>
       IN /\ \E t \in 1..MaxTurns + 1 :
              /\ \A p \in Held : copies[p].at <= t
              /\ t <= turn + 1
              /\ copies' = [copies EXCEPT ![here] =
                              [turns |-> Append(before, turn), at |-> t]]
          /\ said' = Append(said, turn)
          /\ resumeId' = TRUE
    /\ UNCHANGED <<login, chosen, folder, cli, strayed, changes>>

Changes(n) == changes < MaxChanges /\ changes' = changes + n

(* The user picks a listed account: setActive, and every live query closed. *)
SetAccount(d) ==
    /\ Changes(1)
    /\ d \in scanAccounts
    /\ chosen' = d /\ cli' = Nowhere
    /\ UNCHANGED <<login, folder, resumeId, copies, said, strayed>>

(* A sign-in through the panel: credentials, and the account made active. *)
SignIn(d, i) ==
    /\ Changes(1)
    /\ login' = [login EXCEPT ![d] = i]
    /\ chosen' = d /\ cli' = Nowhere
    /\ UNCHANGED <<folder, resumeId, copies, said, strayed>>

(* Credentials written or removed by Claude Code itself, in a terminal. *)
OutsideLogin(d, i) ==
    /\ Changes(1)
    /\ login[d] # i
    /\ login' = [login EXCEPT ![d] = i]
    /\ UNCHANGED <<chosen, folder, resumeId, copies, cli, said, strayed>>

(* moveTo: refused mid-turn, else the query is closed and the folder set. *)
MoveTo(f) ==
    /\ Changes(1)
    /\ f # folder
    /\ folder' = f /\ cli' = Nowhere
    /\ UNCHANGED <<login, chosen, resumeId, copies, said, strayed>>

TranscriptsNext ==
    \/ Launch
    \/ Turn
    \/ \E d \in AccountDirs : SetAccount(d)
    \/ \E d \in AccountDirs, i \in Logins : SignIn(d, i)
    \/ \E d \in AccountDirs, i \in Logins \cup {Nowhere} : OutsideLogin(d, i)
    \/ \E f \in Folders : MoveTo(f)

TranscriptsSpec == TranscriptsInit /\ [][TranscriptsNext]_transcriptsVars

-----------------------------------------------------------------------------
(* The running query holds the whole conversation, through any switches of *)
(* account and moves of folder, as long as every launch searched the       *)
(* directory with the newest file: the newest copy is never a short one.   *)
ResumesTheWhole ==
    ~strayed =>
        /\ said # <<>> => \A p \in NewestOf(Held) : copies[p].turns = said
        /\ cli # Nowhere /\ said # <<>> =>
               resumeId /\ copies[<<cli, folder>>].turns = said

(* accounts.ts, of ensureSdkTranscript: "before launching, make sure the   *)
(* active dir holds the newest copy of the SDK-side transcript".           *)
HistoryIsCarried ==
    cli # Nowhere /\ said # <<>> => resumeId /\ copies[<<cli, folder>>].turns = said
=============================================================================

------------------------------ MODULE MCParts -------------------------------
(***************************************************************************)
(* Instances of the components whose promises are invariants, and of       *)
(* Ownership, for its invariants.  They share no state, so a run takes     *)
(* them one at a time: part says which of them moves in a behaviour, and   *)
(* the others stay as they begin.                                          *)
(***************************************************************************)
EXTENDS Titles, Permissions, Transcripts, SharedSetup, Composer, Preview, Registry, Limits,
        Ownership

VARIABLE part

partsVars == <<part, titlesVars, permissionsVars, transcriptsVars,
               setupVars, composerVars, previewVars, registryVars, limitsVars, vars>>

PartsInit ==
    /\ part \in {"titles", "permissions", "transcripts", "setup", "composer",
                 "preview", "registry", "limits", "ownership"}
    /\ TitlesInit /\ PermissionsInit /\ TranscriptsInit
    /\ SetupInit /\ ComposerInit /\ PreviewInit /\ RegistryInit /\ LimitsInit
    /\ Init

PartsNext ==
    /\ UNCHANGED part
    /\ IF part = "titles" THEN TitlesNext ELSE UNCHANGED titlesVars
    /\ IF part = "permissions" THEN PermissionsNext ELSE UNCHANGED permissionsVars
    /\ IF part = "transcripts" THEN TranscriptsNext ELSE UNCHANGED transcriptsVars
    /\ IF part = "setup" THEN SetupNext ELSE UNCHANGED setupVars
    /\ IF part = "composer" THEN ComposerNext ELSE UNCHANGED composerVars
    /\ IF part = "preview" THEN PreviewNext ELSE UNCHANGED previewVars
    /\ IF part = "registry" THEN RegistryNext ELSE UNCHANGED registryVars
    /\ IF part = "limits" THEN LimitsNext ELSE UNCHANGED limitsVars
    /\ IF part = "ownership" THEN Next ELSE UNCHANGED vars

PartsSpec == PartsInit /\ [][PartsNext]_partsVars

(* Names by the stems of their words: the last rewords the two others. *)
SomeNames == {{1}, {2}, {1, 2}}
FirstName == {0}

(* One file of the server and one of two chunks from the browser. *)
ChunksOfFile == <<0, 2>>
=============================================================================

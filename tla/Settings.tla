------------------------------- MODULE Settings -------------------------------
(***************************************************************************)
(* Saves of the settings, by the forms of the desktop and the commands of   *)
(* the command line, of several processes on one workspace: the user's and  *)
(* the project's settings file, of which a save replaces one, and the       *)
(* library of model profiles, which is saved first when a profile is.       *)
(*                                                                          *)
(* Of the settings the model of each slot is kept, and the permission mode  *)
(* as a field beside them.  A file of version 1 may bind slots in its       *)
(* legacy fields; version 2 binds every slot and counts revisions.  One     *)
(* library is modelled, and of a profile the slots it may be used for.      *)
(***************************************************************************)
EXTENDS Naturals

CONSTANTS
    Writer,   \* saves, each used once
    Slot,     \* the slots a model is bound to
    Profile,  \* the profiles a save may create or bind
    Legacy,   \* the profile that a file may bind at the start, in the library for every slot
    Classic,  \* the built-in profile of a slot
    None

VARIABLES
    files,    \* the user's and the project's settings file
    library,  \* its revision, and the slots each profile in it is allowed for
    writer,   \* where each save stands
    overlap   \* which of the two kinds of files are saved by several writers at a time

settingsVars == <<files, library, writer, overlap>>

AnyProfile == Profile \cup {Legacy, Classic}
Mode == {"edit", "auto"}
File == [version : {1, 2}, revision : Nat, models : [Slot -> AnyProfile \cup {None}], mode : Mode]
Kind == {"mode", "models", "classic", "profile", "command"}
\* What a save keeps: the form it answers (the two revisions and the models it showed), the library
\* it is about to write, and the settings it is about to write.
NotBegun == [at |-> "idle", kind |-> None, slot |-> None, profile |-> None,
             form |-> None, next |-> None, save |-> None]

SettingsTypeOK ==
    /\ files \in [{"user", "project"} -> File \cup {None}]
    /\ library \in [revision : Nat, allowed : [Profile \cup {Legacy} -> SUBSET Slot]]
    /\ \A w \in Writer :
         \/ writer[w] = NotBegun
         \/ /\ writer[w].at \in {"form", "library", "read", "check", "rename", "saved", "failed"}
            /\ writer[w].kind \in Kind
    /\ overlap \subseteq {"settings", "library"}

-----------------------------------------------------------------------------
(* What a file means.                                                      *)

\* saveDeepMixSettings takes a file that is missing or of version 1 for revision 0.
Revision(file) == IF file = None THEN 0 ELSE file.revision
Version(file) == IF file = None THEN 1 ELSE file.version
Bound(file, slot) == IF file = None THEN None ELSE file.models[slot]

\* The file that saves replace.
Target == IF files["project"] # None THEN "project" ELSE "user"

\* resolveEffectiveModelSettings of one file: what its migration would bind.
EffectiveModels(file) ==
    [slot \in Slot |-> IF Bound(file, slot) = None THEN Classic ELSE Bound(file, slot)]

\* The files merged: a file of version 1 binds nothing once the other one is of version 2.
MergedModels ==
    LET project == files["project"]
        user == files["user"]
    IN  IF Version(project) = 2 THEN EffectiveModels(project)
        ELSE IF Version(user) = 2 THEN EffectiveModels(user)
        ELSE [slot \in Slot |-> IF Bound(project, slot) # None THEN Bound(project, slot)
                                ELSE EffectiveModels(user)[slot]]
MergedRevision ==
    IF Version(files["project"]) = 2 THEN Revision(files["project"]) ELSE Revision(files["user"])

\* The merged revision is that of the file a save replaces, and so are the merged models.
ShowsTarget == Target = "user" \/ Version(files["project"]) = 2 \/ Version(files["user"]) = 1

Unversioned == [version : {1}, revision : {0}, models : [Slot -> {None}] \cup [Slot -> {Legacy}],
                mode : {"edit"}]
Versioned == [version : {2}, revision : {0, 1}, models : [Slot -> {Legacy}], mode : {"edit"}]

SettingsInit ==
    /\ files \in [{"user", "project"} -> {None} \cup Unversioned \cup Versioned]
    /\ library = [revision |-> 0, allowed |-> [p \in Profile \cup {Legacy} |->
                                                    IF p = Legacy THEN Slot ELSE {}]]
    /\ writer = [w \in Writer |-> NotBegun]
    /\ overlap \in SUBSET {"settings", "library"}

-----------------------------------------------------------------------------

Writing == {"library", "read", "check", "rename"}
At(w, place) == writer[w].at = place
Go(w, place) == writer' = [writer EXCEPT ![w].at = place]
IsAlone(w) == "settings" \in overlap \/ \A v \in Writer \ {w} : writer[v].at \notin Writing

\* buildDesktopSettings: a form shows the merged settings and the two revisions.
OpenForm(w) ==
    /\ At(w, "idle")
    /\ \E kind \in Kind \ {"command"}, slot \in Slot, profile \in Profile \cup {Legacy} :
         /\ kind \in {"mode", "classic"} =>
              profile = Legacy /\ slot = CHOOSE s \in Slot : TRUE
         /\ writer' = [writer EXCEPT ![w] =
              [NotBegun EXCEPT !.at = "form", !.kind = kind, !.slot = slot, !.profile = profile,
                               !.form = [expected |-> MergedRevision,
                                         expectedLibrary |-> library.revision,
                                         shown |-> MergedModels, own |-> ShowsTarget]]]
    /\ UNCHANGED <<files, library, overlap>>

\* updateSettings.
Submit(w) ==
    /\ At(w, "form") /\ writer[w].kind # "profile" /\ IsAlone(w)
    /\ Go(w, "read")
    /\ UNCHANGED <<files, library, overlap>>

\* /models set and /models classic read what they replace.
Command(w) ==
    /\ At(w, "idle") /\ IsAlone(w)
    /\ \E slot \in Slot, profile \in Profile \cup {Legacy, Classic} :
         writer' = [writer EXCEPT ![w] =
           [NotBegun EXCEPT !.at = "read", !.kind = "command", !.slot = slot, !.profile = profile]]
    /\ UNCHANGED <<files, library, overlap>>

\* A profile that is saved again stays allowed for its slots.
AllowedAfter(w) == library.allowed[writer[w].profile] \cup {writer[w].slot}

\* saveModelProfile and saveProfile, up to the first await: both revisions have to be the form's.
CheckProfile(w) ==
    /\ At(w, "form") /\ writer[w].kind = "profile" /\ IsAlone(w)
    /\ "library" \in overlap \/ \A v \in Writer : ~At(v, "library")
    /\ IF /\ MergedRevision = writer[w].form.expected
          /\ library.revision = writer[w].form.expectedLibrary
         THEN writer' = [writer EXCEPT ![w].at = "library",
                                       ![w].next = [revision |-> library.revision + 1,
                                                    allowed |-> [library.allowed EXCEPT
                                                      ![writer[w].profile] = AllowedAfter(w)]]]
         ELSE Go(w, "failed")
    /\ UNCHANGED <<files, library, overlap>>

SaveLibrary(w) ==
    /\ At(w, "library")
    /\ library' = writer[w].next
    /\ Go(w, "read")
    /\ UNCHANGED <<files, overlap>>

\* ProfileService.gate.
Gate(w) ==
    \/ writer[w].kind \in {"mode", "classic"} \/ writer[w].profile = Classic
    \/ writer[w].slot \in library.allowed[writer[w].profile]

\* The models that a save writes: those of the file alone, or the built-in ones, and its patch.
Patched(w, file) ==
    IF writer[w].kind = "classic" \/ writer[w].profile = Classic THEN [slot \in Slot |-> Classic]
    ELSE IF writer[w].kind = "mode" THEN EffectiveModels(file)
    ELSE [EffectiveModels(file) EXCEPT ![writer[w].slot] = writer[w].profile]

\* Mutant: the form's revision is ignored.
ExpectedAny(w) == Revision(files[Target])

\* The mode has no revision, and a command takes the one it reads.
Expected(w) ==
    IF writer[w].kind \in {"mode", "command"} THEN Revision(files[Target])
    ELSE writer[w].form.expected

\* writeSettingsPatch or readProjectSettingsForWrite.
Read(w) ==
    /\ At(w, "read")
    /\ IF Gate(w)
         THEN writer' = [writer EXCEPT ![w].at = "check",
                ![w].save = [file |-> Target, expected |-> Expected(w),
                             models |-> Patched(w, files[Target]),
                             mode |-> IF writer[w].kind = "mode" THEN "auto"
                                      ELSE IF files[Target] = None THEN "edit"
                                      ELSE files[Target].mode]]
         ELSE Go(w, "failed")
    /\ UNCHANGED <<files, library, overlap>>

\* saveDeepMixSettings reads the file again and compares the revision; then it writes another file.
Check(w) ==
    /\ At(w, "check")
    /\ Go(w, IF Revision(files[writer[w].save.file]) = writer[w].save.expected
             THEN "rename" ELSE "failed")
    /\ UNCHANGED <<files, library, overlap>>

Rename(w) ==
    /\ At(w, "rename")
    /\ LET save == writer[w].save IN
         files' = [files EXCEPT ![save.file] =
           [version |-> 2, revision |-> save.expected + 1, models |-> save.models, mode |-> save.mode]]
    /\ Go(w, "saved")
    /\ UNCHANGED <<library, overlap>>

\* A file cannot be written; of a profile and its binding the first may be there.
WriteFails(w) ==
    /\ writer[w].at \in {"library", "rename"}
    /\ Go(w, "failed")
    /\ UNCHANGED <<files, library, overlap>>

SettingsNext ==
    \E w \in Writer :
        \/ OpenForm(w) \/ Submit(w) \/ Command(w) \/ CheckProfile(w) \/ SaveLibrary(w)
        \/ Read(w) \/ Check(w) \/ Rename(w) \/ WriteFails(w)

Spec == SettingsInit /\ [][SettingsNext]_settingsVars

-----------------------------------------------------------------------------
(* Properties.                                                             *)

\* When saves do not overlap, a form that binds models is accepted only if the bindings are still
\* those it showed, however long it was open: the revision stands for them.  Not when the project's
\* file is of version 1 and the user's of version 2: the form then has the revision of another file.
FormReplacesWhatItShowed ==
    [][\A w \in Writer :
         /\ At(w, "rename") /\ writer'[w].at = "saved"
         /\ writer[w].kind \in {"models", "classic", "profile"} /\ writer[w].form.own
         /\ overlap = {}
         => MergedModels = writer[w].form.shown]_settingsVars

\* A slot is never bound to a profile that is not in the library or is not allowed for it, also
\* when saves of the settings overlap and fail, as long as saves of the library do not overlap.
BoundProfileAllowed ==
    "library" \notin overlap =>
        \A slot \in Slot :
            LET profile == MergedModels[slot]
            IN  profile = Classic \/ slot \in library.allowed[profile]

\* "Writes use compare-and-swap so concurrent Desktop updates fail instead of silently overwriting
\* one another": what a save replaces has the revision it compared.  TLC refutes it.
SavesKeepChanges ==
    [][\A w \in Writer : At(w, "rename") /\ writer'[w].at = "saved" =>
         Revision(files[writer[w].save.file]) = writer[w].save.expected]_settingsVars

\* A save changes the slot of its patch only.  TLC refutes it: a project's file that binds nothing
\* is written with the built-in bindings, which cover those of the user's file.
SaveKeepsOtherSlots ==
    [][\A w \in Writer : At(w, "rename") /\ writer'[w].at = "saved" /\ overlap = {} =>
         \A slot \in Slot :
             \/ MergedModels'[slot] = MergedModels[slot]
             \/ writer[w].kind = "classic" \/ writer[w].profile = Classic
             \/ writer[w].kind # "mode" /\ writer[w].slot = slot]_settingsVars
=============================================================================

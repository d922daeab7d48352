----------------------------- MODULE ProfileFiles -----------------------------
(***************************************************************************)
(* The life of profile files: a program holds a profile, changes it, saves *)
(* it in one directory or another and loads files, some of which were      *)
(* written or changed by hand.                                             *)
(***************************************************************************)
EXTENDS Profile

CONSTANTS
    Directories,   \* places of directories that may hold a profile
    Revisions,     \* what the dialogs change: records of fields of a profile
    HandEdits,     \* what a text editor changes: part, key and value of a document
    MaxRevisions,  \* bounds on the number of revisions and of edits
    MaxHandEdits

VARIABLES
    files,     \* of a directory that has a file, the document in it
    held,      \* the profile the program holds
    kept,      \* history: of a file that is untouched, the profile saved in it
    changes    \* history: the number of revisions and of edits

filesVars == <<files, held, kept, changes>>

FilesInit ==
    /\ files = <<>>
    /\ held = DefaultProfile
    /\ kept = <<>>
    /\ changes = [revisions |-> 0, edits |-> 0]

NewProfile ==
    /\ held' = DefaultProfile
    /\ UNCHANGED <<files, kept, changes>>

Revise(revision) ==
    /\ changes.revisions < MaxRevisions
    /\ changes' = [changes EXCEPT !.revisions = @ + 1]
    /\ held' = Over(revision, held)
    /\ UNCHANGED <<files, kept>>

(* The profile keeps the directory it was loaded from.                     *)
SaveTo(d) ==
    /\ files' = With(files, d, Save(held, d))
    /\ kept' = With(kept, d, held)
    /\ UNCHANGED <<held, changes>>

(* A file that is not accepted leaves the program with what it has.        *)
Open(d) ==
    /\ held' = IF d \in DOMAIN files /\ Valid(files[d]) THEN Load(files[d], d) ELSE held
    /\ UNCHANGED <<files, kept, changes>>

Put(object, edit) ==
    IF edit.value = None THEN Restrict(object, DOMAIN object \ {edit.key})
    ELSE With(object, edit.key, edit.value)

(* The document after an edit; parts of lists are edited in the first item.*)
Edited(doc, edit) ==
    CASE edit.part \in {"top", "settings"} -> [doc EXCEPT ![edit.part] = Put(@, edit)]
      [] edit.part \in {"outputs", "custom", "engines"} \cap DOMAIN doc ->
            [doc EXCEPT ![edit.part] =
                [i \in DOMAIN @ |-> IF i = 1 THEN Put(@[i], edit) ELSE @[i]]]
      [] edit.part = "destination" -> [doc EXCEPT !.destination = {Put(d, edit) : d \in @}]
      [] OTHER -> Restrict(doc, DOMAIN doc \ {"engines"})

EditFile(d, edit) ==
    /\ d \in DOMAIN files
    /\ changes.edits < MaxHandEdits
    /\ changes' = [changes EXCEPT !.edits = @ + 1]
    /\ files' = [files EXCEPT ![d] = Edited(@, edit)]
    /\ kept' = Restrict(kept, DOMAIN kept \ {d})
    /\ UNCHANGED held

FilesNext ==
    \/ NewProfile
    \/ \E d \in Directories : SaveTo(d) \/ Open(d) \/ \E e \in HandEdits : EditFile(d, e)
    \/ \E revision \in Revisions : Revise(revision)

FilesSpec == FilesInit /\ [][FilesNext]_filesVars

-----------------------------------------------------------------------------
(* What the dialogs make of a profile is one the program can hold, and the *)
(* path of a track or a log changes with the mode; what an editor writes   *)
(* for a path or a number is one.                                          *)
FilesAssumption ==
    /\ ProfileAssumption /\ Directories \subseteq Int
    /\ \A revision \in Revisions :
        /\ DOMAIN revision \subseteq DOMAIN DefaultProfile \ {"base_directory"}
        /\ {"track_path", "replay_path"} \cap DOMAIN revision # {} => "texts" \in DOMAIN revision
        /\ Sound(Over(revision, DefaultProfile))
    /\ \A edit \in HandEdits :
        edit.part \in {"top", "outputs"} /\ edit.value # None
            => IsObject([k \in {edit.key} |-> edit.value])

(* Inductive: what is held and what is in the files, as the history has it.*)
FilesInv ==
    /\ Sound(held)
    /\ \A d \in DOMAIN files : d \in Directories /\ IsDocument(files[d])
    /\ \A d \in DOMAIN kept : /\ d \in DOMAIN files
                              /\ Sound(kept[d]) /\ files[d] = Save(kept[d], d)

-----------------------------------------------------------------------------
Values == {"numbers", "integers", "flags", "texts", "unsigned", "engines", "destination",
           "sentences", "custom_sentences"}

SameOutput(a, b) ==
    /\ a.type = b.type /\ a.filter = b.filter
    /\ \A part \in {"numbers", "integers", "flags", "texts"} :
        Restrict(a[part], UsedKeys(a) \cap DOMAIN a[part])
            = Restrict(b[part], UsedKeys(b) \cap DOMAIN b[part])

SameFile(p, path, q, other) ==
    IF path = NoPath THEN other = NoPath ELSE PlaceOf(p, path) = PlaceOf(q, other)

PathsOf(p) == {p.track_path, p.replay_path}
              \cup {p.outputs[i].path : i \in {j \in DOMAIN p.outputs :
                                                p.outputs[j].type \in {"file", "log"}}}

(* Of a profile that has no directory yet, a relative path means another   *)
(* file once the profile is loaded.                                        *)
Anchored(p) == p.base_directory # None \/ \A path \in PathsOf(p) : ~ path.relative

Same(p, q) ==
    /\ \A part \in Values : p[part] = q[part]
    /\ Len(p.outputs) = Len(q.outputs)
    /\ \A i \in DOMAIN p.outputs : SameOutput(p.outputs[i], q.outputs[i])
    /\ Anchored(p) =>
        /\ SameFile(p, p.track_path, q, q.track_path)
        /\ SameFile(p, p.replay_path, q, q.replay_path)
        /\ \A i \in DOMAIN p.outputs :
            p.outputs[i].type \in {"file", "log"}
                => SameFile(p, p.outputs[i].path, q, q.outputs[i].path)

(* What the runner and the schedule need of a profile that was accepted.   *)
Fit(p) ==
    /\ p.integers["tick_ms"] \in 10 .. LongestTick
    /\ p.numbers["track.speed_kn"] > 0
    /\ p.texts["mode"] = "track" => p.track_path # NoPath
    /\ p.texts["mode"] = "replay" => p.replay_path # NoPath
    /\ \A i, j \in DOMAIN p.custom_sentences :
        LET id(k) == EffectiveId(p.custom_sentences[k], k)
        IN  id(i) \notin SentenceIds /\ (i # j => id(i) # id(j))

(* A file that nobody touched since it was saved loads again, as the       *)
(* profile that was saved: the same values, wherever a key is used, and    *)
(* paths that name the same files although the directory is another; and   *)
(* whatever the files went through, the profile the program holds is one   *)
(* it can run (Profile::save, load, from_json, to_json).                   *)
LoadsWhatWasSaved ==
    /\ Fit(held)
    /\ \A d \in DOMAIN kept : Valid(files[d]) /\ Same(kept[d], Load(files[d], d))
=============================================================================

------------------------------ MODULE Settings ------------------------------
(***************************************************************************)
(* The settings file of the server: settings.Doc, the store of the daemon  *)
(* behind the console commands and behind the patches of the editors, and  *)
(* the settings screen of the console (tui), which stages changes against  *)
(* the revision it was shown and saves them together.  The file has blocks *)
(* under keys: sections of the schema, whose discriminator has a default,  *)
(* and entries of keyed collections, whose discriminator has none; each    *)
(* with the adapter it names and a secret of that adapter's block.  What   *)
(* is shown has a mask for every secret, and what comes back with a mask   *)
(* keeps what the file has.  The revision is the hash of the file, so it   *)
(* is the content itself.  A secret is named after the adapter it was      *)
(* typed for; that two adapters call theirs by the same name (headers,     *)
(* dsn) is taken for granted.  Other fields and parsing are left out.      *)
(***************************************************************************)
EXTENDS Integers, Sequences, FiniteSets, Functions

CONSTANTS Editors,
          Blocks,        \* sections with a discriminator, names of entries
          Adapters,    \* values of the discriminator
          Default,     \* key -> the adapter when none is named, or Unset
          WithSecret,  \* adapters whose schema has a secret
          Required,    \* adapters whose schema requires it
          MaxStaged, MaxSaved     \* bounds

Unset == "unset"

ASSUME SettingsAssumption ==
    /\ Required \subseteq WithSecret /\ WithSecret \subseteq Adapters /\ Unset \notin Adapters
    /\ Default \in [Blocks -> Adapters \union {Unset}]
    /\ {MaxStaged, MaxSaved} \subseteq Nat

VARIABLES document,  \* the file: key -> entry, for the blocks that are there
          restartDue,\* Restart was granted and the process is not up again
          screen,    \* editor -> its settingsState
          saving,    \* the write under way in the store, behind its mutex
          saved      \* writes so far

settingsVars == <<document, restartDue, screen, saving, saved>>

Entry(adapter, secret) == [adapter |-> adapter, secret |-> secret]

----------------------------------------------------------------------------
(* Doc: one change of the tree.  What is set creates what it needs on the  *)
(* way; what is cleared and not there stays so.                            *)

Refused == [ok |-> FALSE, doc |-> <<>>]
Accepted(doc) == [ok |-> TRUE, doc |-> doc]
At(doc, key) == IF key \in DOMAIN doc THEN doc[key] ELSE Entry(Unset, Unset)
put(doc, key, entry) == [k \in DOMAIN doc \union {key} |-> IF k = key THEN entry ELSE doc[k]]
drop(doc, key) == Restrict(doc, DOMAIN doc \ {key})

(* stringAt: the adapter named, or the default.                            *)
stringAt(entry, key) == IF entry.adapter = Unset THEN Default[key] ELSE entry.adapter
ChosenAt(doc, key) == stringAt(At(doc, key), key)

(* Another adapter: the block of the old one goes with it (blockOf).       *)
setAdapter(doc, change) ==
    Accepted(put(doc, change.at, Entry(change.adapter,
        IF ChosenAt(doc, change.at) = change.adapter THEN At(doc, change.at).secret ELSE Unset)))

(* An empty value: the field alone is dropped, before blockOf is asked, so *)
(* the block of the adapter stays.                                         *)
clearAdapter(doc, change) ==
    Accepted(IF change.at \in DOMAIN doc THEN put(doc, change.at, Entry(Unset, At(doc, change.at).secret)) ELSE doc)

(* A path that names no field of the chosen adapter is refused (resolve).  *)
setSecret(doc, change) ==
    IF ChosenAt(doc, change.at) \notin WithSecret THEN Refused
    ELSE Accepted(IF change.secret = Unset /\ change.at \notin DOMAIN doc THEN doc
                  ELSE put(doc, change.at, Entry(At(doc, change.at).adapter, change.secret)))

(* Edit of an entry as it was shown: validateVariantEdit, restoreSecrets.  *)
editUnchecked(doc, change) ==
    IF change.masked /\ At(doc, change.at).secret = Unset
    THEN Refused
    ELSE Accepted(put(doc, change.at, Entry(change.adapter,
            IF change.masked THEN At(doc, change.at).secret ELSE Unset)))
editRedacted(doc, change) ==
    IF change.masked /\ (At(doc, change.at).adapter # change.adapter \/ At(doc, change.at).secret = Unset)
    THEN Refused
    ELSE Accepted(put(doc, change.at, Entry(change.adapter,
            IF change.masked THEN At(doc, change.at).secret ELSE Unset)))

(* A new entry of a collection is blank; its name must be free.            *)
AddEntry(doc, change) ==
    IF change.at \in DOMAIN doc THEN Refused ELSE Accepted(put(doc, change.at, Entry(Unset, Unset)))

RemoveEntry(doc, change) == Accepted(drop(doc, change.at))

Change(doc, change) ==
    CASE change.op = "adapter" -> setAdapter(doc, change)
      [] change.op = "clear" -> clearAdapter(doc, change)
      [] change.op = "secret" -> setSecret(doc, change)
      [] change.op = "edit" -> editRedacted(doc, change)
      [] change.op = "add" -> AddEntry(doc, change)
      [] change.op = "remove" -> RemoveEntry(doc, change)

(* ApplyPatch: every change in turn on what the file has now, if it still  *)
(* has the revision of the patch; the first error ends it.                 *)
carryOn(sofar, change) == IF sofar.ok THEN Change(sofar.doc, change) ELSE Refused
ApplyChanges(doc, changes) ==
    LET after[n \in 0 .. Len(changes)] ==
            IF n = 0 THEN Accepted(doc) ELSE carryOn(after[n - 1], changes[n])
    IN  after[Len(changes)]
ApplyPatch(doc, patch) ==
    IF patch.revision # doc THEN Refused ELSE ApplyChanges(doc, patch.changes)

(* validateExtensions: what the chosen adapter's schema requires is there. *)
(* config.Validate misses an adapter that is not named only for accounts;  *)
(* skins, machines, news, lists and crash reports are saved without one.   *)
validateExtensions(doc) ==
    \A k \in DOMAIN doc : ChosenAt(doc, k) \in Required => doc[k].secret # Unset
Validates(doc) == validateExtensions(doc)

----------------------------------------------------------------------------
(* The store. *)

NoSave == [pc |-> "idle"]
Away == [state |-> "away", patch |-> {}, next |-> {}, page |-> <<>>]

(* Set, Add, Remove, Apply: Open and the changes, under the mutex.         *)
SettingsOpen(result, by) ==
    /\ saving = NoSave /\ ~restartDue
    /\ result.ok /\ Validates(result.doc)
    /\ saving' = [pc |-> "written", doc |-> result.doc, revision |-> document, by |-> by]

(* Save: the temporary file is complete; the file is read once more.       *)
SaveCheck ==
    /\ saving.pc = "written" /\ document = saving.revision
    /\ saving' = [saving EXCEPT !.pc = "checked"]
    /\ UNCHANGED <<document, restartDue, screen, saved>>

(* The answer: the editor drops its patch and loads what is there.         *)
SettingsAnswered(e, ok) ==
    screen' = [screen EXCEPT ![e] = IF ok THEN [Away EXCEPT !.state = "loading"]
                                          ELSE [@ EXCEPT !.state = "shown"]]
Answer(ok) == IF saving.by \in Editors THEN SettingsAnswered(saving.by, ok) ELSE UNCHANGED screen

SaveRename ==
    /\ saving.pc = "checked" /\ saved < MaxSaved
    /\ document' = saving.doc /\ saved' = saved + 1
    /\ saving' = NoSave
    /\ Answer(TRUE)
    /\ UNCHANGED restartDue

(* ErrChanged, when the file was written meanwhile, or an error of the     *)
(* file system.                                                            *)
SaveFails ==
    /\ saving # NoSave
    /\ saving' = NoSave
    /\ Answer(FALSE)
    /\ UNCHANGED <<document, restartDue, saved>>

(* What a console command or the page may ask: settings <path> <value>,    *)
(* settings clear, add and remove.  A secret is typed for the adapter the  *)
(* one who types it sees.                                                  *)
Entries == {k \in Blocks : Default[k] = Unset}
Changes(doc) ==
    [op : {"adapter"}, at : Blocks, adapter : Adapters]
    \union [op : {"clear"}, at : Blocks]
    \union [op : {"secret"}, at : Blocks, secret : WithSecret \union {Unset}]
    \union [op : {"add"}, at : Entries] \union [op : {"remove"}, at : Entries \intersect DOMAIN doc]
Meant(doc, change) == change.op = "secret" => change.secret \in {Unset, ChosenAt(doc, change.at)}

settingsCommand(change) ==
    /\ Meant(document, change)
    /\ SettingsOpen(Change(document, change), "console")
    /\ UNCHANGED <<document, restartDue, screen, saved>>

----------------------------------------------------------------------------
(* The settings screen.  patch and next are sets with at most one patch:   *)
(* the one that was shown and the one whose preview is awaited.            *)

enterSettings(e) ==
    /\ screen[e].state = "away"
    /\ screen' = [screen EXCEPT ![e] = [Away EXCEPT !.state = "loading"]]
    /\ UNCHANGED <<document, restartDue, saving, saved>>

(* Preview on the server and its answer: the page is shown, or the error   *)
(* is, and the patch stays as it was.                                      *)
onSettingsPreview(e) ==
    /\ screen[e].state = "loading" /\ ~restartDue
    /\ LET patch == IF screen[e].next = {} THEN [revision |-> document, changes |-> <<>>]
                    ELSE CHOOSE p \in screen[e].next : TRUE
           result == ApplyPatch(document, patch)
       IN screen' = [screen EXCEPT ![e] =
            IF result.ok THEN [state |-> "shown", patch |-> {patch}, next |-> {}, page |-> result.doc]
                         ELSE [@ EXCEPT !.state = "shown", !.next = {}]]
    /\ UNCHANGED <<document, restartDue, saving, saved>>

(* stageChange: what the page offers, or the entry as shown, with or       *)
(* without its mask, perhaps for another adapter.                          *)
PageOffers(page) ==
    {c \in Changes(page) : Meant(page, c)}
    \union {c \in [op : {"edit"}, at : DOMAIN page, adapter : Adapters \union {Unset}, masked : BOOLEAN] :
               c.masked => page[c.at].secret # Unset}

stageChange(e, change) ==
    /\ screen[e].state = "shown"
    /\ \E p \in screen[e].patch :
        /\ Len(p.changes) < MaxStaged
        /\ screen' = [screen EXCEPT ![e].state = "loading",
                                    ![e].next = {[p EXCEPT !.changes = Append(@, change)]}]
    /\ UNCHANGED <<document, restartDue, saving, saved>>

Dirty(e) == \E p \in screen[e].patch : p.changes # <<>>

(* s, and s again in the review.                                           *)
updateSettingsReview(e) ==
    /\ screen[e].state = "shown" /\ Dirty(e) /\ Validates(screen[e].page)
    /\ \E p \in screen[e].patch : SettingsOpen(ApplyPatch(document, p), e)
    /\ screen' = [screen EXCEPT ![e].state = "saving"]
    /\ UNCHANGED <<document, restartDue, saved>>

(* d, or leaving the screen.                                               *)
discard(e, leave) ==
    /\ screen[e].state = "shown"
    /\ screen' = [screen EXCEPT ![e] = IF leave THEN Away ELSE [Away EXCEPT !.state = "loading"]]
    /\ UNCHANGED <<document, restartDue, saving, saved>>

----------------------------------------------------------------------------
(* Restart: only with a file the server can be built from. *)

Restart ==
    /\ ~restartDue /\ Validates(document)
    /\ restartDue' = TRUE
    /\ UNCHANGED <<document, screen, saving, saved>>

(* The new process; a write that was under way is lost with the old one.   *)
Boot ==
    /\ restartDue /\ Validates(document)
    /\ restartDue' = FALSE /\ saving' = NoSave
    /\ screen' = [e \in Editors |-> IF screen[e].state = "saving" THEN [screen[e] EXCEPT !.state = "shown"] ELSE screen[e]]
    /\ UNCHANGED <<document, saved>>

(* The administrator changes the file with an editor of his own.           *)
HandEdit(doc) ==
    /\ saved < MaxSaved /\ doc # document
    /\ document' = doc /\ saved' = saved + 1
    /\ UNCHANGED <<restartDue, screen, saving>>

ByHand == {drop(document, k) : k \in DOMAIN document}
          \union {Change(document, c).doc : c \in {d \in Changes(document) : d.op = "adapter"}}

SettingsNext ==
    \/ SaveCheck \/ SaveRename \/ SaveFails \/ Restart \/ Boot
    \/ \E change \in Changes(document) : settingsCommand(change)
    \/ \E doc \in ByHand : HandEdit(doc)
    \/ \E e \in Editors :
        \/ enterSettings(e) \/ onSettingsPreview(e) \/ updateSettingsReview(e)
        \/ \E change \in PageOffers(screen[e].page) : stageChange(e, change)
        \/ \E leave \in BOOLEAN : discard(e, leave)

SettingsInit ==
    /\ \/ document = <<>>
       \/ \E k \in Blocks, a \in WithSecret : document = [j \in {k} |-> Entry(a, a)]
    /\ restartDue = FALSE /\ saving = NoSave /\ saved = 0
    /\ screen = [e \in Editors |-> Away]

SettingsSpec == SettingsInit /\ [][SettingsNext]_settingsVars

----------------------------------------------------------------------------
(* Properties. *)

(* view_test.go:108: a secret is not used for another adapter than the one *)
(* it was typed for, whoever edits, replaces or removes blocks meanwhile:  *)
(* a mask never brings it there, nor does a change staged before.          *)
(* settings_test.go:133 says that the block of the old provider is dropped *)
(* and not left behind; where the discriminator is cleared (view.go:358)   *)
(* it is left, but only until an adapter other than the default is chosen. *)
SecretsStay == \A k \in DOMAIN document :
    document[k].secret \in {Unset, ChosenAt(document, k)} \/ ChosenAt(document, k) = Default[k]
=============================================================================

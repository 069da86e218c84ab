----------------------------- MODULE ConfigEditor -----------------------------
(***************************************************************************)
(* The page that edits CPA's config.yaml: ConfigPage over useVisualConfig. *)
(* One text, two editors of it: the source editor holds the text, the      *)
(* visual editor the values of the fields it knows, read from the text     *)
(* when its tab is entered and written into it when its tab is left or     *)
(* saved.  A save fetches the text on the server, shows the difference,    *)
(* and after a confirmation replaces the text and fetches it again.  The   *)
(* server's text changes under the page; reloads, saves and tab changes    *)
(* overlap.  The manager tab's own form is left out: here it is only a     *)
(* tab to go to.                                                           *)
(***************************************************************************)
EXTENDS Integers, FiniteSets

CONSTANTS
    Settings,      \* values of a field; one of them is Default
    Default,       \* what the visual editor shows of a field that is absent
    Absent,        \* a member of the map is not in the text
    Foreign,       \* a value the visual editor does not know
    WrittenTexts,  \* the texts users and other clients write
    MaxEdits,      \* bound: edits by the user
    MaxChanges,    \* bound: changes by other clients
    MaxLoads,      \* bound: loads under way at a time
    MaxRequests    \* bound: loads and saves started

(***************************************************************************)
(* A text.  "field" stands for the fields that are always written (an      *)
(* absent one reads as the default).  "map" tells whether the map of       *)
(* quota-exceeded, or of routing, is there; its "member" (switch-project,  *)
(* strategy) is written with the map, its "opt" (antigravity-credits) only *)
(* if there or changed.  "keys" is the list of api-keys, "entries" how it  *)
(* is written: strings, maps, or maps with keys the editor does not know.  *)
(* "extra" is everything else.  A text that is not YAML is Broken.         *)
(***************************************************************************)
Texts ==
    {t \in [ok : {TRUE}, field : Settings \cup {Foreign}, map : BOOLEAN,
            member : Settings \cup {Absent, Foreign}, opt : Settings \cup {Absent},
            keys : Settings, entries : {"none", "plain", "maps", "annotated"}, extra : Settings] :
        /\ ~t.map => t.member = Absent /\ t.opt = Absent
        /\ t.keys = Default <=> t.entries = "none"}
Empty == [ok |-> TRUE, field |-> Default, map |-> FALSE, member |-> Absent, opt |-> Absent,
          keys |-> Default, entries |-> "none", extra |-> Default]
Broken == [Empty EXCEPT !.ok = FALSE]
AnyText == Texts \cup {Broken}
Fields == {"field", "member", "opt", "keys"}
Tabs == {"visual", "source", "manager"}

ASSUME ConfigAssumption ==
    /\ Default \in Settings /\ {Absent, Foreign} \cap Settings = {} /\ Absent # Foreign
    /\ WrittenTexts \subseteq AnyText
    /\ {MaxEdits, MaxChanges, MaxLoads, MaxRequests} \subseteq Nat
    /\ MaxRequests > 0    \* the page starts with a load

VARIABLES
    activeTab, content, dirty, loading, sourceConfigLoaded,
    saveStep,           \* the saving state and its step: "", "fetching" (handleSave), "putting", "refetching" (handleConfirmSave)
    clicked,            \* what the save under way, or offered by the dialog, captured: its closure
    diff,               \* the DiffModal: open, serverYaml and mergedYaml
    visual,             \* useVisualConfig: values, baseline, dirtyFields, parseError
    loadsInFlight,      \* loadConfig calls under way: id, and the text once the server read it
    server,             \* the config.yaml CPA holds
    requests, edits, otherEdits

configVars == <<activeTab, content, dirty, loading, sourceConfigLoaded, saveStep, clicked, diff,
                visual, loadsInFlight, server, requests, edits, otherEdits>>

\* What is absent or not known reads as the default: an unknown routing.strategy
\* is round-robin.
Known(value) == IF value \in Settings THEN value ELSE Default
ShownValues(text) == [field |-> Known(text.field), member |-> Known(text.member),
                      opt |-> Known(text.opt), keys |-> text.keys]

InitialVisual == [values |-> ShownValues(Empty), baseline |-> ShownValues(Empty),
                  dirtyFields |-> {}, parseError |-> FALSE]
NoClick == [tab |-> "source", dirty |-> FALSE, content |-> Empty, visual |-> InitialVisual,
            loaded |-> FALSE]

\* The page mounts on the visual tab and its effect starts the first load.
ConfigInit ==
    /\ activeTab = "visual" /\ content = Empty /\ dirty = FALSE
    /\ loading = TRUE /\ sourceConfigLoaded = FALSE
    /\ saveStep = "" /\ clicked = NoClick
    /\ diff = [open |-> FALSE, server |-> Empty, merged |-> Empty]
    /\ visual = InitialVisual
    /\ loadsInFlight = {[id |-> 1, read |-> FALSE, text |-> Empty]}
    /\ server \in WrittenTexts \cup {Empty}
    /\ requests = 1 /\ edits = 0 /\ otherEdits = 0

-----------------------------------------------------------------------------
visualDirty == visual.dirtyFields # {}
sourceDirty == dirty \/ visualDirty

\* loadVisualValuesFromYaml(), reduced by load_success or load_error.
LoadedVisual(text, v) ==
    IF text.ok THEN [values |-> ShownValues(text), baseline |-> ShownValues(text),
                     dirtyFields |-> {}, parseError |-> FALSE]
               ELSE [v EXCEPT !.parseError = TRUE]

\* Mutated form: the guarded field is written whenever the text is.
AlwaysWrites(text, v) == TRUE

\* shouldWriteManagedField(): the guarded field must be there, or be changed.
ShouldWriteManagedField(text, v) == text.opt # Absent \/ "opt" \in v.dirtyFields

\* applyVisualChangesToYaml(): every managed value, changed or not, is written;
\* the map's member with the map, which is there for any of its fields; every
\* key as a map of what the editor knows of it (a key that was read has an
\* access rule).  A text that is not YAML is returned as it is.
ApplyVisualChangesToYaml(text, v) ==
    IF ~text.ok THEN text
    ELSE LET writesOpt == ShouldWriteManagedField(text, v)
             writesMap == text.map \/ v.values.member # Default \/ writesOpt IN
         [text EXCEPT !.field = v.values.field,
                      !.map = writesMap,
                      !.member = IF writesMap THEN v.values.member ELSE @,
                      !.opt = IF writesOpt THEN v.values.opt ELSE @,
                      !.keys = v.values.keys,
                      !.entries = IF v.values.keys = Default THEN "none" ELSE "maps"]

\* set_values and getNextDirtyFields(): a field equal to its baseline is clean.
NextVisual(f, to) ==
    [visual EXCEPT !.values[f] = to,
                   !.dirtyFields = IF to = visual.baseline[f] THEN @ \ {f} ELSE @ \cup {f}]

\* The dialog over the page leaves only its own buttons; a load locks the editors.
PageFree == ~diff.open
EditorsOn == PageFree /\ ~loading

SetVisualValue(f, to) ==
    /\ EditorsOn /\ activeTab = "visual" /\ edits < MaxEdits
    /\ to # visual.values[f]
    /\ visual' = NextVisual(f, to)
    /\ edits' = edits + 1
    /\ UNCHANGED <<activeTab, content, dirty, loading, sourceConfigLoaded, saveStep, clicked, diff,
                   loadsInFlight, server, requests, otherEdits>>

\* handleChange(): the source editor's text.
HandleChange(text) ==
    /\ EditorsOn /\ activeTab = "source" /\ edits < MaxEdits
    /\ text # content
    /\ content' = text /\ dirty' = TRUE
    /\ edits' = edits + 1
    /\ UNCHANGED <<activeTab, loading, sourceConfigLoaded, saveStep, clicked, diff, visual,
                   loadsInFlight, server, requests, otherEdits>>

-----------------------------------------------------------------------------
\* Mutated form: the tab stays.
SameTab(tab, v) == tab

\* The effect on visualParseError: the visual tab gives way to the source tab.
TabAfter(tab, v) == IF tab = "visual" /\ v.parseError THEN "source" ELSE tab

\* k calls of loadConfig() up to their answers.
StartLoads(k) ==
    /\ Cardinality(loadsInFlight) + k <= MaxLoads /\ requests + k <= MaxRequests
    /\ requests' = requests + k
    /\ loadsInFlight' = loadsInFlight \cup
           {[id |-> i, read |-> FALSE, text |-> Empty] : i \in (requests + 1) .. (requests + k)}
    /\ loading' = TRUE

\* The server reads its text for a load.
ServeLoad(l) ==
    /\ ~l.read
    /\ loadsInFlight' = (loadsInFlight \ {l}) \cup {[l EXCEPT !.read = TRUE, !.text = server]}
    /\ UNCHANGED <<activeTab, content, dirty, loading, sourceConfigLoaded, saveStep, clicked, diff,
                   visual, server, requests, edits, otherEdits>>

\* loadConfig() after its answer: everything on the page becomes that text.
LoadAnswers(l) ==
    /\ l.read
    /\ loadsInFlight' = loadsInFlight \ {l}
    /\ content' = l.text /\ dirty' = FALSE
    /\ diff' = [open |-> FALSE, server |-> l.text, merged |-> l.text]
    /\ clicked' = IF saveStep = "" THEN NoClick ELSE clicked
    /\ sourceConfigLoaded' = TRUE /\ loading' = FALSE
    /\ visual' = LoadedVisual(l.text, visual)
    /\ activeTab' = TabAfter(activeTab, visual')
    /\ UNCHANGED <<saveStep, server, requests, edits, otherEdits>>

LoadFails(l) ==
    /\ loadsInFlight' = loadsInFlight \ {l}
    /\ loading' = FALSE
    /\ UNCHANGED <<activeTab, content, dirty, sourceConfigLoaded, saveStep, clicked, diff, visual,
                   server, requests, edits, otherEdits>>

\* handleReload(), with the confirmation that unsaved changes ask for.
HandleReload ==
    /\ PageFree /\ activeTab # "manager" /\ ~loading /\ saveStep = ""
    /\ StartLoads(1)
    /\ UNCHANGED <<activeTab, content, dirty, sourceConfigLoaded, saveStep, clicked, diff, visual,
                   server, edits, otherEdits>>

\* handleTabChange() to the manager tab, which no load or save locks; the
\* effect on the tab then ends the loading state, whatever is under way.
EnterManagerTab ==
    /\ PageFree /\ activeTab # "manager"
    /\ activeTab' = "manager" /\ loading' = FALSE
    /\ UNCHANGED <<content, dirty, sourceConfigLoaded, saveStep, clicked, diff, visual,
                   loadsInFlight, server, requests, edits, otherEdits>>

TabsOn(tab) == PageFree /\ activeTab # tab /\ ~loading /\ saveStep = ""

\* ... to another tab while no text has been loaded: the effect on the tab
\* loads it, and once more if the visual tab gives way to the source tab.
EnterUnloaded(tab) ==
    /\ TabsOn(tab) /\ ~sourceConfigLoaded
    /\ activeTab' = TabAfter(tab, visual)
    /\ StartLoads(IF activeTab' = tab THEN 1 ELSE 2)
    /\ UNCHANGED <<content, dirty, sourceConfigLoaded, saveStep, clicked, diff, visual, server,
                   edits, otherEdits>>

\* ... to the source tab: pending visual changes are written into the text.
EnterSourceTab ==
    /\ TabsOn("source") /\ sourceConfigLoaded
    /\ activeTab' = "source"
    /\ LET next == IF visualDirty THEN ApplyVisualChangesToYaml(content, visual) ELSE content IN
       /\ content' = next
       /\ dirty' = (dirty \/ next # content)
    /\ UNCHANGED <<loading, sourceConfigLoaded, saveStep, clicked, diff, visual, loadsInFlight,
                   server, requests, edits, otherEdits>>

\* ... to the visual tab: the text's values are read, or the tab stays.
EnterVisualTab ==
    /\ TabsOn("visual") /\ sourceConfigLoaded
    /\ visual' = LoadedVisual(content, visual)
    /\ activeTab' = IF content.ok THEN "visual" ELSE activeTab
    /\ UNCHANGED <<content, dirty, loading, sourceConfigLoaded, saveStep, clicked, diff,
                   loadsInFlight, server, requests, edits, otherEdits>>

-----------------------------------------------------------------------------
\* The Save button, and handleSave()'s own guard.
SaveEnabled ==
    /\ PageFree /\ ~loading /\ saveStep = "" /\ sourceDirty /\ ~visual.parseError

HandleSave ==
    /\ activeTab # "manager" /\ SaveEnabled /\ requests < MaxRequests
    /\ saveStep' = "fetching"
    /\ clicked' = [tab |-> activeTab, dirty |-> dirty, content |-> content, visual |-> visual,
                  loaded |-> sourceConfigLoaded]
    /\ requests' = requests + 1
    /\ UNCHANGED <<activeTab, content, dirty, loading, sourceConfigLoaded, diff, visual,
                   loadsInFlight, server, edits, otherEdits>>

\* Mutated form: the visual changes are always written into the page's text.
OwnBase(latest) == clicked.content

\* visualBaseYaml: the server's latest text, or the unsaved source edits.
VisualBase(latest) == IF clicked.dirty THEN clicked.content ELSE latest

Merged(latest) == IF clicked.tab = "source" THEN clicked.content
                  ELSE ApplyVisualChangesToYaml(VisualBase(latest), clicked.visual)
Refused(latest) == clicked.tab # "source" /\ (~latest.ok \/ ~VisualBase(latest).ok)

\* handleSave() after its fetch: refused, nothing to save, or the dialog.
SaveFetched ==
    /\ saveStep = "fetching"
    /\ saveStep' = ""
    /\ CASE Refused(server) -> clicked' = NoClick /\ UNCHANGED <<activeTab, content, dirty, diff, visual>>
         [] ~Refused(server) /\ Merged(server) = server ->
              /\ content' = server /\ dirty' = FALSE /\ clicked' = NoClick
              /\ diff' = [diff EXCEPT !.server = server, !.merged = server]
              /\ visual' = LoadedVisual(server, visual)
              /\ activeTab' = TabAfter(activeTab, visual')
         [] OTHER ->
              /\ diff' = [open |-> TRUE, server |-> server, merged |-> Merged(server)]
              /\ UNCHANGED <<activeTab, content, dirty, clicked, visual>>
    /\ UNCHANGED <<loading, sourceConfigLoaded, loadsInFlight, server, requests, edits,
                   otherEdits>>

\* The dialog: cancelled, or confirmed (handleConfirmSave() up to its answer).
CancelDiff ==
    /\ diff.open /\ saveStep = ""
    /\ diff' = [diff EXCEPT !.open = FALSE] /\ clicked' = NoClick
    /\ UNCHANGED <<activeTab, content, dirty, loading, sourceConfigLoaded, saveStep, visual,
                   loadsInFlight, server, requests, edits, otherEdits>>

HandleConfirmSave ==
    /\ diff.open /\ saveStep = ""
    /\ saveStep' = "putting"
    /\ clicked' = [clicked EXCEPT !.content = diff.merged]
    /\ UNCHANGED <<activeTab, content, dirty, loading, sourceConfigLoaded, diff, visual,
                   loadsInFlight, server, requests, edits, otherEdits>>

\* CPA stores the text it is sent, or refuses one that is not YAML.
ServePut ==
    /\ saveStep = "putting" /\ clicked.content.ok
    /\ server' = clicked.content
    /\ saveStep' = "refetching"
    /\ UNCHANGED <<activeTab, content, dirty, loading, sourceConfigLoaded, clicked, diff, visual,
                   loadsInFlight, requests, edits, otherEdits>>

\* handleConfirmSave() after its second fetch.  If the visual tab gives way and
\* no load has succeeded yet, the effect on the tab starts one.
ConfirmAnswers ==
    /\ saveStep = "refetching"
    /\ saveStep' = ""
    /\ content' = server /\ dirty' = FALSE /\ clicked' = NoClick
    /\ diff' = [open |-> FALSE, server |-> server, merged |-> server]
    /\ visual' = LoadedVisual(server, visual)
    /\ activeTab' = TabAfter(activeTab, visual')
    /\ IF activeTab' # activeTab /\ ~sourceConfigLoaded THEN StartLoads(1)
       ELSE UNCHANGED <<loading, loadsInFlight, requests>>
    /\ UNCHANGED <<sourceConfigLoaded, server, edits, otherEdits>>

\* A request of either handler fails: a message, and the page as it was.
SaveFails ==
    /\ saveStep # ""
    /\ saveStep' = ""
    /\ clicked' = IF diff.open THEN clicked ELSE NoClick
    /\ UNCHANGED <<activeTab, content, dirty, loading, sourceConfigLoaded, diff, visual,
                   loadsInFlight, server, requests, edits, otherEdits>>

\* Another client, or a person at the file.
ServerChanges(text) ==
    /\ otherEdits < MaxChanges /\ text # server
    /\ server' = text
    /\ otherEdits' = otherEdits + 1
    /\ UNCHANGED <<activeTab, content, dirty, loading, sourceConfigLoaded, saveStep, clicked, diff,
                   visual, loadsInFlight, requests, edits>>

ConfigEdits ==
    \/ \E f \in Fields, to \in Settings : SetVisualValue(f, to)
    \/ \E text \in WrittenTexts : HandleChange(text) \/ ServerChanges(text)

ConfigLoads == \E l \in loadsInFlight : ServeLoad(l) \/ LoadAnswers(l) \/ LoadFails(l)

ConfigTabs ==
    \/ EnterManagerTab \/ EnterSourceTab \/ EnterVisualTab
    \/ \E tab \in {"visual", "source"} : EnterUnloaded(tab)

ConfigNext ==
    \/ ConfigEdits \/ ConfigLoads \/ ConfigTabs
    \/ HandleReload \/ HandleSave \/ SaveFetched \/ CancelDiff
    \/ HandleConfirmSave \/ ServePut \/ ConfirmAnswers \/ SaveFails

ConfigSpec == ConfigInit /\ [][ConfigNext]_configVars

-----------------------------------------------------------------------------
VisualState == [values : [Fields -> Settings], baseline : [Fields -> Settings],
                dirtyFields : SUBSET Fields, parseError : BOOLEAN]

ConfigTypeOK ==
    /\ activeTab \in Tabs /\ content \in AnyText
    /\ dirty \in BOOLEAN /\ loading \in BOOLEAN /\ sourceConfigLoaded \in BOOLEAN
    /\ saveStep \in {"", "fetching", "putting", "refetching"}
    /\ clicked \in [tab : Tabs, dirty : BOOLEAN, content : AnyText, visual : VisualState,
                   loaded : BOOLEAN]
    /\ diff \in [open : BOOLEAN, server : AnyText, merged : AnyText]
    /\ visual \in VisualState /\ (visual.parseError => activeTab # "visual")
    /\ loadsInFlight \subseteq [id : 1 .. MaxRequests, read : BOOLEAN, text : AnyText]
    /\ server \in AnyText
    /\ requests \in 0 .. MaxRequests /\ edits \in 0 .. MaxEdits /\ otherEdits \in 0 .. MaxChanges

\* The text a save from the visual tab writes its values into.
PatchBase == IF clicked.dirty THEN clicked.content ELSE diff.server

\* A save from the visual tab is a patch of the text it starts from: unsaved
\* source edits, or else the server's latest.  It keeps the top-level fields the
\* editor does not know and creates no guarded field unasked, whatever other
\* clients wrote meanwhile; and if that text is the one the page showed, every
\* field the user left alone still reads the same (handleSave's visualBaseYaml).
VisualSaveIsAPatch ==
    diff.open /\ clicked.tab = "visual" /\ saveStep = "" =>
        /\ diff.merged.extra = PatchBase.extra
        /\ PatchBase.opt = Absent /\ "opt" \notin clicked.visual.dirtyFields =>
               diff.merged.opt = Absent
        /\ clicked.loaded /\ PatchBase = clicked.content =>
               \A f \in Fields \ clicked.visual.dirtyFields :
                   ShownValues(diff.merged)[f] = ShownValues(PatchBase)[f]

\* The text a save of the open tab would start from.
Pending == IF activeTab = "visual" THEN ApplyVisualChangesToYaml(content, visual) ELSE content

\* Two texts say the same: every managed field reads the same, the guarded one is
\* in both or in neither, and what the editor does not know is the same.
SayTheSame(s, t) ==
    /\ s.ok = t.ok /\ s.extra = t.extra
    /\ ShownValues(s) = ShownValues(t)
    /\ s.opt = Absent <=> t.opt = Absent

\* Going from one editor straight to the other keeps what is being edited: what a
\* save would write says the same before and after, round trips included.  The
\* form of the text may change (handleTabChange).
EditorsAgree ==
    [][{activeTab, activeTab'} = {"visual", "source"} /\ loadsInFlight' = loadsInFlight
          /\ saveStep' = saveStep => SayTheSame(Pending, Pending')]_configVars
=============================================================================

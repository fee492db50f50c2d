----------------------------- MODULE SearchPanel -----------------------------
(***************************************************************************)
(* The Search panel of the dock (DockSearch.cpp): one window that shows    *)
(* file results, an AI answer, or the entry of a Groq key or model, and    *)
(* the threads that post to it: the app catalogue, the search thread, one  *)
(* worker for each AI question (GroqClient.cpp) and one for each attached  *)
(* image (AiAttachments.cpp).                                              *)
(*                                                                         *)
(* The interface thread runs one handler at a time; only the handler of an *)
(* AI update is two steps here, since the worker may publish between them. *)
(* The search service is one live request: replies to older ones are       *)
(* dropped by their id, which FileSearchService is about.                  *)
(***************************************************************************)
EXTENDS Naturals

CONSTANTS
    Texts,       \* what can be typed in the search box
    Blank,       \* an empty text
    Key, Model,  \* what can be typed in the two entries
    MaxAsks,     \* bound: AI questions sent
    MaxImages,   \* bound: images ever attached
    MaxApps,     \* bound: changed app catalogues
    MaxTogether  \* bound: all three

ASSUME PanelAssumption ==
    /\ Blank # Key /\ Blank # Model /\ Key # Model
    /\ {Blank, Key, Model} \cap Texts = {}
    /\ MaxAsks \in Nat /\ MaxImages \in Nat /\ MaxApps \in Nat
    /\ MaxTogether \in Nat

Asks == 1 .. MaxAsks
Images == 1 .. MaxImages
Entries == {"KeyEntry", "ModelEntry"}
AnyText == Texts \cup {Blank, Key, Model}

VARIABLES
    open,         \* the panel is visible
    mode,         \* m_searchMode
    text, saved,  \* m_searchText, m_searchSavedText
    rows,         \* m_searchRows
    query,        \* the request m_searchRequestId stands for, until answered
    apps,         \* version of m_searchApps and of the list given to SetApps
    appsInFlight, \* m_searchAppsInFlight: a catalogue is being collected
    hasKey,       \* a Groq key is configured
    askAfterKey,  \* m_aiAskAfterKey
    ai,           \* what m_aiState shows
    session,      \* m_aiSession, or 0
    askWhenReady, \* m_aiAskWhenReady
    spinner,      \* the spinner's timer runs
    sent,         \* m_aiSessionCounter
    ask,          \* the AiSession of each question and its worker
    image,        \* the attached images
    reading,      \* images whose PrepareAsync thread has not been answered
    attached,     \* m_aiAttachmentCounter
    ui            \* the interface thread: idle, or about to copy a session

aiVars == <<ai, session, askWhenReady, spinner, sent, ask>>
boxVars == <<open, mode, text, saved, rows, query>>
keyVars == <<hasKey, askAfterKey>>
appVars == <<apps, appsInFlight>>
imageVars == <<image, reading, attached>>
vars == <<boxVars, appVars, keyVars, aiVars, imageVars, ui>>

NoRows == [kind |-> "none", text |-> Blank, apps |-> 0]
EntryRows == [NoRows EXCEPT !.kind = "entry"]
Notice == [NoRows EXCEPT !.kind = "notice"]
ResultRows(q) == [kind |-> "results", text |-> q.text, apps |-> q.apps]

NoQuery == [text |-> Blank, searched |-> FALSE, apps |-> 0]

NoAsk == [pc |-> "none", content |-> "waiting", cancelled |-> FALSE,
          pending |-> FALSE, posted |-> FALSE, text |-> Blank]

Contents == {"waiting", "writing", "answer", "failed"}
Final == {"answer", "failed"}

Init ==
    /\ open = FALSE /\ mode = "Search" /\ text = Blank /\ saved = Blank
    /\ rows = NoRows /\ query = NoQuery
    /\ apps = 0 /\ appsInFlight = TRUE
    /\ hasKey \in BOOLEAN /\ askAfterKey = FALSE
    /\ ai = "none" /\ session = 0 /\ askWhenReady = FALSE /\ spinner = FALSE
    /\ sent = 0 /\ ask = [s \in Asks |-> NoAsk]
    /\ image = [i \in Images |-> "none"] /\ reading = {} /\ attached = 0
    /\ ui = "idle"

-----------------------------------------------------------------------------
(* What the handlers share.                                                *)

\* A mutant: the old answer goes on streaming.
MutCancelledAsks == ask

\* The session in progress is told to stop.
CancelledAsks ==
    IF session = 0 THEN ask ELSE [ask EXCEPT ![session].cancelled = TRUE]

\* ExitAiState, but for the mode.
ExitedAi ==
    /\ ai' = "none" /\ session' = 0 /\ askWhenReady' = FALSE /\ spinner' = FALSE
    /\ ask' = CancelledAsks
    /\ sent' = sent

\* The new request of SearchTextChanged for the text t.
Requery(t) ==
    /\ query' = [NoQuery EXCEPT !.text = t]
    /\ rows' = IF t = Blank THEN NoRows ELSE rows

\* SearchTextChanged when the box holds t.
TextChanged(t) ==
    IF mode \in Entries
    THEN UNCHANGED <<mode, query, rows, aiVars>>
    ELSE /\ mode' = "Search"
         /\ Requery(t)
         /\ IF mode = "Ai" THEN ExitedAi ELSE UNCHANGED aiVars

Room == sent + attached + apps < MaxTogether

\* AskAi's question goes out to a worker of its own.
SendQuestion(t) ==
    /\ sent < MaxAsks /\ Room
    /\ sent' = sent + 1
    /\ session' = sent'
    /\ ask' = [CancelledAsks EXCEPT ![sent'].pc = "work", ![sent'].text = t]
    /\ ai' = "waiting" /\ askWhenReady' = FALSE /\ spinner' = TRUE

\* AskAi when the box holds t, images are those of img, and a key is there.
AskAi(t, img, key) ==
    IF t = Blank /\ \A i \in Images : img[i] = "none"
    THEN UNCHANGED <<mode, query, aiVars>>
    ELSE /\ mode' = "Ai"
         /\ query' = NoQuery
         /\ IF ~key
            THEN /\ ai' = "needsKey" /\ session' = 0 /\ askWhenReady' = FALSE
                 /\ spinner' = FALSE /\ ask' = CancelledAsks /\ sent' = sent
            ELSE IF \E i \in Images : img[i] = "preparing"
            THEN /\ ai' = "preparing" /\ session' = 0 /\ askWhenReady' = TRUE
                 /\ spinner' = TRUE /\ ask' = CancelledAsks /\ sent' = sent
            ELSE SendQuestion(t)

\* RefreshSearchApps: one thread at a time collects the catalogue.
RefreshApps == appsInFlight' = TRUE /\ apps' = apps

-----------------------------------------------------------------------------
(* The user.                                                               *)

\* A mutant: the answer's spinner is not started again.
MutReopenedSpinner == spinner

\* OpenSearch for a panel with an answer still streaming.
ReopenedSpinner == IF session # 0 THEN TRUE ELSE spinner

\* OpenSearch for a panel with a text from the last time.
ReopenQueries == mode = "Search" /\ text # Blank

\* OpenSearch: Ctrl+Space or the dock's tile, whose menu also has it when the
\* panel is open.
OpenSearch ==
    /\ ui = "idle"
    /\ open' = TRUE
    /\ RefreshApps
    /\ rows' = NoRows
    /\ query' = IF ReopenQueries THEN [NoQuery EXCEPT !.text = text] ELSE query
    /\ spinner' = IF mode = "Ai" THEN ReopenedSpinner ELSE spinner
    /\ UNCHANGED <<mode, text, saved, keyVars, ai, session, askWhenReady, sent, ask, imageVars, ui>>

\* ExitSearchEntry(false): the text from before the entry is back.
LeaveEntry ==
    /\ text' = saved /\ saved' = Blank
    /\ askAfterKey' = FALSE

\* CloseSearch.
Closes ==
    /\ open' = FALSE
    /\ spinner' = FALSE
    /\ query' = NoQuery /\ rows' = NoRows
    /\ IF mode \in Entries
       THEN mode' = "Search" /\ LeaveEntry
       ELSE UNCHANGED <<mode, text, saved, askAfterKey>>
    /\ UNCHANGED <<ai, session, askWhenReady, sent, ask>>

CloseSearch ==
    /\ ui = "idle" /\ open
    /\ Closes
    /\ UNCHANGED <<appVars, hasKey, imageVars, ui>>

\* What the box can hold in each mode.
Typed == CASE mode = "KeyEntry" -> {Blank, Key}
           [] mode = "ModelEntry" -> {Blank, Model}
           [] OTHER -> Texts \cup {Blank}

\* A key, a character, a deletion or a paste.
Type ==
    /\ ui = "idle" /\ open
    /\ \E t \in Typed \ {text} : text' = t /\ TextChanged(t)
    /\ UNCHANGED <<open, saved, appVars, keyVars, imageVars, ui>>

\* A mutant: a key being typed is kept as if it were a search.
MutSavedByEntry == text

\* OpenSearchEntry keeps the text of the search, never that of an entry.
SavedByEntry == IF mode \in Entries THEN saved ELSE text

\* OpenSearchEntry for the entry m, asked for by a question or by the settings.
OpenEntry(m, forAsk) ==
    /\ saved' = SavedByEntry
    /\ ExitedAi
    /\ askAfterKey' = (forAsk /\ m = "KeyEntry")
    /\ mode' = m
    /\ text' = IF m = "ModelEntry" THEN Model ELSE Blank
    /\ open' = TRUE
    /\ IF open THEN UNCHANGED appVars ELSE RefreshApps
    /\ rows' = EntryRows
    /\ UNCHANGED <<query, hasKey, imageVars, ui>>

\* The settings window posts kOpenSearchEntryMessage.
SettingsEntry ==
    /\ ui = "idle"
    /\ \E m \in Entries : OpenEntry(m, askAfterKey)

\* Enter, or the button, under an answer that needs a key.
AddKey ==
    /\ ui = "idle" /\ open
    /\ mode = "Ai" /\ ai = "needsKey"
    /\ OpenEntry("KeyEntry", TRUE)

\* Enter in an entry: CommitSearchEntry.
CommitEntry ==
    /\ ui = "idle" /\ open /\ mode \in Entries
    /\ hasKey' = IF mode = "KeyEntry" THEN text # Blank ELSE hasKey
    /\ LeaveEntry
    /\ IF mode = "KeyEntry" /\ askAfterKey /\ text # Blank /\ saved # Blank
       THEN /\ AskAi(saved, image, TRUE)
            /\ rows' = NoRows
       ELSE /\ mode' = "Search"
            /\ rows' = Notice
            /\ UNCHANGED <<query, aiVars>>
    /\ UNCHANGED <<open, appVars, imageVars, ui>>

\* Escape: out of the entry, out of the answer, or the box is emptied.
EscapeEntry ==
    /\ ui = "idle" /\ open /\ mode \in Entries
    /\ LeaveEntry
    /\ mode' = "Search"
    /\ query' = [NoQuery EXCEPT !.text = saved]
    /\ rows' = NoRows
    /\ UNCHANGED <<open, appVars, hasKey, aiVars, imageVars, ui>>

EscapeAnswer ==
    /\ ui = "idle" /\ open /\ mode = "Ai"
    /\ TextChanged(text)
    /\ UNCHANGED <<open, text, saved, appVars, keyVars, imageVars, ui>>

EscapeText ==
    /\ ui = "idle" /\ open /\ mode = "Search"
    /\ text # Blank \/ \E i \in Images : image[i] # "none"
    /\ text' = Blank
    /\ image' = [i \in Images |-> "none"]
    /\ TextChanged(Blank)
    /\ UNCHANGED <<open, saved, appVars, keyVars, reading, attached, ui>>

\* Ctrl+Enter, or the row that asks.
Ask ==
    /\ ui = "idle" /\ open /\ mode \notin Entries
    /\ AskAi(text, image, hasKey)
    /\ UNCHANGED <<open, text, saved, rows, appVars, keyVars, imageVars, ui>>

\* Enter on any other row of the results: the panel closes.
Activate ==
    /\ ui = "idle" /\ open /\ mode = "Search"
    /\ rows.kind = "results"
    /\ Closes
    /\ UNCHANGED <<appVars, hasKey, imageVars, ui>>

\* AddAiAttachments: a paste or the file picker.
AddImage ==
    /\ ui = "idle" /\ open /\ mode \notin Entries
    /\ attached < MaxImages /\ Room
    /\ attached' = attached + 1
    /\ image' = [image EXCEPT ![attached'] = "preparing"]
    /\ reading' = reading \cup {attached'}
    /\ UNCHANGED <<boxVars, appVars, keyVars, aiVars, ui>>

\* The question that waited for images is asked again, or nothing changes.
AskAgain(img, when) ==
    IF when /\ mode = "Ai"
    THEN IF text = Blank /\ \A i \in Images : img[i] = "none"
         THEN /\ askWhenReady' = FALSE
              /\ UNCHANGED <<mode, query, ai, session, spinner, sent, ask>>
         ELSE AskAi(text, img, hasKey)
    ELSE UNCHANGED <<mode, query, aiVars>>

\* RemoveAiAttachment: a thumbnail's badge, or Backspace in an empty box.
RemoveImage ==
    /\ ui = "idle" /\ open /\ mode \notin Entries
    /\ \E i \in Images :
        /\ image[i] # "none"
        /\ image' = [image EXCEPT ![i] = "none"]
        /\ AskAgain(image', askWhenReady)
    /\ UNCHANGED <<open, text, saved, rows, appVars, keyVars, reading, attached, ui>>

User ==
    \/ OpenSearch \/ CloseSearch \/ Type \/ SettingsEntry \/ AddKey
    \/ CommitEntry \/ EscapeEntry \/ EscapeAnswer \/ EscapeText \/ Ask
    \/ Activate \/ AddImage \/ RemoveImage

-----------------------------------------------------------------------------
(* Messages from the threads.                                              *)

\* The index has begun or ended a build: kSearchStatusMessage.
OnStatus ==
    /\ ui = "idle" /\ open
    /\ TextChanged(text)
    /\ UNCHANGED <<open, text, saved, appVars, keyVars, imageVars, ui>>

\* ApplySearchApps with a catalogue, changed or not.
OnApps ==
    /\ ui = "idle" /\ appsInFlight
    /\ appsInFlight' = FALSE
    /\ apps' \in {apps} \cup {n \in {apps + 1} : n <= MaxApps /\ Room}
    /\ IF open /\ text # Blank
       THEN TextChanged(text)
       ELSE UNCHANGED <<mode, query, rows, aiVars>>
    /\ UNCHANGED <<open, text, saved, keyVars, imageVars, ui>>

\* ApplySearchApps when the collection failed.
OnNoApps ==
    /\ ui = "idle" /\ appsInFlight
    /\ appsInFlight' = FALSE
    /\ UNCHANGED <<boxVars, apps, keyVars, aiVars, imageVars, ui>>

\* The search thread answers the live request from the list it has now.
Searched ==
    /\ query.text # Blank /\ ~query.searched
    /\ query' = [query EXCEPT !.searched = TRUE, !.apps = apps]
    /\ UNCHANGED <<open, mode, text, saved, rows, appVars, keyVars, aiVars, imageVars, ui>>

\* ApplySearchReply for the live request: only in the mode of searches.
OnReply ==
    /\ ui = "idle" /\ query.searched
    /\ query' = NoQuery
    /\ rows' = IF open /\ mode = "Search" THEN ResultRows(query) ELSE rows
    /\ UNCHANGED <<open, mode, text, saved, appVars, keyVars, aiVars, imageVars, ui>>

\* A mutant: an image that fails leaves the question waiting.
MutReadyNow(img, ok) == ok /\ \A i \in Images : img[i] # "preparing"

\* The question waits no longer.
ReadyNow(img, ok) == \A i \in Images : img[i] # "preparing"

\* ApplyAiAttachment: the image is ready, or could not be prepared; one that
\* was removed meanwhile is ignored.
OnImage ==
    /\ ui = "idle"
    /\ \E i \in reading, ok \in BOOLEAN :
        /\ reading' = reading \ {i}
        /\ image' = IF image[i] = "none" THEN image
                    ELSE [image EXCEPT ![i] = IF ok THEN "ready" ELSE "none"]
        /\ AskAgain(image', image[i] # "none" /\ askWhenReady /\ ReadyNow(image', ok))
    /\ UNCHANGED <<open, text, saved, rows, appVars, keyVars, attached, ui>>

\* A mutant: the flag is left set.
MutCleared(s) == ask[s].pending

\* Snapshot begins by clearing messagePending.
Cleared(s) == FALSE

\* ApplyAiUpdate for the session in progress begins its Snapshot; for any
\* other it is nothing.
OnUpdate(s) ==
    /\ ui = "idle" /\ ask[s].posted
    /\ IF session = s
       THEN /\ ui' = "copy"
            /\ ask' = [ask EXCEPT ![s].posted = FALSE, ![s].pending = Cleared(s)]
       ELSE /\ ui' = ui
            /\ ask' = [ask EXCEPT ![s].posted = FALSE]
    /\ UNCHANGED <<boxVars, appVars, keyVars, ai, session, askWhenReady, spinner, sent, imageVars>>

\* The rest of ApplyAiUpdate: the state is copied; a finished session is let go.
Copy ==
    /\ ui = "copy"
    /\ ui' = "idle"
    /\ ai' = ask[session].content
    /\ IF ai' \in Final
       THEN session' = 0 /\ spinner' = FALSE
       ELSE UNCHANGED <<session, spinner>>
    /\ UNCHANGED <<boxVars, appVars, keyVars, askWhenReady, sent, ask, imageVars>>

Message ==
    \/ OnStatus \/ OnApps \/ OnNoApps \/ OnReply \/ OnImage \/ Copy
    \/ \E s \in Asks : OnUpdate(s)

-----------------------------------------------------------------------------
(* The worker of a question: Publisher::Update is two steps.               *)

Publish(s) ==
    /\ ask[s].pc = "work"
    /\ \E c \in Contents : ask' = [ask EXCEPT ![s].content = c, ![s].pc = "post"]
    /\ UNCHANGED <<boxVars, appVars, keyVars, ai, session, askWhenReady, spinner, sent, imageVars, ui>>

Poke(s) ==
    /\ ask[s].pc = "post"
    /\ ask' = [ask EXCEPT ![s].posted = @ \/ ~ask[s].pending,
                          ![s].pending = TRUE,
                          ![s].pc = IF ask[s].content \in Final THEN "done" ELSE "work"]
    /\ UNCHANGED <<boxVars, appVars, keyVars, ai, session, askWhenReady, spinner, sent, imageVars, ui>>

\* The worker sees that it was cancelled and says nothing more.
Quit(s) ==
    /\ ask[s].pc = "work" /\ ask[s].cancelled
    /\ ask' = [ask EXCEPT ![s].pc = "done"]
    /\ UNCHANGED <<boxVars, appVars, keyVars, ai, session, askWhenReady, spinner, sent, imageVars, ui>>

Worker(s) == Publish(s) \/ Poke(s) \/ Quit(s)

Next == User \/ Message \/ Searched \/ \E s \in Asks : Worker(s)

Spec == Init /\ [][Next]_vars

\* The message loop and a worker that has something to post go on; nobody has
\* to answer a question.
Fairness ==
    /\ WF_vars(Copy)
    /\ \A s \in Asks : WF_vars(OnUpdate(s)) /\ WF_vars(Poke(s))

FairSpec == Spec /\ Fairness

-----------------------------------------------------------------------------
(* Properties.                                                             *)

\* Type invariant.
TypeOK ==
    /\ open \in BOOLEAN /\ mode \in Entries \cup {"Search", "Ai"}
    /\ text \in AnyText /\ saved \in Texts \cup {Blank}
    /\ rows \in [kind: {"none", "entry", "notice", "results"}, text: AnyText, apps: Nat]
    /\ query \in [text: AnyText, searched: BOOLEAN, apps: Nat]
    /\ apps \in 0 .. MaxApps /\ appsInFlight \in BOOLEAN
    /\ hasKey \in BOOLEAN /\ askAfterKey \in BOOLEAN
    /\ ai \in Contents \cup {"none", "needsKey", "preparing"}
    /\ session \in Asks \cup {0} /\ sent \in 0 .. MaxAsks
    /\ askWhenReady \in BOOLEAN /\ spinner \in BOOLEAN
    /\ ask \in [Asks -> [pc: {"none", "work", "post", "done"}, content: Contents,
                         cancelled: BOOLEAN, pending: BOOLEAN, posted: BOOLEAN, text: AnyText]]
    /\ image \in [Images -> {"none", "preparing", "ready"}]
    /\ reading \subseteq Images /\ attached \in 0 .. MaxImages
    /\ ui \in {"idle", "copy"}

\* What is typed in the key entry is in no search, question or kept text,
\* whatever way the entry is left: the key goes to the configuration only.
KeyStaysInEntry ==
    /\ text = Key => mode = "KeyEntry"
    /\ Key \notin {saved, query.text, rows.text}
    /\ \A s \in Asks : ask[s].text # Key

\* Only the session in progress may stream: a question that was replaced,
\* left or edited has been told to stop, and there is none outside the
\* answer's mode.
StreamsAreOwned ==
    /\ session # 0 => mode = "Ai"
    /\ \A s \in Asks : ask[s].pc = "work" => s = session \/ ask[s].cancelled

\* A question that waits for its images ("Ask as soon as the last image is
\* ready") has one to wait for: a failure or a removal ends the wait.
WaitsForAnImage ==
    askWhenReady => mode = "Ai" /\ \E i \in Images : image[i] = "preparing" /\ i \in reading

\* The spinner turns in an open panel whose answer is streaming, however the
\* panel was closed and opened meanwhile.
SpinnerTurns == open /\ session # 0 => spinner

\* Once the live request is answered, the rows of an open panel are those of
\* the text in its box, and only an empty box has none: no way through an
\* answer or an entry leaves the rows of another text.
RestingRowsMatch ==
    open /\ mode = "Search" /\ query = NoQuery =>
        /\ rows.kind = "results" => rows.text = text
        /\ rows.kind = "none" => text = Blank

\* Both: whatever closed and opened the panel, what rests in it is what its
\* box, its session and its timer stand for.
RestingPanelAgrees == SpinnerTurns /\ RestingRowsMatch

\* The end of an answer is shown: the last message is never lost to the one
\* that is pending when the worker publishes it.
AnswerIsShown ==
    \A s \in Asks : (ask[s].pc = "done" /\ session = s) ~> session # s

=============================================================================

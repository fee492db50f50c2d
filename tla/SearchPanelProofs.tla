-------------------------- MODULE SearchPanelProofs --------------------------
(***************************************************************************)
(* Four safety properties of the Search panel, for every set of texts and  *)
(* every number of questions, images and catalogues: the key stays in its  *)
(* entry, streams are owned, a waiting question has an image to wait for,  *)
(* and what rests in the panel agrees with its box.  The invariant is cut  *)
(* by the variables it is about, so that the operators the handlers share  *)
(* (TextChanged, AskAi, ExitedAi) each have one lemma.                     *)
(***************************************************************************)
EXTENDS SearchPanel, TLAPS

USE PanelAssumption DEF Asks, Images, Entries, AnyText

Plain == Texts \cup {Blank}
Modes == {"KeyEntry", "ModelEntry", "Search", "Ai"}
Queries == [text: Plain, searched: BOOLEAN, apps: Nat]
RowsOf == [kind: {"none", "entry", "notice", "results"}, text: Plain, apps: Nat]
AskRecords == [pc: {"none", "work", "post", "done"}, content: Contents,
               cancelled: BOOLEAN, pending: BOOLEAN, posted: BOOLEAN, text: AnyText]

\* What the box, the rows and the request hold: nothing of an entry's text.
BoxInv ==
    /\ open \in BOOLEAN
    /\ mode \in Modes
    /\ text \in AnyText
    /\ mode \in {"Search", "Ai"} => text \in Plain
    /\ mode = "ModelEntry" => text # Key
    /\ saved \in Plain
    /\ rows \in RowsOf
    /\ query \in Queries

SmallInv ==
    /\ apps \in 0 .. MaxApps
    /\ appsInFlight \in BOOLEAN
    /\ hasKey \in BOOLEAN
    /\ askAfterKey \in BOOLEAN
    /\ ui \in {"idle", "copy"}

\* The sessions by themselves: a worker that may stream is the session's or
\* cancelled, has not ended, and was sent.
AskOK(s) ==
    /\ ask[s].pc \in {"work", "post"} /\ ask[s].content \notin Final => s = session \/ ask[s].cancelled
    /\ ask[s].pc = "work" => ask[s].content \notin Final
    /\ ask[s].text # Key
    /\ s > sent => ask[s].pc = "none" /\ ask[s].content = "waiting"

AiInv ==
    /\ ai \in Contents \cup {"none", "needsKey", "preparing"}
    /\ session \in Asks \cup {0}
    /\ sent \in 0 .. MaxAsks
    /\ askWhenReady \in BOOLEAN
    /\ spinner \in BOOLEAN
    /\ ask \in [Asks -> AskRecords]
    /\ \A s \in Asks : AskOK(s)

ImageInv ==
    /\ image \in [Images -> {"none", "preparing", "ready"}]
    /\ reading \subseteq Images
    /\ attached \in 0 .. MaxImages
    /\ \A i \in Images : image[i] = "preparing" => i \in reading

\* The sessions and the rest.
JointInv ==
    /\ session # 0 => mode = "Ai"
    /\ askWhenReady => mode = "Ai" /\ \E i \in Images : image[i] = "preparing"
    /\ ui = "copy" => session # 0

Inv == BoxInv /\ SmallInv /\ AiInv /\ ImageInv /\ JointInv

LEMMA InitInv == Init => Inv
<1> SUFFICES ASSUME Init PROVE Inv
  OBVIOUS
<1> USE DEF Init
<1>1. BoxInv
  BY DEF BoxInv, Modes, Plain, Queries, RowsOf, NoRows, NoQuery
<1>2. SmallInv
  <2>1. apps \in 0 .. MaxApps /\ ui \in {"idle", "copy"}
    OBVIOUS
  <2>2. appsInFlight \in BOOLEAN /\ hasKey \in BOOLEAN /\ askAfterKey \in BOOLEAN
    BY Zenon
  <2> QED  BY <2>1, <2>2 DEF SmallInv
<1>3. AiInv
  <2>1. NoAsk \in AskRecords
    BY DEF AskRecords, NoAsk, Contents
  <2>2. ask \in [Asks -> AskRecords] /\ \A s \in Asks : ask[s] = NoAsk
    BY <2>1
  <2>3. \A s \in Asks : AskOK(s)
    BY <2>2 DEF AskOK, NoAsk
  <2>4. askWhenReady \in BOOLEAN /\ spinner \in BOOLEAN
    BY Zenon
  <2>5. session \in Asks \cup {0} /\ sent \in 0 .. MaxAsks /\ ai = "none"
    OBVIOUS
  <2> QED  BY <2>2, <2>3, <2>4, <2>5 DEF AiInv
<1>4. ImageInv
  BY DEF ImageInv
<1>5. JointInv
  BY DEF JointInv
<1> QED  BY <1>1, <1>2, <1>3, <1>4, <1>5 DEF Inv

-----------------------------------------------------------------------------
(* What the handlers share.                                                *)

\* Telling the session to stop changes nothing else of it.
LEMMA CancelledFacts ==
    ASSUME AiInv
    PROVE  /\ CancelledAsks \in [Asks -> AskRecords]
           /\ \A s \in Asks : /\ CancelledAsks[s].pc = ask[s].pc
                              /\ CancelledAsks[s].content = ask[s].content
                              /\ CancelledAsks[s].text = ask[s].text
                              /\ ask[s].pc \in {"work", "post"} /\ ask[s].content \notin Final
                                    => CancelledAsks[s].cancelled
<1> USE DEF AiInv, AskOK
<1>1. CASE session = 0
  BY <1>1 DEF CancelledAsks
<1>2. CASE session # 0
  <2>1. session \in Asks /\ CancelledAsks = [ask EXCEPT ![session].cancelled = TRUE]
    BY <1>2 DEF CancelledAsks
  <2>2. ask[session] \in AskRecords
    BY <2>1
  <2>3. [ask[session] EXCEPT !.cancelled = TRUE] \in AskRecords
    BY <2>2 DEF AskRecords
  <2>4. CancelledAsks = [ask EXCEPT ![session] = [ask[session] EXCEPT !.cancelled = TRUE]]
    BY <2>1
  <2>5. CancelledAsks \in [Asks -> AskRecords]
    BY <2>1, <2>3, <2>4
  <2>6. /\ CancelledAsks[session].pc = ask[session].pc
        /\ CancelledAsks[session].content = ask[session].content
        /\ CancelledAsks[session].text = ask[session].text
        /\ CancelledAsks[session].cancelled
    BY <2>1, <2>2, <2>4 DEF AskRecords
  <2>7. \A s \in Asks : s # session => CancelledAsks[s] = ask[s]
    BY <2>1, <2>4
  <2> QED  BY <2>5, <2>6, <2>7
<1> QED  BY <1>1, <1>2

LEMMA ExitedInv ==
    ASSUME AiInv, ExitedAi
    PROVE  AiInv' /\ session' = 0 /\ askWhenReady' = FALSE
<1>1. ask' = CancelledAsks
  BY DEF ExitedAi
<1>2. \A s \in Asks : AskOK(s)'
  BY <1>1, CancelledFacts DEF AiInv, AskOK, ExitedAi
<1> QED  BY <1>1, <1>2, CancelledFacts DEF AiInv, ExitedAi

LEMMA SameAi == AiInv /\ UNCHANGED aiVars => AiInv'
  BY DEF AiInv, AskOK, aiVars

\* A question sent for a text that is not the key.
LEMMA SendInv ==
    ASSUME AiInv, NEW t \in Plain, SendQuestion(t)
    PROVE  AiInv' /\ session' # 0 /\ askWhenReady' = FALSE
<1> USE DEF AiInv, SendQuestion
<1>1. /\ sent' \in Asks /\ session' = sent' /\ sent' = sent + 1
      /\ ask' = [CancelledAsks EXCEPT ![sent'].pc = "work", ![sent'].text = t]
  OBVIOUS
<1>2. CancelledAsks[sent'] \in AskRecords
  BY <1>1, CancelledFacts
<1> DEFINE new == [CancelledAsks[sent'] EXCEPT !.pc = "work", !.text = t]
<1>3. new \in AskRecords /\ new.pc = "work" /\ new.text = t /\ new.content = CancelledAsks[sent'].content
  BY <1>2 DEF AskRecords, Plain
<1>4. ask' = [CancelledAsks EXCEPT ![sent'] = new]
  BY <1>1
<1> HIDE DEF new
<1>5. ask' \in [Asks -> AskRecords] /\ ask'[sent'] = new
      /\ \A s \in Asks : s # sent' => ask'[s] = CancelledAsks[s]
  BY <1>1, <1>3, <1>4, CancelledFacts
<1>6. new.content = "waiting"
  BY <1>1, <1>3, CancelledFacts DEF AskOK
<1>7. t # Key
  BY DEF Plain
<1>8. ASSUME NEW s \in Asks, s = sent' PROVE AskOK(s)'
  <2>1. ask'[s] = new /\ s = session' /\ ~(s > sent')
    BY <1>1, <1>5, <1>8
  <2> QED  BY <2>1, <1>3, <1>6, <1>7 DEF AskOK, Final
<1>9. ASSUME NEW s \in Asks, s # sent' PROVE AskOK(s)'
  <2>1. ask'[s] = CancelledAsks[s]
    BY <1>5, <1>9
  <2>2. s > sent' => s > sent
    BY <1>1
  <2>3. AskOK(s)
    OBVIOUS
  <2> QED  BY ZenonT(60), <2>1, <2>2, <2>3, CancelledFacts DEF AskOK
<1>10. \A s \in Asks : AskOK(s)'
  BY <1>8, <1>9
<1>11. ai' \in Contents /\ askWhenReady' = FALSE /\ spinner' = TRUE /\ sent' \in 0 .. MaxAsks
  BY <1>1 DEF Contents
<1>12. AiInv'
  BY <1>1, <1>5, <1>10, <1>11
<1>13. session' # 0
  BY <1>1
<1> QED  BY <1>11, <1>12, <1>13

\* AskAi for a text that is not of an entry, with the images that are left.
LEMMA AskInv ==
    ASSUME AiInv, JointInv, ui = "idle", ui' = ui, NEW t \in Plain, NEW key \in BOOLEAN,
           mode \in Modes, query \in Queries,
           AskAi(t, image', key),
           image' = image \/ ~(t = Blank /\ \A i \in Images : image'[i] = "none")
    PROVE  /\ AiInv' /\ JointInv' /\ query' \in Queries
           /\ mode' = mode \/ mode' = "Ai"
<1>1. CASE t = Blank /\ \A i \in Images : image'[i] = "none"
  <2>1. UNCHANGED <<mode, query, aiVars>> /\ image' = image
    BY <1>1 DEF AskAi
  <2> QED  BY <2>1, SameAi DEF JointInv, aiVars
<1>2. CASE ~(t = Blank /\ \A i \in Images : image'[i] = "none")
  <2>1. mode' = "Ai" /\ query' = NoQuery
    BY <1>2 DEF AskAi
  <2>2. query' \in Queries
    BY <2>1 DEF NoQuery, Queries, Plain
  <2>3. CASE ~key
    <3>1. /\ ai' = "needsKey" /\ session' = 0 /\ askWhenReady' = FALSE
          /\ spinner' = FALSE /\ ask' = CancelledAsks /\ sent' = sent
      BY <1>2, <2>3 DEF AskAi
    <3>2. \A s \in Asks : AskOK(s)'
      BY <3>1, CancelledFacts DEF AiInv, AskOK
    <3>3. AiInv'
      BY <3>1, <3>2, CancelledFacts DEF AiInv
    <3> QED  BY <2>1, <2>2, <3>1, <3>3 DEF JointInv
  <2>4. CASE key /\ \E i \in Images : image'[i] = "preparing"
    <3>1. /\ ai' = "preparing" /\ session' = 0 /\ askWhenReady' = TRUE
          /\ spinner' = TRUE /\ ask' = CancelledAsks /\ sent' = sent
      BY <1>2, <2>4 DEF AskAi
    <3>2. \A s \in Asks : AskOK(s)'
      BY <3>1, CancelledFacts DEF AiInv, AskOK
    <3>3. AiInv'
      BY <3>1, <3>2, CancelledFacts DEF AiInv
    <3> QED  BY <2>1, <2>2, <2>4, <3>1, <3>3 DEF JointInv
  <2>5. CASE key /\ ~\E i \in Images : image'[i] = "preparing"
    <3>1. SendQuestion(t)
      BY <1>2, <2>5 DEF AskAi
    <3> QED  BY <2>1, <2>2, <3>1, SendInv DEF JointInv
  <2> QED  BY <2>3, <2>4, <2>5
<1> QED  BY <1>1, <1>2

\* AskAgain, when the waiting question has lost an image to wait for only if
\* it is asked again.
LEMMA AgainInv ==
    ASSUME AiInv, JointInv, BoxInv, SmallInv, ui = "idle", ui' = ui, NEW when \in BOOLEAN,
           AskAgain(image', when),
           askWhenReady /\ ~when => \E i \in Images : image'[i] = "preparing"
    PROVE  /\ AiInv' /\ JointInv' /\ query' \in Queries
           /\ mode' = mode \/ (mode' = "Ai" /\ mode = "Ai")
<1>1. CASE when /\ mode = "Ai" /\ text = Blank /\ \A i \in Images : image'[i] = "none"
  <2>1. /\ askWhenReady' = FALSE
        /\ UNCHANGED <<mode, query, ai, session, spinner, sent, ask>>
    BY <1>1 DEF AskAgain
  <2>2. AiInv'
    BY <2>1 DEF AiInv, AskOK
  <2>3. session' = session /\ mode' = mode /\ query' = query
    BY <2>1
  <2>4. JointInv'
    BY <2>1, <2>3 DEF JointInv
  <2>5. query' \in Queries
    BY <2>3 DEF BoxInv
  <2> QED  BY <2>2, <2>3, <2>4, <2>5
<1>2. CASE when /\ mode = "Ai" /\ ~(text = Blank /\ \A i \in Images : image'[i] = "none")
  <2>1. AskAi(text, image', hasKey)
    BY <1>2 DEF AskAgain
  <2>2. text \in Plain /\ hasKey \in BOOLEAN /\ mode \in Modes /\ query \in Queries
    BY <1>2 DEF BoxInv, SmallInv
  <2> QED  BY <1>2, <2>1, <2>2, AskInv
<1>3. CASE ~(when /\ mode = "Ai")
  <2>1. UNCHANGED <<mode, query, aiVars>>
    BY <1>3 DEF AskAgain
  <2>2. askWhenReady => ~when
    BY <1>3 DEF JointInv
  <2>3. mode' = mode /\ query' = query /\ session' = session /\ askWhenReady' = askWhenReady
    BY <2>1 DEF aiVars
  <2>4. askWhenReady => mode = "Ai" /\ \E i \in Images : image'[i] = "preparing"
    BY Zenon, <2>2 DEF JointInv
  <2>5. JointInv'
    BY <2>3, <2>4 DEF JointInv
  <2>6. query' \in Queries
    BY <2>3 DEF BoxInv
  <2>7. AiInv'
    BY <2>1, SameAi
  <2> QED  BY <2>3, <2>5, <2>6, <2>7
<1> QED  BY <1>1, <1>2, <1>3

\* SearchTextChanged in a search or an answer, or in an entry.
LEMMA ChangedInv ==
    ASSUME AiInv, JointInv, ui = "idle", ui' = ui, image' = image, NEW t \in AnyText,
           mode \in {"Search", "Ai"} => t \in Plain,
           mode \in Modes, query \in Queries, rows \in RowsOf, TextChanged(t)
    PROVE  /\ AiInv' /\ JointInv' /\ query' \in Queries /\ rows' \in RowsOf
           /\ mode \in {"Search", "Ai"} => mode' = "Search"
           /\ mode \in Entries => mode' = mode
<1>1. CASE mode \in Entries
  <2>1. UNCHANGED <<mode, query, rows, aiVars>>
    BY <1>1 DEF TextChanged
  <2> QED  BY <1>1, <2>1, SameAi DEF JointInv, aiVars
<1>2. CASE mode \in {"Search", "Ai"}
  <2>1. mode' = "Search" /\ Requery(t)
    BY <1>2 DEF TextChanged
  <2>2. query' \in Queries /\ rows' \in RowsOf
    BY <1>2, <2>1 DEF Requery, NoQuery, NoRows, Queries, RowsOf, Plain
  <2>3. CASE mode = "Ai"
    <3>1. ExitedAi
      BY <1>2, <2>3 DEF TextChanged
    <3> QED  BY <1>2, <2>1, <2>2, <3>1, ExitedInv DEF JointInv
  <2>4. CASE mode = "Search"
    <3>1. UNCHANGED aiVars
      BY <1>2, <2>4 DEF TextChanged
    <3> QED  BY <1>2, <2>1, <2>2, <2>4, <3>1, SameAi DEF JointInv, aiVars
  <2> QED  BY <1>2, <2>3, <2>4
<1> QED  BY <1>1, <1>2 DEF Modes

-----------------------------------------------------------------------------
(* The actions.                                                            *)

\* A step that leaves the images as they are.
LEMMA SameImages == ImageInv /\ UNCHANGED imageVars => ImageInv'
  BY DEF ImageInv, imageVars

\* A step that leaves the box as it is.
LEMMA SameBox == BoxInv /\ UNCHANGED boxVars => BoxInv'
  BY DEF BoxInv, boxVars

LEMMA SameJoint ==
    JointInv /\ UNCHANGED <<session, mode, askWhenReady, image, ui>> => JointInv'
  BY DEF JointInv

\* The text given back by an entry.
LEMMA LeaveFacts ==
    ASSUME BoxInv, LeaveEntry
    PROVE  text' \in Plain /\ text' \in AnyText /\ saved' \in Plain /\ askAfterKey' = FALSE
  BY DEF BoxInv, LeaveEntry, Plain

LEMMA OpenInv ==
    ASSUME Inv, OpenSearch
    PROVE  Inv'
<1> USE DEF OpenSearch
<1>1. BoxInv'
  <2>1. query' \in Queries
    BY DEF Inv, BoxInv, ReopenQueries, NoQuery, Queries
  <2> QED  BY <2>1 DEF Inv, BoxInv, NoRows, RowsOf, Plain
<1>2. SmallInv'
  BY DEF Inv, SmallInv, RefreshApps, keyVars
<1>3. AiInv'
  <2>1. spinner' \in BOOLEAN
    BY Zenon DEF Inv, AiInv, ReopenedSpinner
  <2> QED  BY <2>1 DEF Inv, AiInv, AskOK
<1>4. ImageInv' /\ JointInv'
  BY SameImages, SameJoint DEF Inv, imageVars
<1> QED  BY <1>1, <1>2, <1>3, <1>4 DEF Inv

LEMMA ClosesInv ==
    ASSUME Inv, Closes, ui = "idle", UNCHANGED <<appVars, hasKey, imageVars, ui>>
    PROVE  Inv'
<1> USE DEF Closes
<1>1. BoxInv' /\ askAfterKey' \in BOOLEAN /\ (mode' = mode \/ (mode \in Entries /\ mode' = "Search"))
  <2>1. open' = FALSE /\ query' \in Queries /\ rows' \in RowsOf
    BY DEF NoRows, NoQuery, Queries, RowsOf, Plain
  <2>2. CASE mode \in Entries
    <3>1. mode' = "Search" /\ LeaveEntry
      BY <2>2
    <3> QED  BY <2>1, <2>2, <3>1, LeaveFacts DEF Inv, BoxInv, Modes
  <2>3. CASE mode \notin Entries
    <3>1. UNCHANGED <<mode, text, saved, askAfterKey>>
      BY <2>3
    <3> QED  BY <2>1, <3>1 DEF Inv, BoxInv, SmallInv
  <2> QED  BY <2>2, <2>3
<1>2. SmallInv'
  BY <1>1 DEF Inv, SmallInv, appVars
<1>3. AiInv'
  BY DEF Inv, AiInv, AskOK
<1>4. JointInv'
  BY <1>1 DEF Inv, JointInv, imageVars
<1> QED  BY <1>1, <1>2, <1>3, <1>4, SameImages DEF Inv

\* SearchTextChanged after the box came to hold what its mode allows.
LEMMA BoxChangedInv ==
    ASSUME Inv, TextChanged(text'), ui = "idle", ui' = ui, UNCHANGED <<open, saved, appVars, keyVars>>,
           text' \in AnyText, mode \in {"Search", "Ai"} => text' \in Plain,
           mode = "ModelEntry" => text' # Key, image' = image
    PROVE  BoxInv' /\ SmallInv' /\ AiInv' /\ JointInv'
<1>1. mode \in Modes /\ query \in Queries /\ rows \in RowsOf
  BY DEF Inv, BoxInv
<1>2. /\ AiInv' /\ JointInv' /\ query' \in Queries /\ rows' \in RowsOf
      /\ mode \in {"Search", "Ai"} => mode' = "Search"
      /\ mode \in Entries => mode' = mode
  BY <1>1, ChangedInv DEF Inv
<1>3. mode' \in Modes /\ (mode' \in {"Search", "Ai"} => text' \in Plain)
      /\ (mode' = "ModelEntry" => text' # Key)
  BY <1>1, <1>2 DEF Modes
<1>4. BoxInv'
  BY <1>2, <1>3 DEF Inv, BoxInv
<1>5. SmallInv'
  BY DEF Inv, SmallInv, appVars, keyVars
<1> QED  BY <1>2, <1>4, <1>5

LEMMA TypeInv ==
    ASSUME Inv, Type
    PROVE  Inv'
<1>1. PICK t \in Typed : text' = t /\ TextChanged(t)
  BY DEF Type
<1>2. /\ text' \in AnyText /\ (mode \in {"Search", "Ai"} => text' \in Plain)
      /\ (mode = "ModelEntry" => text' # Key)
  BY <1>1 DEF Typed, Plain, Inv, BoxInv, Modes
<1>3. /\ ui = "idle" /\ UNCHANGED <<open, saved, appVars, keyVars, imageVars, ui>>
      /\ image' = image
  BY DEF Type, imageVars
<1>4. BoxInv' /\ SmallInv' /\ AiInv' /\ JointInv'
  BY <1>1, <1>2, <1>3, BoxChangedInv
<1> QED  BY <1>3, <1>4, SameImages DEF Inv

LEMMA EntryInv ==
    ASSUME Inv, ui = "idle", NEW m \in Entries, NEW forAsk \in BOOLEAN, OpenEntry(m, forAsk)
    PROVE  Inv'
<1> USE DEF OpenEntry
<1>1. saved' \in Plain
  BY DEF Inv, BoxInv, SavedByEntry, Modes
<1>2. AiInv' /\ session' = 0 /\ askWhenReady' = FALSE
  BY ExitedInv DEF Inv
<1>3. rows' \in RowsOf
  BY DEF EntryRows, NoRows, RowsOf, Plain
<1>4. text' \in AnyText /\ text' # Key /\ mode' \in Modes \ {"Search", "Ai"}
  BY DEF Modes
<1>5. BoxInv'
  BY <1>1, <1>3, <1>4 DEF Inv, BoxInv
<1>6. SmallInv'
  <2>1. askAfterKey' \in BOOLEAN
    BY Zenon
  <2>2. apps' = apps /\ appsInFlight' \in BOOLEAN /\ ui' = ui /\ hasKey' = hasKey
    BY DEF Inv, SmallInv, RefreshApps, appVars
  <2> QED  BY <2>1, <2>2 DEF Inv, SmallInv
<1>7. JointInv'
  BY <1>2 DEF JointInv
<1> QED  BY <1>2, <1>5, <1>6, <1>7, SameImages DEF Inv

LEMMA CommitInv ==
    ASSUME Inv, CommitEntry
    PROVE  Inv'
<1> USE DEF CommitEntry
<1>1. text' \in Plain /\ text' \in AnyText /\ saved' \in Plain /\ askAfterKey' = FALSE
  BY LeaveFacts DEF Inv
<1>2. SmallInv'
  <2>1. hasKey' \in BOOLEAN /\ askAfterKey' \in BOOLEAN
    BY Zenon, <1>1 DEF Inv, SmallInv
  <2> QED  BY <2>1 DEF Inv, SmallInv, appVars
<1>3. image' = image /\ saved \in Plain /\ mode \in Modes /\ query \in Queries /\ TRUE \in BOOLEAN
  BY DEF imageVars, Inv, BoxInv
<1>4. CASE mode = "KeyEntry" /\ askAfterKey /\ text # Blank /\ saved # Blank
  <2>1. AskAi(saved, image', TRUE) /\ rows' = NoRows
    BY <1>3, <1>4
  <2>2. /\ AiInv' /\ JointInv' /\ query' \in Queries
        /\ mode' = mode \/ mode' = "Ai"
    BY <1>3, <2>1, AskInv DEF Inv
  <2>3. mode' \in Modes /\ mode' # "ModelEntry"
    BY <1>4, <2>2 DEF Modes
  <2>4. rows' \in RowsOf
    BY <2>1 DEF NoRows, RowsOf, Plain
  <2>5. BoxInv'
    BY <1>1, <2>2, <2>3, <2>4 DEF Inv, BoxInv
  <2> QED  BY <1>2, <2>2, <2>5, SameImages DEF Inv
<1>5. CASE ~(mode = "KeyEntry" /\ askAfterKey /\ text # Blank /\ saved # Blank)
  <2>1. mode' = "Search" /\ rows' = Notice /\ UNCHANGED <<query, aiVars>>
    BY <1>5
  <2>2. rows' \in RowsOf
    BY <2>1 DEF Notice, NoRows, RowsOf, Plain
  <2>3. BoxInv'
    BY <1>1, <2>1, <2>2 DEF Inv, BoxInv, Modes
  <2>4. JointInv'
    BY <1>3, <2>1 DEF Inv, JointInv, aiVars
  <2> QED  BY <1>2, <2>1, <2>3, <2>4, SameImages, SameAi DEF Inv
<1> QED  BY <1>4, <1>5

LEMMA EscapeEntryInv ==
    ASSUME Inv, EscapeEntry
    PROVE  Inv'
<1> USE DEF EscapeEntry
<1>1. text' \in Plain /\ text' \in AnyText /\ saved' \in Plain /\ askAfterKey' = FALSE
  BY LeaveFacts DEF Inv
<1>2. query' \in Queries /\ rows' \in RowsOf
  BY DEF NoQuery, NoRows, Queries, RowsOf, Plain, Inv, BoxInv
<1>3. BoxInv'
  BY <1>1, <1>2 DEF Inv, BoxInv, Modes
<1>4. SmallInv'
  BY <1>1 DEF Inv, SmallInv, appVars
<1>5. JointInv'
  BY DEF Inv, JointInv, aiVars, imageVars
<1> QED  BY <1>3, <1>4, <1>5, SameImages, SameAi DEF Inv

LEMMA EscapeTextInv ==
    ASSUME Inv, EscapeText
    PROVE  Inv'
<1> USE DEF EscapeText
<1>1. mode = "Search" /\ ui = "idle" /\ text' = Blank /\ TextChanged(Blank)
  OBVIOUS
<1>2. session = 0 /\ askWhenReady = FALSE
  BY <1>1 DEF Inv, JointInv, AiInv
<1>3. mode' = "Search" /\ query' \in Queries /\ rows' \in RowsOf /\ UNCHANGED aiVars
  <2>1. mode' = "Search" /\ Requery(Blank) /\ UNCHANGED aiVars
    BY <1>1 DEF TextChanged
  <2>2. query' \in Queries /\ rows' \in RowsOf
    BY <2>1 DEF Requery, NoQuery, NoRows, Queries, RowsOf, Plain
  <2> QED  BY <2>1, <2>2
<1>4. BoxInv'
  BY <1>1, <1>3 DEF Inv, BoxInv, Plain, Modes
<1>5. SmallInv'
  BY DEF Inv, SmallInv, appVars, keyVars
<1>6. ImageInv'
  BY DEF Inv, ImageInv
<1>7. JointInv'
  BY <1>1, <1>2, <1>3 DEF JointInv, aiVars
<1> QED  BY <1>3, <1>4, <1>5, <1>6, <1>7, SameAi DEF Inv

LEMMA AskStepInv ==
    ASSUME Inv, Ask
    PROVE  Inv'
<1> USE DEF Ask
<1>1. /\ AskAi(text, image', hasKey) /\ image' = image
      /\ text \in Plain /\ hasKey \in BOOLEAN /\ mode \in Modes /\ query \in Queries
  BY DEF Inv, BoxInv, SmallInv, Modes, imageVars
<1>2. /\ AiInv' /\ JointInv' /\ query' \in Queries
      /\ mode' = mode \/ mode' = "Ai"
  BY <1>1, AskInv DEF Inv
<1>3. BoxInv'
  BY <1>1, <1>2 DEF Inv, BoxInv, Modes
<1>4. SmallInv'
  BY DEF Inv, SmallInv, appVars, keyVars
<1> QED  BY <1>2, <1>3, <1>4, SameImages DEF Inv

LEMMA AddImageInv ==
    ASSUME Inv, AddImage
    PROVE  Inv'
<1> USE DEF AddImage
<1>1. attached' \in Images /\ reading' = reading \cup {attached'}
      /\ image' = [image EXCEPT ![attached'] = "preparing"] /\ image' \in [Images -> {"none", "preparing", "ready"}]
      /\ \A i \in Images : i # attached' => image'[i] = image[i]
      /\ image'[attached'] = "preparing"
  BY DEF Inv, ImageInv
<1>2. ImageInv'
  BY <1>1 DEF Inv, ImageInv
<1>3. \A i \in Images : image[i] = "preparing" => image'[i] = "preparing"
  BY <1>1
<1>4. JointInv'
  BY <1>3 DEF Inv, JointInv, boxVars, aiVars
<1>5. SmallInv'
  BY DEF Inv, SmallInv, appVars, keyVars
<1> QED  BY <1>2, <1>4, <1>5, SameBox, SameAi DEF Inv

\* What AskAgain leaves of the box.
LEMMA AgainBox ==
    ASSUME BoxInv, query' \in Queries, mode' = mode \/ (mode' = "Ai" /\ mode = "Ai"),
           UNCHANGED <<open, text, saved, rows>>
    PROVE  BoxInv'
  BY DEF BoxInv

LEMMA RemoveImageInv ==
    ASSUME Inv, RemoveImage
    PROVE  Inv'
<1>1. PICK j \in Images : image' = [image EXCEPT ![j] = "none"] /\ AskAgain(image', askWhenReady)
  BY DEF RemoveImage
<1>2. /\ ui = "idle" /\ ui' = ui /\ UNCHANGED <<open, text, saved, rows, appVars, keyVars, reading, attached>>
  BY DEF RemoveImage
<1>3. askWhenReady \in BOOLEAN
  BY DEF Inv, AiInv
<1>4. /\ AiInv' /\ JointInv' /\ query' \in Queries
      /\ mode' = mode \/ (mode' = "Ai" /\ mode = "Ai")
  BY <1>1, <1>2, <1>3, AgainInv DEF Inv
<1>5. ImageInv'
  BY <1>1, <1>2 DEF Inv, ImageInv
<1>6. SmallInv'
  BY <1>2 DEF Inv, SmallInv, appVars, keyVars
<1> QED  BY <1>2, <1>4, <1>5, <1>6, AgainBox DEF Inv

LEMMA OnImageInv ==
    ASSUME Inv, OnImage
    PROVE  Inv'
<1>1. PICK j \in reading, ok \in BOOLEAN :
        /\ reading' = reading \ {j}
        /\ image' = IF image[j] = "none" THEN image
                    ELSE [image EXCEPT ![j] = IF ok THEN "ready" ELSE "none"]
        /\ AskAgain(image', image[j] # "none" /\ askWhenReady /\ ReadyNow(image', ok))
  BY DEF OnImage
<1>2. /\ ui = "idle" /\ ui' = ui /\ UNCHANGED <<open, text, saved, rows, appVars, keyVars, attached>>
  BY DEF OnImage
<1> DEFINE when == image[j] # "none" /\ askWhenReady /\ ReadyNow(image', ok)
<1>3. when \in BOOLEAN
  BY Zenon
<1>4. /\ j \in Images /\ image' \in [Images -> {"none", "preparing", "ready"}]
      /\ \A i \in Images : i # j => image'[i] = image[i]
      /\ image'[j] # "preparing" \/ image' = image
  BY <1>1 DEF Inv, ImageInv
<1>5. askWhenReady => \E i \in Images : image[i] = "preparing"
  BY DEF Inv, JointInv
<1>6. askWhenReady /\ ~when => \E i \in Images : image'[i] = "preparing"
  <2>1. CASE image[j] = "none"
    BY <1>1, <1>5, <2>1
  <2>2. CASE image[j] # "none"
    BY <2>2 DEF ReadyNow
  <2> QED  BY <2>1, <2>2
<1>7. AskAgain(image', when)
  BY <1>1
<1> HIDE DEF when
<1>8. /\ AiInv' /\ JointInv' /\ query' \in Queries
      /\ mode' = mode \/ (mode' = "Ai" /\ mode = "Ai")
  BY <1>2, <1>3, <1>6, <1>7, AgainInv DEF Inv
<1>9. ImageInv'
  <2>1. image'[j] # "preparing"
    BY <1>1, <1>4 DEF Inv, ImageInv
  <2> QED  BY <1>1, <1>2, <1>4, <2>1 DEF Inv, ImageInv
<1>10. SmallInv'
  BY <1>2 DEF Inv, SmallInv, appVars, keyVars
<1> QED  BY <1>2, <1>8, <1>9, <1>10, AgainBox DEF Inv

LEMMA OnAppsInv ==
    ASSUME Inv, OnApps \/ OnNoApps \/ OnStatus \/ EscapeAnswer
    PROVE  Inv'
<1>1. /\ ui = "idle" /\ ui' = ui /\ UNCHANGED <<open, text, saved, keyVars, imageVars>> /\ image' = image
      /\ apps' \in 0 .. MaxApps /\ appsInFlight' \in BOOLEAN
  <2>1. CASE OnApps
    <3>1. apps \in 0 .. MaxApps
      BY DEF Inv, SmallInv
    <3>2. apps' = apps \/ (apps' = apps + 1 /\ apps' <= MaxApps)
      BY <2>1 DEF OnApps
    <3>3. apps' \in 0 .. MaxApps
      BY <3>1, <3>2
    <3>4. appsInFlight' = FALSE
      BY <2>1 DEF OnApps
    <3>5. UNCHANGED <<ui, open, text, saved, keyVars, imageVars>> /\ ui = "idle"
      BY <2>1 DEF OnApps
    <3> QED  BY <3>3, <3>4, <3>5 DEF imageVars
  <2>2. CASE OnNoApps
    BY <2>2 DEF OnNoApps, boxVars, imageVars, Inv, SmallInv
  <2>3. CASE OnStatus \/ EscapeAnswer
    BY <2>3 DEF OnStatus, EscapeAnswer, appVars, imageVars, Inv, SmallInv
  <2> QED  BY <2>1, <2>2, <2>3
<1>2. SmallInv'
  BY <1>1 DEF Inv, SmallInv, keyVars
<1>3. CASE UNCHANGED <<mode, query, rows, aiVars>>
  <2>1. BoxInv' /\ AiInv'
    BY <1>1, <1>3, SameAi DEF Inv, BoxInv
  <2>2. JointInv'
    BY <1>1, <1>3 DEF Inv, JointInv, aiVars
  <2> QED  BY <1>1, <1>2, <2>1, <2>2, SameImages DEF Inv
<1>4. CASE TextChanged(text)
  <2>1. mode \in Modes /\ query \in Queries /\ rows \in RowsOf /\ text \in AnyText
        /\ (mode \in {"Search", "Ai"} => text \in Plain)
    BY DEF Inv, BoxInv
  <2>2. /\ AiInv' /\ JointInv' /\ query' \in Queries /\ rows' \in RowsOf
        /\ mode \in {"Search", "Ai"} => mode' = "Search"
        /\ mode \in Entries => mode' = mode
    BY <1>1, <1>4, <2>1, ChangedInv DEF Inv
  <2>3. BoxInv'
    BY <1>1, <2>1, <2>2 DEF Inv, BoxInv, Modes
  <2> QED  BY <1>1, <1>2, <2>2, <2>3, SameImages DEF Inv
<1> QED  BY <1>3, <1>4 DEF OnApps, OnNoApps, OnStatus, EscapeAnswer, boxVars

LEMMA RepliesInv ==
    ASSUME Inv, Searched \/ OnReply
    PROVE  Inv'
<1>1. /\ query' \in Queries /\ rows' \in RowsOf
      /\ UNCHANGED <<open, mode, text, saved, appVars, keyVars, aiVars, imageVars, ui>>
  <2>1. CASE Searched
    <3>1. query \in Queries /\ rows \in RowsOf /\ apps \in Nat
      BY DEF Inv, BoxInv, SmallInv
    <3>2. query' = [query EXCEPT !.searched = TRUE, !.apps = apps] /\ rows' = rows
      BY <2>1 DEF Searched
    <3>3. query' \in Queries
      BY <3>1, <3>2 DEF Queries
    <3> QED  BY <2>1, <3>1, <3>2, <3>3 DEF Searched
  <2>2. CASE OnReply
    <3>1. ResultRows(query) \in RowsOf
      BY DEF Inv, BoxInv, ResultRows, Queries, RowsOf
    <3> QED  BY <2>2, <3>1 DEF OnReply, NoQuery, Inv, BoxInv, Queries, Plain
  <2> QED  BY <2>1, <2>2
<1>2. BoxInv'
  BY <1>1 DEF Inv, BoxInv
<1>3. SmallInv'
  BY <1>1 DEF Inv, SmallInv, appVars, keyVars
<1>4. JointInv'
  BY <1>1 DEF Inv, JointInv, aiVars, imageVars
<1> QED  BY <1>1, <1>2, <1>3, <1>4, SameImages, SameAi DEF Inv

\* A step of one session that does not begin it, end it or change its text.
LEMMA SessionInv ==
    ASSUME AiInv, NEW s \in Asks, NEW new \in AskRecords, ask' = [ask EXCEPT ![s] = new],
           new.text = ask[s].text, new.cancelled = ask[s].cancelled,
           new.pc \in {"work", "post"} /\ new.content \notin Final => s = session \/ ask[s].cancelled,
           new.pc = "work" => new.content \notin Final,
           s > sent => new.pc = "none" /\ new.content = "waiting",
           UNCHANGED <<ai, session, askWhenReady, spinner, sent>>
    PROVE  AiInv'
<1>1. ask'[s] = new /\ (\A r \in Asks : r # s => ask'[r] = ask[r]) /\ ask' \in [Asks -> AskRecords]
  BY DEF AiInv
<1>2. \A r \in Asks : AskOK(r)'
  BY <1>1 DEF AiInv, AskOK
<1> QED  BY <1>1, <1>2 DEF AiInv

LEMMA OnUpdateInv ==
    ASSUME Inv, NEW s \in Asks, OnUpdate(s)
    PROVE  Inv'
<1>1. /\ ui = "idle"
      /\ UNCHANGED <<boxVars, appVars, keyVars, ai, session, askWhenReady, spinner, sent, imageVars>>
  BY DEF OnUpdate
<1>2. ask[s] \in AskRecords /\ AskOK(s)
  BY DEF Inv, AiInv
<1>3. AiInv'
  <2>1. CASE session = s
    <3> DEFINE new == [ask[s] EXCEPT !.posted = FALSE, !.pending = FALSE]
    <3>1. ask' = [ask EXCEPT ![s] = new]
      BY <2>1 DEF OnUpdate, Cleared
    <3>2. new \in AskRecords /\ new.text = ask[s].text /\ new.cancelled = ask[s].cancelled
          /\ new.pc = ask[s].pc /\ new.content = ask[s].content
      BY <1>2 DEF AskRecords
    <3> HIDE DEF new
    <3> QED  BY <1>1, <1>2, <3>1, <3>2, SessionInv DEF Inv, AskOK
  <2>2. CASE session # s
    <3> DEFINE new == [ask[s] EXCEPT !.posted = FALSE]
    <3>1. ask' = [ask EXCEPT ![s] = new]
      BY <2>2 DEF OnUpdate
    <3>2. new \in AskRecords /\ new.text = ask[s].text /\ new.cancelled = ask[s].cancelled
          /\ new.pc = ask[s].pc /\ new.content = ask[s].content
      BY <1>2 DEF AskRecords
    <3> HIDE DEF new
    <3> QED  BY <1>1, <1>2, <3>1, <3>2, SessionInv DEF Inv, AskOK
  <2> QED  BY <2>1, <2>2
<1>4. ui' \in {"idle", "copy"} /\ (ui' = "copy" => session = s)
  BY <1>1 DEF OnUpdate
<1>5. SmallInv'
  BY <1>1, <1>4 DEF Inv, SmallInv, appVars, keyVars
<1>6. JointInv'
  BY <1>1, <1>4 DEF Inv, JointInv, boxVars, imageVars
<1> QED  BY <1>1, <1>3, <1>5, <1>6, SameBox, SameImages DEF Inv

LEMMA CopyInv ==
    ASSUME Inv, Copy
    PROVE  Inv'
<1> USE DEF Copy
<1>1. session \in Asks /\ ask[session] \in AskRecords
  BY DEF Inv, AiInv, JointInv
<1>2. ai' \in Contents
  BY <1>1 DEF AskRecords
<1>3. AiInv' /\ (session' = session \/ session' = 0)
  <2>1. CASE ai' \in Final
    <3>1. session' = 0 /\ spinner' = FALSE
      BY <2>1
    <3>2. ASSUME NEW s \in Asks PROVE AskOK(s)'
      <4>1. AskOK(s)
        BY DEF Inv, AiInv
      <4>2. s = session => ask[s].content \in Final
        BY <2>1
      <4> QED  BY <3>1, <4>1, <4>2 DEF AskOK
    <3> QED  BY <1>2, <3>1, <3>2 DEF Inv, AiInv
  <2>2. CASE ai' \notin Final
    BY <1>2, <2>2 DEF Inv, AiInv, AskOK
  <2> QED  BY <2>1, <2>2
<1>4. SmallInv'
  BY DEF Inv, SmallInv, appVars, keyVars
<1>5. JointInv'
  BY <1>3 DEF Inv, JointInv, boxVars, imageVars
<1> QED  BY <1>3, <1>4, <1>5, SameBox, SameImages DEF Inv

LEMMA WorkerInv ==
    ASSUME Inv, NEW s \in Asks, Worker(s)
    PROVE  Inv'
<1>1. UNCHANGED <<boxVars, appVars, keyVars, ai, session, askWhenReady, spinner, sent, imageVars, ui>>
  BY DEF Worker, Publish, Poke, Quit
<1>2. ask[s] \in AskRecords /\ AskOK(s)
  BY DEF Inv, AiInv
<1>3. AiInv'
  <2>1. CASE Publish(s)
    <3>1. PICK c \in Contents : ask' = [ask EXCEPT ![s].content = c, ![s].pc = "post"]
      BY <2>1 DEF Publish
    <3> DEFINE new == [ask[s] EXCEPT !.content = c, !.pc = "post"]
    <3>2. ask' = [ask EXCEPT ![s] = new]
      BY <3>1
    <3>3. new \in AskRecords /\ new.text = ask[s].text /\ new.cancelled = ask[s].cancelled
          /\ new.pc = "post"
      BY <1>2 DEF AskRecords
    <3> HIDE DEF new
    <3>4. ask[s].pc = "work"
      BY <2>1 DEF Publish
    <3> QED  BY <1>1, <1>2, <3>2, <3>3, <3>4, SessionInv DEF Inv, AskOK
  <2>2. CASE Poke(s)
    <3> DEFINE p == ask[s].posted \/ ~ask[s].pending
               q == IF ask[s].content \in Final THEN "done" ELSE "work"
               new == [ask[s] EXCEPT !.posted = p, !.pending = TRUE, !.pc = q]
    <3>1. ask' = [ask EXCEPT ![s] = new]
      BY <2>2 DEF Poke
    <3>2. p \in BOOLEAN
      BY Zenon
    <3>3. q \in {"done", "work"} /\ (q = "work" => ask[s].content \notin Final)
          /\ (q = "done" => ask[s].content \in Final)
      OBVIOUS
    <3> HIDE DEF p, q
    <3>4. new \in AskRecords /\ new.text = ask[s].text /\ new.cancelled = ask[s].cancelled
          /\ new.pc = q /\ new.content = ask[s].content
      BY <1>2, <3>2, <3>3 DEF AskRecords
    <3> HIDE DEF new
    <3>5. ask[s].pc = "post"
      BY <2>2 DEF Poke
    <3> QED  BY <1>1, <1>2, <3>1, <3>3, <3>4, <3>5, SessionInv DEF Inv, AskOK
  <2>3. CASE Quit(s)
    <3> DEFINE new == [ask[s] EXCEPT !.pc = "done"]
    <3>1. ask' = [ask EXCEPT ![s] = new]
      BY <2>3 DEF Quit
    <3>2. new \in AskRecords /\ new.text = ask[s].text /\ new.cancelled = ask[s].cancelled
          /\ new.pc = "done"
      BY <1>2 DEF AskRecords
    <3> HIDE DEF new
    <3>3. ask[s].pc = "work"
      BY <2>3 DEF Quit
    <3> QED  BY <1>1, <1>2, <3>1, <3>2, <3>3, SessionInv DEF Inv, AskOK
  <2> QED  BY <2>1, <2>2, <2>3 DEF Worker
<1>4. SmallInv'
  BY <1>1 DEF Inv, SmallInv, appVars, keyVars
<1>5. JointInv'
  BY <1>1 DEF Inv, JointInv, boxVars, imageVars
<1> QED  BY <1>1, <1>3, <1>4, <1>5, SameBox, SameImages DEF Inv

LEMMA NextInv == Inv /\ [Next]_vars => Inv'
<1>1. ASSUME Inv, UNCHANGED vars PROVE Inv'
  <2>1. UNCHANGED <<boxVars, appVars, keyVars, aiVars, imageVars, ui>>
    BY <1>1 DEF vars
  <2>2. SmallInv' /\ JointInv'
    BY <1>1, <2>1 DEF Inv, SmallInv, JointInv, appVars, keyVars, aiVars, imageVars, boxVars
  <2> QED  BY <1>1, <2>1, <2>2, SameBox, SameImages, SameAi DEF Inv
<1>2. ASSUME Inv, User PROVE Inv'
  <2>1. CASE CloseSearch \/ Activate
    BY <1>2, <2>1, ClosesInv DEF CloseSearch, Activate
  <2>2. CASE SettingsEntry
    <3>1. PICK m \in Entries : OpenEntry(m, askAfterKey)
      BY <2>2 DEF SettingsEntry
    <3>2. askAfterKey \in BOOLEAN /\ ui = "idle"
      BY <1>2, <2>2 DEF Inv, SmallInv, SettingsEntry
    <3> QED  BY <1>2, <3>1, <3>2, EntryInv
  <2>3. CASE AddKey
    <3>1. "KeyEntry" \in Entries /\ TRUE \in BOOLEAN /\ ui = "idle" /\ OpenEntry("KeyEntry", TRUE)
      BY <2>3 DEF AddKey
    <3> QED  BY <1>2, <3>1, EntryInv
  <2>4. CASE OpenSearch \/ Type \/ CommitEntry \/ EscapeEntry \/ EscapeAnswer
    BY <1>2, <2>4, OpenInv, TypeInv, CommitInv, EscapeEntryInv, OnAppsInv
  <2>5. CASE EscapeText \/ Ask \/ AddImage \/ RemoveImage
    BY <1>2, <2>5, EscapeTextInv, AskStepInv, AddImageInv, RemoveImageInv
  <2> QED  BY <1>2, <2>1, <2>2, <2>3, <2>4, <2>5 DEF User
<1>3. ASSUME Inv, Message \/ Searched PROVE Inv'
  BY <1>3, OnAppsInv, RepliesInv, OnImageInv, CopyInv, OnUpdateInv DEF Message
<1> QED  BY <1>1, <1>2, <1>3, WorkerInv DEF Next

LEMMA Invariance == Spec => []Inv
  BY InitInv, NextInv, PTL DEF Spec

-----------------------------------------------------------------------------
(* What the invariant says.                                                *)

\* The types of the panel, its messages and its workers.
THEOREM TypeCorrect == Spec => []TypeOK
<1>1. Inv => TypeOK
  <2> SUFFICES ASSUME Inv PROVE TypeOK
    OBVIOUS
  <2>1. Plain \subseteq AnyText /\ MaxApps \in Nat
    BY DEF Plain
  <2>2. rows \in [kind: {"none", "entry", "notice", "results"}, text: AnyText, apps: Nat]
    BY <2>1 DEF Inv, BoxInv, RowsOf
  <2>3. query \in [text: AnyText, searched: BOOLEAN, apps: Nat]
    BY <2>1 DEF Inv, BoxInv, Queries
  <2>4. saved \in Texts \cup {Blank} /\ mode \in Entries \cup {"Search", "Ai"}
        /\ open \in BOOLEAN /\ text \in AnyText
    BY DEF Inv, BoxInv, Plain, Modes
  <2> QED  BY <2>2, <2>3, <2>4 DEF Inv, SmallInv, AiInv, ImageInv, TypeOK, AskRecords
<1> QED  BY Invariance, <1>1, PTL

\* The key typed in the entry is never searched, asked, kept as a text or
\* shown again, whatever the user and the threads do.
THEOREM KeyIsSafe == Spec => []KeyStaysInEntry
<1>1. Inv => KeyStaysInEntry
  BY DEF Inv, BoxInv, AiInv, AskOK, KeyStaysInEntry, Plain, Modes, Queries, RowsOf
<1> QED  BY Invariance, <1>1, PTL

\* Only the session in progress streams; one that was replaced has been told
\* to stop.
THEOREM StreamsOwned == Spec => []StreamsAreOwned
<1>1. Inv => StreamsAreOwned
  BY DEF Inv, AiInv, AskOK, JointInv, StreamsAreOwned
<1> QED  BY Invariance, <1>1, PTL

\* A question that waits for its images has one that is being prepared.
THEOREM WaitIsFounded == Spec => []WaitsForAnImage
<1>1. Inv => WaitsForAnImage
  BY DEF Inv, ImageInv, JointInv, WaitsForAnImage
<1> QED  BY Invariance, <1>1, PTL
-----------------------------------------------------------------------------
(* What rests in the panel is what its box, session and timer stand for.   *)

\* The live request is for the text of a search, which an entry keeps.
RequestInv ==
    /\ mode = "Search" => query = NoQuery \/ (query.text = text /\ text # Blank)
    /\ mode = "Ai" => query = NoQuery
    /\ mode \in Entries => query = NoQuery \/ (query.text = saved /\ saved # Blank)

RestInv == RequestInv /\ RestingRowsMatch /\ SpinnerTurns

\* A request for a text is none for the empty text only.
LEMMA RequestFacts ==
    /\ \A t : [NoQuery EXCEPT !.text = t].text = t
    /\ [NoQuery EXCEPT !.text = Blank] = NoQuery
    /\ NoQuery.text = Blank /\ ~NoQuery.searched
    /\ NoRows.kind = "none" /\ EntryRows.kind = "entry" /\ Notice.kind = "notice"
<1>1. \A t : [NoQuery EXCEPT !.text = t].text = t
  BY DEF NoQuery
<1>2. [NoQuery EXCEPT !.text = Blank] = NoQuery
  <2>1. NoQuery \in Queries /\ NoQuery.text = Blank
    BY DEF NoQuery, Queries, Plain
  <2>2. \A q \in Queries : [q EXCEPT !.text = q.text] = q
    BY DEF Queries
  <2> QED  BY <2>1, <2>2
<1>3. NoQuery.text = Blank /\ ~NoQuery.searched
  BY DEF NoQuery
<1>4. NoRows.kind = "none" /\ EntryRows.kind = "entry" /\ Notice.kind = "notice"
  BY DEF NoRows, EntryRows, Notice
<1> QED  BY <1>1, <1>2, <1>3, <1>4

LEMMA RestInit == Init => RestInv
BY DEF Init, RestInv, RequestInv, RestingRowsMatch, SpinnerTurns

\* SearchTextChanged for the text the box has now.
LEMMA ChangedRests ==
    ASSUME Inv, RestInv, TextChanged(text'), UNCHANGED <<open, saved>>
    PROVE  RestInv'
<1>1. CASE mode \in Entries
  <2>1. UNCHANGED <<mode, query, session, spinner>>
    BY <1>1 DEF TextChanged, aiVars
  <2>2. mode # "Search" /\ mode # "Ai"
    BY <1>1
  <2> QED  BY <1>1, <2>1, <2>2 DEF RestInv, RequestInv, RestingRowsMatch, SpinnerTurns
<1>2. CASE mode \notin Entries
  <2>1. /\ mode' = "Search" /\ query' = [NoQuery EXCEPT !.text = text']
        /\ rows' = IF text' = Blank THEN NoRows ELSE rows
    BY <1>2 DEF TextChanged, Requery
  <2>2. RequestInv' /\ RestingRowsMatch'
    BY <2>1, RequestFacts DEF RequestInv, RestingRowsMatch
  <2>3. SpinnerTurns'
    BY <1>2 DEF TextChanged, ExitedAi, aiVars, RestInv, SpinnerTurns
  <2> QED  BY <2>2, <2>3 DEF RestInv
<1> QED  BY <1>1, <1>2

\* AskAi: an answer has no request, and its timer runs.
LEMMA AskRests ==
    ASSUME NEW t, NEW img, NEW key, AskAi(t, img, key), RestInv, open' = open,
           mode' = mode => UNCHANGED <<text, saved, rows>>,
           t = Blank /\ (\A i \in Images : img[i] = "none") => mode' = mode
    PROVE  RestInv'
<1>1. CASE t = Blank /\ \A i \in Images : img[i] = "none"
  <2>1. UNCHANGED <<mode, query, text, saved, rows, session, spinner>>
    BY <1>1 DEF AskAi, aiVars
  <2> QED  BY <2>1 DEF RestInv, RequestInv, RestingRowsMatch, SpinnerTurns
<1>2. CASE ~(t = Blank /\ \A i \in Images : img[i] = "none")
  <2>1. mode' = "Ai" /\ query' = NoQuery
    BY <1>2 DEF AskAi
  <2>2. session' = 0 \/ spinner' = TRUE
    BY <1>2 DEF AskAi, SendQuestion
  <2> QED  BY <2>1, <2>2 DEF RestInv, RequestInv, RestingRowsMatch, SpinnerTurns
<1> QED  BY <1>1, <1>2

LEMMA AgainRests ==
    ASSUME NEW img, NEW when, AskAgain(img, when), RestInv, UNCHANGED <<open, text, saved, rows>>
    PROVE  RestInv'
<1>1. CASE UNCHANGED <<mode, query, session, spinner>>
  BY <1>1 DEF RestInv, RequestInv, RestingRowsMatch, SpinnerTurns
<1>2. CASE AskAi(text, img, hasKey)
  <2>1. text = Blank /\ (\A i \in Images : img[i] = "none") => mode' = mode
    BY <1>2 DEF AskAi
  <2> QED  BY <1>2, <2>1, AskRests
<1> QED  BY <1>1, <1>2 DEF AskAgain, aiVars

\* The steps of the user.
LEMMA UserRests ==
    ASSUME Inv, RestInv, User
    PROVE  RestInv'
<1>j. (session # 0 => mode = "Ai") /\ mode \in Modes
  BY DEF Inv, JointInv, BoxInv
<1>1. CASE OpenSearch
  <2>1. /\ open' /\ rows' = NoRows /\ UNCHANGED <<mode, text, saved, session>>
        /\ query' = IF mode = "Search" /\ text # Blank THEN [NoQuery EXCEPT !.text = text] ELSE query
        /\ spinner' = IF mode = "Ai" THEN ReopenedSpinner ELSE spinner
    BY <1>1 DEF OpenSearch, ReopenQueries
  <2>2. RequestInv'
    BY <2>1, RequestFacts DEF RestInv, RequestInv
  <2>3. RestingRowsMatch'
    BY <2>1, RequestFacts DEF RestInv, RequestInv, RestingRowsMatch
  <2>4. SpinnerTurns'
    BY <1>j, <2>1 DEF SpinnerTurns, ReopenedSpinner
  <2> QED  BY <2>2, <2>3, <2>4 DEF RestInv
<1>2. CASE CloseSearch \/ Activate
  <2>1. ~open' /\ query' = NoQuery
    BY <1>2 DEF CloseSearch, Activate, Closes
  <2> QED  BY <2>1 DEF RestInv, RequestInv, RestingRowsMatch, SpinnerTurns
<1>3. CASE Type
  BY <1>3, ChangedRests DEF Type
<1>4. CASE SettingsEntry \/ AddKey
  <2>1. /\ mode' \in Entries /\ session' = 0 /\ query' = query
        /\ saved' = IF mode \in Entries THEN saved ELSE text
    BY <1>4 DEF SettingsEntry, AddKey, OpenEntry, ExitedAi, SavedByEntry
  <2>2. RequestInv'
    BY <1>j, <2>1 DEF RestInv, RequestInv, Modes
  <2>3. mode' # "Search"
    BY <2>1
  <2> QED  BY <2>1, <2>2, <2>3 DEF RestInv, RestingRowsMatch, SpinnerTurns
<1>5. CASE CommitEntry
  <2>1. mode \in Entries /\ text' = saved /\ open' = open
    BY <1>5 DEF CommitEntry, LeaveEntry
  <2>2. CASE mode = "KeyEntry" /\ askAfterKey /\ text # Blank /\ saved # Blank
    <3>1. AskAi(saved, image, TRUE) /\ saved # Blank
      BY <1>5, <2>2 DEF CommitEntry
    <3>2. mode' = "Ai" /\ mode # "Ai"
      BY <2>1, <3>1 DEF AskAi
    <3> QED  BY <2>1, <3>1, <3>2, AskRests
  <2>3. CASE ~(mode = "KeyEntry" /\ askAfterKey /\ text # Blank /\ saved # Blank)
    <3>1. mode' = "Search" /\ rows' = Notice /\ UNCHANGED <<query, session, spinner>>
      BY <1>5, <2>3 DEF CommitEntry, aiVars
    <3>2. RequestInv'
      BY <2>1, <3>1 DEF RestInv, RequestInv
    <3> QED  BY <2>1, <3>1, <3>2, RequestFacts DEF RestInv, RestingRowsMatch, SpinnerTurns
  <2> QED  BY <2>2, <2>3
<1>6. CASE EscapeEntry
  <2>1. /\ text' = saved /\ mode' = "Search" /\ query' = [NoQuery EXCEPT !.text = saved]
        /\ rows' = NoRows /\ UNCHANGED <<open, session, spinner>>
    BY <1>6 DEF EscapeEntry, LeaveEntry, aiVars
  <2> QED  BY <2>1, RequestFacts DEF RestInv, RequestInv, RestingRowsMatch, SpinnerTurns
<1>7. CASE EscapeAnswer
  BY <1>7, ChangedRests DEF EscapeAnswer
<1>8. CASE EscapeText
  BY <1>8, ChangedRests DEF EscapeText
<1>9. CASE Ask
  <2>1. AskAi(text, image, hasKey) /\ UNCHANGED <<open, text, saved, rows>>
    BY <1>9 DEF Ask
  <2>2. text = Blank /\ (\A i \in Images : image[i] = "none") => mode' = mode
    BY <2>1 DEF AskAi
  <2> QED  BY <2>1, <2>2, AskRests
<1>10. CASE AddImage
  BY <1>10 DEF AddImage, boxVars, aiVars, RestInv, RequestInv, RestingRowsMatch, SpinnerTurns
<1>11. CASE RemoveImage
  BY <1>11, AgainRests DEF RemoveImage
<1> QED  BY <1>1, <1>2, <1>3, <1>4, <1>5, <1>6, <1>7, <1>8, <1>9, <1>10, <1>11 DEF User

\* The messages and the threads.
LEMMA MessageRests ==
    ASSUME Inv, RestInv, Message \/ Searched \/ \E s \in Asks : Worker(s)
    PROVE  RestInv'
<1>1. CASE OnStatus
  BY <1>1, ChangedRests DEF OnStatus
<1>2. CASE OnApps
  <2>1. CASE open /\ text # Blank
    BY <1>2, <2>1, ChangedRests DEF OnApps
  <2>2. CASE ~(open /\ text # Blank)
    BY <1>2, <2>2 DEF OnApps, aiVars, RestInv, RequestInv, RestingRowsMatch, SpinnerTurns
  <2> QED  BY <2>1, <2>2
<1>3. CASE OnNoApps
  BY <1>3 DEF OnNoApps, boxVars, aiVars, RestInv, RequestInv, RestingRowsMatch, SpinnerTurns
<1>4. CASE OnReply
  <2>1. /\ query.searched /\ query' = NoQuery /\ UNCHANGED <<open, mode, text, saved, session, spinner>>
        /\ rows' = IF open /\ mode = "Search" THEN ResultRows(query) ELSE rows
    BY <1>4 DEF OnReply, aiVars
  <2>2. query # NoQuery
    BY <2>1, RequestFacts
  <2>3. ResultRows(query).kind = "results" /\ ResultRows(query).text = query.text
    BY DEF ResultRows
  <2>4. RestingRowsMatch'
    BY <2>1, <2>2, <2>3 DEF RestInv, RequestInv, RestingRowsMatch
  <2> QED  BY <2>1, <2>4 DEF RestInv, RequestInv, SpinnerTurns
<1>5. CASE OnImage
  <2>1. PICK i \in reading, ok \in BOOLEAN :
          AskAgain(image', image[i] # "none" /\ askWhenReady /\ ReadyNow(image', ok))
    BY <1>5 DEF OnImage
  <2>2. UNCHANGED <<open, text, saved, rows>>
    BY <1>5 DEF OnImage
  <2> QED  BY <2>1, <2>2, AgainRests
<1>6. CASE Copy
  BY <1>6 DEF Copy, boxVars, RestInv, RequestInv, RestingRowsMatch, SpinnerTurns
<1>7. CASE \E s \in Asks : OnUpdate(s) \/ Worker(s)
  <2>1. UNCHANGED <<boxVars, session, spinner>>
    BY <1>7 DEF OnUpdate, Worker, Publish, Poke, Quit
  <2> QED  BY <2>1 DEF boxVars, RestInv, RequestInv, RestingRowsMatch, SpinnerTurns
<1>8. CASE Searched
  <2>1. /\ query.text # Blank /\ query' = [query EXCEPT !.searched = TRUE, !.apps = apps]
        /\ UNCHANGED <<open, mode, text, saved, rows, session, spinner>>
    BY <1>8 DEF Searched, aiVars
  <2>2. query'.text = query.text /\ query # NoQuery /\ query' # NoQuery
    BY <2>1, RequestFacts DEF Inv, BoxInv, Queries
  <2> QED  BY <2>1, <2>2 DEF RestInv, RequestInv, RestingRowsMatch, SpinnerTurns
<1> QED  BY <1>1, <1>2, <1>3, <1>4, <1>5, <1>6, <1>7, <1>8 DEF Message

\* Whatever closed and opened the panel, the rows that rest in it are those of
\* its text, and the spinner of a streaming answer turns: every way through an
\* answer or an entry asks again, clears the rows or shows a notice.
THEOREM PanelAgrees == Spec => []RestingPanelAgrees
<1>1. Inv /\ RestInv /\ [Next]_vars => RestInv'
  <2>1. UNCHANGED vars => UNCHANGED <<open, mode, text, saved, rows, query, session, spinner>>
    BY DEF vars, boxVars, aiVars
  <2>2. RestInv /\ UNCHANGED vars => RestInv'
    BY <2>1 DEF RestInv, RequestInv, RestingRowsMatch, SpinnerTurns
  <2> QED  BY <2>2, UserRests, MessageRests DEF Next
<1>2. RestInv => RestingPanelAgrees
  BY DEF RestInv, RestingPanelAgrees
<1> QED  BY <1>1, <1>2, RestInit, Invariance, PTL DEF Spec
=============================================================================

------------------------------ MODULE Attribution ------------------------------
(* How the native agent finds the directory a request of Claude Code works in  *)
(* (router-agent/src/attr.rs).  A request carries its whole conversation, so   *)
(* the agent remembers what it made of the earlier requests and reads only the *)
(* messages that are new.  Whether it may is decided by what it still sees:    *)
(* the newest tool call it knows, at the offset where it was, behind the same  *)
(* members of the body.                                                        *)
(*                                                                             *)
(* Several conversations of a session share one key: the main one and the ones *)
(* beside it.  Clients is who talks under the key.  Requests overlap: each     *)
(* reads the remembered states when it arrives and stores its own when it is   *)
(* done.                                                                       *)
EXTENDS Integers, Sequences, SequencesExt, FiniteSetsExt

CONSTANTS
  Clients,      \* the conversations under one key
  Dirs,         \* directories
  Starts,       \* what was said before the agent started
  Tools,        \* what the model's calls do: "cd", "run", "edit", "read"
  FullEvery,    \* a conversation is read in full this often (16 in the code)
  Remembered,   \* states kept for a key (4 in the code)
  MaxSaid,      \* bound: messages said
  MaxRequests,  \* bound: requests
  MaxEdits,     \* bound: changes of what was already said
  Nowhere       \* no directory

ASSUME AttributionAssumption ==
  /\ FullEvery \in Nat \ {0} /\ Remembered \in Nat \ {0}
  /\ MaxSaid \in Nat /\ MaxRequests \in Nat /\ MaxEdits \in Nat /\ Nowhere \notin Dirs
  /\ Tools \subseteq {"cd", "run", "edit", "read"}

VARIABLES
  talks,     \* client -> its conversation: messages, and the directory above them
  arrived,   \* client -> what the agent makes of its request, while there is one
  states,    \* the remembered states of the key, newest first
  ids,       \* client -> tool calls made so far
  said,      \* messages said so far
  requests,  \* requests made so far
  edits,     \* changes made so far to what was already said
  unseen,    \* whether a change kept every length, which no check can see (history)
  takenBack, \* whether a directory stated behind the newest call was taken back,
             \* or is missing in a conversation that has the call too (history)
  misled     \* client -> its wrong answers in a row (history)

attrVars == << talks, arrived, states, ids, said, requests, edits, unseen, takenBack, misled >>

NoRequest == [waits |-> FALSE, truly |-> TRUE, keeps |-> << >>, replaced |-> << >>]

(*****************************************************************************)
(* What a conversation says.                                                 *)
(*****************************************************************************)

\* The offset at which the i-th message ends: a summary is shorter than what it
\* stands for.
EndOf(messages, i) == i + Cardinality({j \in 1 .. i : messages[j].kind # "summary"})

\* The place of the newest message of a kind, 0 without one.
Newest(messages, Of(_)) == SelectLastInSeq(messages, Of)

\* The newest directory a message of the harness states.
MsgStated(messages) ==
  LET last == Newest(messages, LAMBDA m : m.kind = "system")
  IN  IF last = 0 THEN Nowhere ELSE messages[last].dir

\* A message wins over the system prompt of the request.
Combine(msg, top) == IF msg # Nowhere THEN msg ELSE top

\* The directory Claude Code says it put the shell back to after a call.
ResetBy(id, messages) ==
  LET last == Newest(messages, LAMBDA m : m.kind = "result" /\ m.id = id /\ m.dir # Nowhere)
  IN  IF last = 0 THEN Nowhere ELSE messages[last].dir

\* Only the newest of two equal events can ever be chosen.
PushEvent(events, e) ==
  IF e.dir = Nowhere THEN events ELSE Append(SelectSeq(events, LAMBDA x : x # e), e)

\* One tool call: where it worked, and where it leaves the persistent shell.
Call(work, m, stated, messages) ==
  LET there == IF m.does = "cd" THEN m.dir ELSE work.shell
      back  == ResetBy(m.id, messages)
  IN  CASE m.does \in {"cd", "run"} ->
             [shell  |-> IF back # Nowhere THEN back ELSE there,
              events |-> PushEvent(work.events, [dir |-> there, strong |-> TRUE])]
        [] m.does = "edit" ->
             [work EXCEPT !.events = PushEvent(@, [dir |-> stated, strong |-> TRUE])]
        [] m.does = "read" ->
             [work EXCEPT !.events = PushEvent(@, [dir |-> work.shell, strong |-> FALSE])]

EventsOver(work, messages, stated) ==
  FoldLeft(LAMBDA w, m : IF m.kind = "call" THEN Call(w, m, stated, messages) ELSE w,
           work, messages)

\* The turn of the user: messages the user sent with nothing in between open
\* one turn together; a directory stated among them does not end it.
NoTurns == [count |-> 0, text |-> << >>, open |-> FALSE]

UserTurns(start, messages) ==
  FoldLeft(LAMBDA t, m :
             CASE m.kind \in {"user", "summary"} ->
                    [count |-> IF t.open THEN t.count ELSE t.count + 1,
                     text  |-> (IF t.open THEN t.text ELSE << >>) \o << m.kind >>,
                     open  |-> TRUE]
               [] m.kind \in {"call", "result"} -> [t EXCEPT !.open = FALSE]
               [] OTHER -> t,
           start, messages)

\* The place of the newest tool call.
NewestCall(messages) == Newest(messages, LAMBDA m : m.kind = "call")

\* A later reset would change what was made of the call.
ResultsFollow(messages, i) ==
  \E j \in i + 1 .. Len(messages) : messages[j].kind = "result" /\ messages[j].id = messages[i].id

(*****************************************************************************)
(* Reading a request in full, and from a remembered state.                   *)
(*****************************************************************************)

\* What the request gives away, and the state it leaves (none, as far as the
\* agent cannot continue from it).
AnalyzeFull(talk) ==
  LET messages == talk.messages
      msg      == MsgStated(messages)
      stated   == Combine(msg, talk.top)
      work     == EventsOver([shell |-> stated, events |-> << >>], messages, stated)
      last     == NewestCall(messages)
  IN  [stated |-> stated, events |-> work.events, turns |-> UserTurns(NoTurns, messages),
       keeps  |-> IF last = 0 \/ ~ ResultsFollow(messages, last) THEN << >>
                  ELSE << [last |-> messages[last].id, end |-> EndOf(messages, last),
                           events |-> work.events, shell |-> work.shell, msg |-> msg,
                           stated |-> stated, run |-> 0,
                           turns |-> UserTurns(NoTurns, SubSeq(messages, 1, last))] >>]

\* A mutant: the turn open at the end of the request is remembered.
AllTurns(start, messages, last) == UserTurns(start, messages)

\* The turn that was open where the remembered history ends.
BoundaryTurns(start, messages, last) ==
  UserTurns(start, SubSeq(messages, 1, last))

\* A mutant: a call that still waits for its result is passed.
ResumableEarly(stated, new, last, st) == stated = st.stated

\* A mutant: the remembered events are kept whatever they stand on.
ResumableAnywhere(stated, new, last, st) == last # 0 => ResultsFollow(new, last)

\* The state cannot be continued where the directory the events stand on
\* changed, or where a call still waits for its result.
Resumable(stated, new, last, st) ==
  stated = st.stated /\ (last # 0 => ResultsFollow(new, last))

\* The empty sequence where the request has to be read in full.
AnalyzeIncremental(talk, i, st) ==
  LET new    == SubSeq(talk.messages, i + 1, Len(talk.messages))
      newer  == MsgStated(new)
      msg    == IF newer # Nowhere THEN newer ELSE st.msg
      stated == Combine(msg, talk.top)
      work   == EventsOver([shell |-> st.shell, events |-> st.events], new, stated)
      last   == NewestCall(new)
  IN  IF ~ Resumable(stated, new, last, st) THEN << >>
      ELSE << [stated |-> stated, events |-> work.events, turns |-> UserTurns(st.turns, new),
               keeps  |-> << [last |-> IF last = 0 THEN st.last ELSE new[last].id,
                              end |-> EndOf(talk.messages, i + last),
                              events |-> work.events, shell |-> work.shell, msg |-> msg,
                              stated |-> stated, run |-> st.run + 1,
                              turns |-> BoundaryTurns(st.turns, new, last)] >>] >>

\* A state that was continued often enough is not used.
Usable(st) == st.run + 1 < FullEvery

\* A mutant: the newest call alone is enough.
SameCall(talk, i, st) == TRUE

\* The history is the remembered one as far as the walk from the end of the
\* body can tell.
SameHistory(talk, i, st) == EndOf(talk.messages, i) = st.end

\* The walk from the end of the body meets the newest call some state knows.
Matches(talk, known) ==
  {i \in 1 .. Len(talk.messages) :
     talk.messages[i].kind = "call" /\ \E k \in 1 .. Len(known) : known[k].last = talk.messages[i].id}

\* What the agent makes of a request, with the state it continued.
AttributeBytes(talk, read) ==
  LET known == SelectSeq(read, Usable)
      met   == Matches(talk, known)
      i     == CHOOSE j \in met : \A k \in met : k <= j
      st    == SelectSeq(known, LAMBDA s : s.last = talk.messages[i].id)[1]
      found == IF met # {} /\ SameHistory(talk, i, st) THEN AnalyzeIncremental(talk, i, st) ELSE << >>
  IN  IF found = << >> THEN [an |-> AnalyzeFull(talk), replaced |-> << >>]
      ELSE [an |-> found[1], replaced |-> st.last]

\* All that the answer to a request is made of.
Visible(an) == [stated |-> an.stated, events |-> an.events, turns |-> an.turns]

(*****************************************************************************)
(* The agent.                                                                *)
(*****************************************************************************)

\* A request arrives, and reads the states of its key; whether what the agent
\* makes of it is what reading all of it gives, nobody sees.
Arrive(c) ==
  LET at == AttributeBytes(talks[c], states) IN
  /\ ~ arrived[c].waits /\ requests < MaxRequests
  /\ requests' = requests + 1
  /\ arrived' = [arrived EXCEPT ![c] =
                   [waits |-> TRUE, truly |-> Visible(at.an) = Visible(AnalyzeFull(talks[c])),
                    keeps |-> at.an.keeps, replaced |-> at.replaced]]
  /\ UNCHANGED << talks, states, ids, said, edits, unseen, takenBack, misled >>

\* The request is answered, and its state takes the place of the one it continued.
Finish(c) ==
  LET at   == arrived[c]
      gone == {at.replaced} \cup {at.keeps[k].last : k \in DOMAIN at.keeps}
      all  == at.keeps \o SelectSeq(states, LAMBDA s : s.last \notin gone)
  IN  /\ at.waits
      /\ states' = IF at.keeps = << >> THEN states ELSE SubSeq(all, 1, Min({Len(all), Remembered}))
      /\ misled' = [misled EXCEPT ![c] = IF at.truly THEN 0 ELSE @ + 1]
      /\ arrived' = [arrived EXCEPT ![c] = NoRequest]
      /\ UNCHANGED << talks, ids, said, requests, edits, unseen, takenBack >>

(*****************************************************************************)
(* The harness: it says more, and it changes what it said.  A conversation   *)
(* waits for the answer to its request.                                      *)
(*****************************************************************************)

\* A conversation that may go on, and one that may be changed.
MaySay(c)  == ~ arrived[c].waits /\ said < MaxSaid
MayEdit(c) == ~ arrived[c].waits /\ edits < MaxEdits

Says(c, m) ==
  /\ MaySay(c) /\ said' = said + 1
  /\ talks' = [talks EXCEPT ![c].messages = Append(@, m)]
  /\ UNCHANGED << arrived, states, requests, edits, unseen, misled >>

\* The newest call of a conversation stands in another one too.
Shared(c, o) ==
  LET last == NewestCall(talks[c].messages) IN
  last # 0 /\ \E i \in 1 .. Len(talks[o].messages) : talks[o].messages[i] = talks[c].messages[last]

\* The user writes, the harness states a directory, the model calls a tool.
User(c)   == Says(c, [kind |-> "user"]) /\ UNCHANGED << ids, takenBack >>
State(c)  == /\ \E d \in Dirs : Says(c, [kind |-> "system", dir |-> d])
             /\ takenBack' = (takenBack \/ \E o \in Clients \ {c} : Shared(c, o))
             /\ UNCHANGED ids
Calls(c)  == /\ \E t \in Tools, d \in Dirs \cup {Nowhere} :
                  /\ t = "cd" <=> d # Nowhere
                  /\ Says(c, [kind |-> "call", id |-> << c, ids[c] >>, does |-> t, dir |-> d])
             /\ ids' = [ids EXCEPT ![c] = @ + 1]
             /\ UNCHANGED takenBack

\* The result of the newest call comes back, with or without a reset of the shell.
Result(c) ==
  LET last == NewestCall(talks[c].messages) IN
  /\ MaySay(c) /\ last # 0 /\ ~ ResultsFollow(talks[c].messages, last)
  /\ \E d \in Dirs \cup {Nowhere} :
       Says(c, [kind |-> "result", id |-> talks[c].messages[last].id, dir |-> d])
  /\ UNCHANGED << ids, takenBack >>

Edited(c, talk) ==
  /\ edits' = edits + 1
  /\ talks' = [talks EXCEPT ![c] = talk]
  /\ UNCHANGED << arrived, states, ids, said, requests, misled >>

\* The user goes back to something she wrote.
Rewind(c) ==
  MayEdit(c) /\ \E n \in 0 .. Len(talks[c].messages) - 1 :
    LET left == SubSeq(talks[c].messages, 1, n)
        gone == SubSeq(talks[c].messages, n + 1, Len(talks[c].messages))
    IN  /\ gone[1].kind = "user"
        /\ Edited(c, [talks[c] EXCEPT !.messages = left])
        /\ takenBack' = (takenBack \/ \E i \in DOMAIN gone :
             gone[i].kind = "system" /\ \A j \in 1 .. i : gone[j].kind # "call")
        /\ UNCHANGED unseen

\* The harness puts a summary for the beginning of the conversation.
Compact(c) ==
  /\ MayEdit(c) /\ \E n \in 2 .. Len(talks[c].messages) :
       Edited(c, [talks[c] EXCEPT !.messages =
                    << [kind |-> "summary"] >> \o SubSeq(@, n + 1, Len(@))])
  /\ UNCHANGED << unseen, takenBack >>

\* The system prompt states another directory.
Retop(c) ==
  /\ MayEdit(c) /\ \E d \in Dirs : d # talks[c].top /\ Edited(c, [talks[c] EXCEPT !.top = d])
  /\ UNCHANGED << unseen, takenBack >>

\* A conversation beside this one starts from what was said here.
Fork(c, d) ==
  LET last == NewestCall(talks[c].messages) IN
  /\ MayEdit(d) /\ talks[c] # talks[d] /\ (last # 0 => ResultsFollow(talks[c].messages, last))
  /\ Edited(d, talks[c])
  /\ UNCHANGED << unseen, takenBack >>

\* Something already said is exchanged for something as long.
Exchange(c) ==
  /\ MayEdit(c) /\ \E i \in 1 .. Len(talks[c].messages), d \in Dirs :
       /\ talks[c].messages[i].kind \in {"system", "result"} /\ talks[c].messages[i].dir # d
       /\ Edited(c, [talks[c] EXCEPT !.messages[i].dir = d])
  /\ unseen' = TRUE
  /\ UNCHANGED takenBack

AttrInit ==
  /\ \E d \in Dirs \cup {Nowhere}, s \in Starts : talks = [c \in Clients |-> [messages |-> s, top |-> d]]
  /\ arrived = [c \in Clients |-> NoRequest]
  /\ states = << >> /\ ids = [c \in Clients |-> 0] /\ said = 0 /\ requests = 0 /\ edits = 0
  /\ unseen = FALSE /\ takenBack = FALSE
  /\ misled = [c \in Clients |-> 0]

AttrNext ==
  \E c \in Clients :
    \/ Arrive(c) \/ Finish(c)
    \/ User(c) \/ State(c) \/ Calls(c) \/ Result(c)
    \/ Rewind(c) \/ Compact(c) \/ Retop(c) \/ Exchange(c)
    \/ \E d \in Clients \ {c} : Fork(c, d)

AttrSpec == AttrInit /\ [][AttrNext]_attrVars

(*****************************************************************************)
(* Properties.                                                               *)
(*****************************************************************************)

\* Continuing a remembered state gives the request the directories and the
\* turn that reading all of it would give, whichever conversations of the
\* session were read in between, and however the harness rewound, forked or
\* summed up what was said - as long as it did not take back a directory that
\* it stated behind the newest call, where AssumesTheSame fails.
ContinuesTruly ==
  ~ unseen /\ ~ takenBack => \A c \in Clients : arrived[c].truly

\* A remembered state is continued only where nothing differs from what a full
\* read would assume ("None when anything differs from what the full analysis
\* would assume").  The code does not keep it: the directory a message stated
\* behind the newest call is remembered with the call, and is continued with
\* after a rewind to between the two, and in a conversation that has the call
\* alone.
AssumesTheSame ==
  ~ unseen => \A c \in Clients : arrived[c].truly

\* A change no check can see misleads a conversation for fewer requests in a row
\* than FULL_EVERY ("A conversation is re-parsed in full at least this often,
\* which bounds how long an in-place rewrite of old history (same length,
\* invisible to the boundary checks) can go unnoticed").  The code does not keep
\* it: the requests are counted per state, and once the newest state is used up
\* the walk goes on to an older one, which counts anew.
SoonRead == \A c \in Clients : misled[c] < FullEvery

=============================================================================

----------------------------- MODULE HostQueries -----------------------------
(***************************************************************************)
(* What the programs in the panes print, and the answers to the queries    *)
(* that are part of it.  Some queries are answered by the pane itself, one *)
(* by Screen, and some only by the terminal the user sits at: the pane     *)
(* stops reading its program's output behind such a query, Screen forwards *)
(* one query at a time through the server's main loop to a client, the     *)
(* client writes it to its terminal with a Primary-DA request behind it,   *)
(* and what comes back before the answer to that request is the reply.     *)
(* Two timers, one in the client and one in the server, see to it that a   *)
(* terminal or a client that never answers does not stop the pane.         *)
(*                                                                         *)
(* A program's output is a sequence of items; an item is named by its      *)
(* place in it.  An answer is named by its query: pane, item and, for an   *)
(* item that asks for several things at once, part.                        *)
(***************************************************************************)
EXTENDS PtyWriter, FiniteSets

CONSTANTS
  Readers,      \* the panes whose programs read their standard input
  Clients,      \* the clients that are attached at first
  Scripts,      \* what each program may print: sequences of chunks, which are
                \* sequences of item kinds
  MaxHeld,      \* MAX_PENDING_VTE_EVENTS
  MaxTroubles   \* bound on scrolling, moving and closing panes, which count
                \* one each, answers after the client's timer, and server timers
                \* that fire although an answer is on its way, which count two

\* what the pane, the terminal or Screen answers, two queries in one sequence,
\* and what asks for nothing
Kinds == {"text", "sync", "host", "mode", "pair"}

ASSUME ScriptsAssumption == Scripts \in [Panes -> SUBSET Seq(Seq(Kinds))]
ASSUME HeldAssumption == MaxHeld \in Nat

VARIABLES
  \* the programs
  script,     \* the chunks each program has not printed yet
  printed,    \* the items each program has printed
  \* Screen and the panes
  inbox,      \* the channel of the Screen thread
  shown,      \* the items that went through the pane's vte parser
  buffered,   \* TerminalPane.pending_pty_input
  paused,     \* the panes with forward_paused
  scrolled,   \* the panes with is_scrolled
  held,       \* Tab.pending_vte_events: the chunks of each pane
  forward,    \* forward_in_flight_token and its entry, as a sequence of <= 1
  waiting,    \* forward_queue
  nextToken,  \* next_forward_token
  timers,     \* the tokens whose server-side timeout has not fired
  \* the server's main loop
  server,     \* its channel
  clients,    \* SessionState.clients
  owner,      \* SessionState.forwards_in_flight
  \* the clients
  kind,       \* a terminal of this version, a browser, a client that is older
              \* than the message ForwardQueryToHost, or "none" once it has left
  inbound,    \* what the server has sent to it: tokens with their queries
  slot,       \* StdinAnsiParser.active_forward, as a sequence of <= 1
  host,       \* what its terminal has been asked and has not answered
  outbound,   \* what it has sent to its route thread
  \* history
  surprised,  \* an answer or a timer came at another time than it should
  disturbed,  \* the panes that left output behind which they had held back
  troubles

paneVars == <<script, printed, open, shown, buffered, paused, scrolled, held>>
writerVars == <<writer, queueVars>>
forwardVars == <<forward, waiting, nextToken, timers>>
serverVars == <<server, clients, owner>>
clientVars == <<kind, inbound, slot, host, outbound>>
history == <<surprised, disturbed, troubles>>
vars == <<writerVars, paneVars, inbox, forwardVars, serverVars,
          clientVars, history>>

Items == Seq(Nat)
Forwards == [token : Nat, query : Units]
Messages == [what : {"bytes"}, pane : Panes, items : Items]
            \cup [what : {"query"}, mode : BOOLEAN, query : Units]
            \cup [what : {"reply"}, token : Nat, answers : Seq(Units)]
Outbound == [what : {"reply", "bye"}, token : Nat, answers : Seq(Units)]

TypeOK ==
  /\ WriterTypeOK
  /\ script \in [Panes -> Seq(Seq(Kinds))] /\ printed \in [Panes -> Seq(Kinds)]
  /\ inbox \in Seq(Messages)
  /\ shown \in [Panes -> Items] /\ buffered \in [Panes -> Items]
  /\ paused \subseteq Panes /\ scrolled \subseteq Panes
  /\ held \in [Panes -> Seq(Items)]
  /\ forward \in Seq(Forwards) /\ Len(forward) <= 1
  /\ waiting \in Seq(Forwards) /\ (forward = <<>> => waiting = <<>>)
  /\ nextToken \in Nat \ {0} /\ timers \subseteq 1 .. nextToken
  /\ server \in Seq([what : {"forward"}, to : Forwards]
                    \cup [what : {"remove"}, client : Clients])
  /\ clients \subseteq Clients
  /\ owner \subseteq (1 .. nextToken) \X Clients
  /\ kind \in [Clients -> {"none", "terminal", "web", "old"}]
  /\ inbound \in [Clients -> Seq(Forwards)]
  /\ slot \in [Clients -> Seq([token : Nat, answers : Seq(Units)])]
  /\ \A c \in Clients : Len(slot[c]) <= 1
  /\ host \in [Clients -> Seq([token : Nat, query : Units, barrier : BOOLEAN])]
  /\ outbound \in [Clients -> Seq(Outbound)]
  /\ surprised \in BOOLEAN /\ disturbed \subseteq Panes /\ troubles \in Nat

Init ==
  /\ WriterInit
  /\ script \in [Panes -> UNION {Scripts[p] : p \in Panes}]
  /\ \A p \in Panes : script[p] \in Scripts[p]
  /\ printed = [p \in Panes |-> <<>>] /\ inbox = <<>>
  /\ shown = [p \in Panes |-> <<>>] /\ buffered = [p \in Panes |-> <<>>]
  /\ paused = {} /\ scrolled = {} /\ held = [p \in Panes |-> <<>>]
  /\ forward = <<>> /\ waiting = <<>> /\ nextToken = 1 /\ timers = {}
  /\ server = <<>> /\ owner = {}
  /\ kind \in [Clients -> {"terminal", "web", "old"}] /\ clients = Clients
  /\ inbound = [c \in Clients |-> <<>>] /\ slot = [c \in Clients |-> <<>>]
  /\ host = [c \in Clients |-> <<>>] /\ outbound = [c \in Clients |-> <<>>]
  /\ surprised = FALSE /\ disturbed = {} /\ troubles = 0

-----------------------------------------------------------------------------
(* The programs *)

Prints(p) ==
  /\ p \in open /\ script[p] # <<>>
  /\ LET chunk == Head(script[p])
     IN /\ printed' = [printed EXCEPT ![p] = @ \o chunk]
        /\ inbox' = Append(inbox,
             [what |-> "bytes", pane |-> p,
              items |-> [i \in 1 .. Len(chunk) |-> Len(printed[p]) + i]])
  /\ script' = [script EXCEPT ![p] = Tail(@)]
  /\ UNCHANGED <<writerVars, open, shown, buffered, paused, scrolled, held,
                 forwardVars, serverVars, clientVars, history>>

-----------------------------------------------------------------------------
(* The panes *)

KindOf(p, item) == printed[p][item]
Query(p, item, part) == [pane |-> p, at |-> item, part |-> part]

\* Grid: the queries an item leaves in pending_forwarded_queries
Forwarded(p, item) ==
  CASE KindOf(p, item) = "host" -> <<Query(p, item, 1)>>
    [] KindOf(p, item) = "mode" -> <<Query(p, item, 1)>>
    [] KindOf(p, item) = "pair" -> <<Query(p, item, 1), Query(p, item, 2)>>
    [] OTHER -> <<>>

\* TerminalPane::handle_pty_bytes: a pane that is paused parses nothing, another
\* one up to the first item that produces a forward
Stops(p, items) == {i \in 1 .. Len(items) : Forwarded(p, items[i]) # <<>>}
\* Mutant: the pane goes on although it is paused.
MutParsed(p, items, isPaused) == Min(Stops(p, items) \cup {Len(items)})

Parsed(p, items, isPaused) ==
  IF isPaused THEN 0 ELSE Min(Stops(p, items) \cup {Len(items)})

\* what the parsed items answer at once, one write each
Answer(p, item) ==
  IF KindOf(p, item) = "sync" THEN WriteTo(p, <<Query(p, item, 1)>>) ELSE <<>>
Answers(p, items) == FlattenSeq([i \in 1 .. Len(items) |-> Answer(p, items[i])])

\* Tab::process_pty_bytes for a pane of this tab: items are parsed, or
\* buffered while the pane is paused; stillPaused, kept and answers are the
\* pane's flag, its queue and what this step has written before, and
\* rest is the channel to which this thread's own messages are appended
Process(p, items, stillPaused, kept, answers, rest) ==
  LET n == Parsed(p, items, stillPaused)
      parsed == SubSeq(items, 1, n)
      queries == IF n = 0 THEN <<>> ELSE Forwarded(p, items[n])
  IN /\ shown' = [shown EXCEPT ![p] = @ \o parsed]
     /\ buffered' = [buffered EXCEPT
          ![p] = kept \o SubSeq(items, n + 1, Len(items))]
     /\ paused' = IF stillPaused \/ queries # <<>> THEN paused \cup {p}
                  ELSE paused \ {p}
     /\ writer' = writer \o WriteTo(p, answers) \o Answers(p, parsed)
     /\ inbox' = rest \o [k \in 1 .. Len(queries) |->
          [what |-> "query", mode |-> KindOf(p, items[n]) = "mode",
           query |-> queries[k]]]

\* Screen::resume_pane_after_forward: the answer first, then the pane goes on
\* with what was buffered; without a pane only the answer is written
Resume(p, answers, rest) ==
  IF p \in open
  THEN Process(p, buffered[p], FALSE, <<>>, answers, rest)
  ELSE /\ writer' = writer \o WriteTo(p, answers)
       /\ inbox' = rest
       /\ UNCHANGED <<shown, buffered, paused>>

\* Tab::handle_pty_bytes: a scrolled pane holds its output back, up to a limit
HandlePtyBytes ==
  /\ inbox # <<>> /\ Head(inbox).what = "bytes"
  /\ LET p == Head(inbox).pane
         items == Head(inbox).items
         chunks == Append(held[p], items)
     IN CASE p \notin open ->
               /\ inbox' = Tail(inbox)
               /\ UNCHANGED <<shown, buffered, paused, scrolled, held, writer>>
          [] p \in open \cap scrolled /\ Len(chunks) < MaxHeld ->
               /\ held' = [held EXCEPT ![p] = chunks]
               /\ inbox' = Tail(inbox)
               /\ UNCHANGED <<shown, buffered, paused, scrolled, writer>>
          [] p \in open \cap scrolled /\ Len(chunks) >= MaxHeld ->
               /\ held' = [held EXCEPT ![p] = <<>>]
               /\ scrolled' = scrolled \ {p}
               /\ Process(p, FlattenSeq(chunks), p \in paused, buffered[p],
                          <<>>, Tail(inbox))
          [] p \in open \ scrolled ->
               /\ Process(p, items, p \in paused, buffered[p], <<>>,
                          Tail(inbox))
               /\ UNCHANGED <<scrolled, held>>
  /\ UNCHANGED <<queueVars, script, printed, open, forwardVars, serverVars,
                 clientVars, history>>

-----------------------------------------------------------------------------
(* Commands about a pane.  They come from other threads and clients, so a   *)
(* client may send them between any two messages of the inbox.              *)

Trouble(n) == troubles + n <= MaxTroubles /\ troubles' = troubles + n
Command ==
  /\ Trouble(1)
  /\ UNCHANGED <<queueVars, script, printed, surprised, forwardVars, serverVars,
                 clientVars>>

ScrollUp(p) ==
  /\ p \in open \ scrolled
  /\ scrolled' = scrolled \cup {p}
  /\ Command
  /\ UNCHANGED <<writer, open, shown, buffered, paused, held, inbox,
                 disturbed>>

\* Mutant: nothing is done about what was held back.
MutScrollToBottom(p) ==
  /\ p \in open \cap scrolled
  /\ scrolled' = scrolled \ {p}
  /\ Command
  /\ UNCHANGED <<writer, open, shown, buffered, paused, held, inbox,
                 disturbed>>

\* Tab::scroll_active_terminal_down and the other ways back to the bottom:
\* what was held back is processed, chunk by chunk
ScrollToBottom(p) ==
  /\ p \in open \cap scrolled
  /\ scrolled' = scrolled \ {p}
  /\ held' = [held EXCEPT ![p] = <<>>]
  /\ Process(p, FlattenSeq(held[p]), p \in paused, buffered[p], <<>>, inbox)
  /\ Command
  /\ UNCHANGED <<open, disturbed>>

\* the next two make a difference only when something is held back
Disturb(p) ==
  /\ held[p] # <<>>
  /\ disturbed' = disturbed \cup {p}

\* Tab::scroll_terminal_down has no call of process_pending_vte_events: what
\* was held back stays there until the pane is scrolled again
ScrollTerminalDown(p) ==
  /\ p \in open \cap scrolled
  /\ scrolled' = scrolled \ {p}
  /\ Disturb(p)
  /\ Command
  /\ UNCHANGED <<writer, open, shown, buffered, paused, held, inbox>>

\* Tab::extract_pane into another tab (breaking a pane out): the pane takes its
\* buffer and flags along, what was held back stays in the tab it leaves
MoveToTab(p) ==
  /\ p \in open \cap scrolled
  /\ held' = [held EXCEPT ![p] = <<>>]
  /\ Disturb(p)
  /\ Command
  /\ UNCHANGED <<writer, open, shown, buffered, paused, scrolled, inbox>>

ClosePane(p) ==
  /\ p \in open
  /\ open' = open \ {p}
  /\ paused' = paused \ {p} /\ scrolled' = scrolled \ {p}
  /\ buffered' = [buffered EXCEPT ![p] = <<>>]
  /\ Command
  /\ UNCHANGED <<writer, shown, held, inbox, disturbed>>

-----------------------------------------------------------------------------
(* Screen: forwarding *)

\* Screen::dispatch_forward
Dispatch(f) ==
  /\ forward' = <<f>>
  /\ server' = Append(server, [what |-> "forward", to |-> f])
  /\ timers' = timers \cup {f.token}

\* Screen::forward_host_query for everything but the colour mode
ForwardHostQuery ==
  /\ inbox # <<>> /\ Head(inbox).what = "query" /\ ~Head(inbox).mode
  /\ LET f == [token |-> nextToken, query |-> Head(inbox).query]
     IN IF forward # <<>>
        THEN /\ waiting' = Append(waiting, f)
             /\ UNCHANGED <<forward, server, timers>>
        ELSE /\ Dispatch(f)
             /\ UNCHANGED waiting
  /\ nextToken' = nextToken + 1
  /\ inbox' = Tail(inbox)
  /\ UNCHANGED <<writerVars, paneVars, clients, owner, clientVars, history>>

\* Screen::answer_color_palette_mode_query_locally: Screen knows the mode, or
\* it does not and only lets a paused pane go on
AnswerColorMode ==
  /\ inbox # <<>> /\ Head(inbox).what = "query" /\ Head(inbox).mode
  /\ LET q == Head(inbox).query
     IN \/ Resume(q.pane, <<q>>, Tail(inbox))
        \/ /\ q.pane \in open \cap paused
           /\ Resume(q.pane, <<>>, Tail(inbox))
        \/ /\ q.pane \notin open \cap paused
           /\ inbox' = Tail(inbox)
           /\ UNCHANGED <<writer, shown, buffered, paused>>
  /\ UNCHANGED <<queueVars, script, printed, open, scrolled, held, forwardVars,
                 serverVars, clientVars, history>>

\* Screen::handle_forwarded_reply_from_host: a reply that is not the one in
\* flight is dropped; an empty one is replaced by what Screen has cached
IsStale(token) == forward = <<>> \/ forward[1].token # token
HandleForwardedReply ==
  /\ inbox # <<>> /\ Head(inbox).what = "reply"
  /\ LET reply == Head(inbox)
     IN IF IsStale(reply.token)
        THEN /\ inbox' = Tail(inbox)
             /\ UNCHANGED <<writer, shown, buffered, paused, forward, waiting,
                            server, timers>>
        ELSE LET q == forward[1].query IN
             /\ \E answers \in IF reply.answers = <<>> THEN {<<>>, <<q>>}
                               ELSE {reply.answers} :
                  Resume(q.pane, answers, Tail(inbox))
             /\ IF waiting = <<>>
                THEN /\ forward' = <<>>
                     /\ UNCHANGED <<waiting, server, timers>>
                ELSE /\ Dispatch(Head(waiting))
                     /\ waiting' = Tail(waiting)
  /\ UNCHANGED <<queueVars, script, printed, open, scrolled, held, nextToken,
                 clients, owner, clientVars, history>>

\* a timer that fires while it is too early, or its answer too late
Surprise(happens) ==
  \/ ~happens /\ UNCHANGED <<surprised, troubles>>
  \/ happens /\ surprised' = TRUE /\ Trouble(2)

Reply(token, answers) == [what |-> "reply", token |-> token, answers |-> answers]

\* a client that is still there may yet answer the query
OnItsWay(token) ==
  \/ \E i \in 1 .. Len(server) :
       server[i].what = "forward" /\ server[i].to.token = token
  \/ \E i \in 1 .. Len(inbox) : inbox[i].what = "reply" /\ inbox[i].token = token
  \/ \E c \in Clients :
       \/ \E i \in 1 .. Len(outbound[c]) : outbound[c][i].token = token
       \/ \E i \in 1 .. Len(inbound[c]) : inbound[c][i].token = token /\ kind[c] # "old"
       \/ \E i \in 1 .. Len(slot[c]) : slot[c][i].token = token

\* Mutant: the timer tells nobody.
MutServerTimer(token) ==
  /\ token \in timers
  /\ timers' = timers \ {token}
  /\ UNCHANGED <<writerVars, paneVars, inbox, forward, waiting, nextToken,
                 serverVars, clientVars, history>>

\* SERVER_FORWARD_TIMEOUT_MS after the dispatch; a timer that is too early for
\* a client that does answer is a surprise
ServerTimer(token) ==
  /\ token \in timers
  /\ Surprise(OnItsWay(token))
  /\ timers' = timers \ {token}
  /\ inbox' = Append(inbox, Reply(token, <<>>))
  /\ UNCHANGED <<writerVars, paneVars, forward, waiting, nextToken,
                 serverVars, clientVars, disturbed>>

-----------------------------------------------------------------------------
(* The server's main loop and the route threads *)

\* ServerInstruction::ForwardQueryToHost: any attached client may be the one
\* that was used last; without a client the query is answered empty at once
ForwardQueryToHost ==
  /\ server # <<>> /\ Head(server).what = "forward"
  /\ LET f == Head(server).to
     IN \/ \E c \in clients :
             /\ owner' = owner \cup {<<f.token, c>>}
             /\ inbound' = IF kind[c] = "none" THEN inbound
                           ELSE [inbound EXCEPT ![c] = Append(@, f)]
             /\ UNCHANGED inbox
        \/ /\ clients = {}
           /\ inbox' = Append(inbox, Reply(f.token, <<>>))
           /\ UNCHANGED <<owner, inbound>>
  /\ server' = Tail(server)
  /\ UNCHANGED <<writerVars, paneVars, forwardVars, clients, kind, slot,
                 host, outbound, history>>

\* remove_client_and_flush_forwards
RemoveClient ==
  /\ server # <<>> /\ Head(server).what = "remove"
  /\ LET c == Head(server).client
         stuck == {t \in 1 .. nextToken : <<t, c>> \in owner}
     IN /\ clients' = clients \ {c}
        /\ owner' = owner \ (stuck \X {c})
        /\ \E order \in SetToSeqs(stuck) :
             inbox' = inbox \o [i \in 1 .. Len(order) |-> Reply(order[i], <<>>)]
  /\ server' = Tail(server)
  /\ UNCHANGED <<writerVars, paneVars, forwardVars, clientVars, history>>

\* the route thread of a client: a reply clears the token's owner and goes to
\* Screen, the end of the connection goes to the main loop
Route(c) ==
  /\ outbound[c] # <<>>
  /\ LET m == Head(outbound[c])
     IN \/ /\ m.what = "reply"
           /\ owner' = owner \ ({m.token} \X Clients)
           /\ inbox' = Append(inbox, Reply(m.token, m.answers))
           /\ UNCHANGED server
        \/ /\ m.what = "bye"
           /\ server' = Append(server, [what |-> "remove", client |-> c])
           /\ UNCHANGED <<owner, inbox>>
  /\ outbound' = [outbound EXCEPT ![c] = Tail(@)]
  /\ UNCHANGED <<writerVars, paneVars, forwardVars, clients, kind, inbound,
                 slot, host, history>>

-----------------------------------------------------------------------------
(* The clients *)

Send(c, what, token, answers) ==
  outbound' = [outbound EXCEPT
    ![c] = Append(@, [what |-> what, token |-> token, answers |-> answers])]

ClientLeaves(c) ==
  /\ kind[c] # "none"
  /\ kind' = [kind EXCEPT ![c] = "none"]
  /\ inbound' = [inbound EXCEPT ![c] = <<>>]
  /\ slot' = [slot EXCEPT ![c] = <<>>]
  /\ host' = [host EXCEPT ![c] = <<>>]
  /\ Send(c, "bye", 0, <<>>)
  /\ UNCHANGED <<writerVars, paneVars, inbox, forwardVars, serverVars,
                 history>>

\* ClientInstruction::ForwardQueryToHost: the slot is opened, its timer starts,
\* and the query and the barrier are written to the terminal
OpenForward(c) ==
  /\ inbound[c] # <<>>
  /\ LET f == Head(inbound[c])
         asked(b) == [token |-> f.token, query |-> f.query, barrier |-> b]
     IN \/ /\ kind[c] = "terminal"
           /\ slot' = [slot EXCEPT ![c] = <<[token |-> f.token, answers |-> <<>>]>>]
           /\ host' = [host EXCEPT ![c] = @ \o <<asked(FALSE), asked(TRUE)>>]
           /\ UNCHANGED outbound
        \/ /\ kind[c] = "web"
           /\ Send(c, "reply", f.token, <<>>)
           /\ UNCHANGED <<slot, host>>
        \/ /\ kind[c] = "old"
           /\ UNCHANGED <<slot, host, outbound>>
  /\ inbound' = [inbound EXCEPT ![c] = Tail(@)]
  /\ UNCHANGED <<writerVars, paneVars, inbox, forwardVars, serverVars,
                 kind, history>>

\* StdinAnsiParser::feed: an answer is added to the slot that is open, the
\* answer to a Primary-DA request closes it; without one both are dropped
Feed(c, answer) ==
  \/ /\ slot[c] = <<>>
     /\ UNCHANGED <<slot, outbound>>
  \/ /\ slot[c] # <<>> /\ ~answer.barrier
     /\ slot' = [slot EXCEPT ![c][1].answers = Append(@, answer.query)]
     /\ UNCHANGED outbound
  \/ /\ slot[c] # <<>> /\ answer.barrier
     /\ slot' = [slot EXCEPT ![c] = <<>>]
     /\ Send(c, "reply", slot[c][1].token, slot[c][1].answers)

\* the terminal answers in order, or does not answer this at all
HostTerminal(c) ==
  /\ host[c] # <<>>
  /\ host' = [host EXCEPT ![c] = Tail(@)]
  /\ \/ Feed(c, Head(host[c]))
     \/ UNCHANGED <<slot, outbound>>
  /\ UNCHANGED <<writerVars, paneVars, inbox, forwardVars, serverVars,
                 kind, inbound, history>>

\* StdinAnsiParser::close_forward_on_timeout, 500 ms after the slot was opened.
\* A terminal that answers later than that is a surprise.
ClientTimer(c) ==
  /\ slot[c] # <<>>
  /\ LET late == \E i \in 1 .. Len(host[c]) : host[c][i].token = slot[c][1].token
     IN Surprise(late)
  /\ slot' = [slot EXCEPT ![c] = <<>>]
  /\ Send(c, "reply", slot[c][1].token, slot[c][1].answers)
  /\ UNCHANGED <<writerVars, paneVars, inbox, forwardVars, serverVars,
                 kind, inbound, host, disturbed>>

-----------------------------------------------------------------------------

WriterStep ==
  /\ HandleWrite \/ Retry
  /\ UNCHANGED <<script, printed, shown, buffered, paused, scrolled, held, inbox,
                 forwardVars, serverVars, clientVars, history>>

ScreenStep ==
  HandlePtyBytes \/ ForwardHostQuery \/ AnswerColorMode \/ HandleForwardedReply

ServerStep == ForwardQueryToHost \/ RemoveClient

User ==
  \/ \E p \in Panes : \/ Prints(p) \/ ScrollUp(p) \/ ScrollToBottom(p)
                      \/ ScrollTerminalDown(p) \/ MoveToTab(p) \/ ClosePane(p)
  \/ \E c \in Clients : ClientLeaves(c)

Next ==
  \/ User \/ ScreenStep \/ ServerStep \/ WriterStep
  \/ \E token \in timers : ServerTimer(token)
  \/ \E c \in Clients : \/ Route(c) \/ OpenForward(c) \/ HostTerminal(c)
                        \/ ClientTimer(c)

Spec == Init /\ [][Next]_vars

\* every thread and timer goes on; nobody has to print, type or leave,
\* and a program that does not read its input takes nothing from the writer
Progress ==
  /\ WF_vars(ScreenStep) /\ WF_vars(ServerStep) /\ WF_vars(WriterStep)
  /\ \A t \in Readers : WF_vars(WriterStep /\ received'[t] # received[t])
  /\ WF_vars(\E token \in timers : ServerTimer(token))
  /\ \A c \in Clients : /\ WF_vars(Route(c)) /\ WF_vars(OpenForward(c))
                        /\ WF_vars(HostTerminal(c)) /\ WF_vars(ClientTimer(c))

FairSpec == Spec /\ Progress

-----------------------------------------------------------------------------
(* Properties *)

\* the output of a pane that the Screen thread has yet to take from its channel
Output(p, message) ==
  IF message.what = "bytes" /\ message.pane = p THEN message.items ELSE <<>>
Arriving(p, messages) ==
  FlattenSeq([i \in 1 .. Len(messages) |-> Output(p, messages[i])])

\* A program reads answers to its own queries only, each at most once, and in
\* the order in which it asked: an answer that comes from the far end of the
\* session is not overtaken by those that the pane gives at once to what was
\* printed behind the query, whoever else asks, whichever client leaves,
\* and whatever the writer drops.
\* As long as terminals and clients answer within their deadlines and what a
\* scrolled pane holds back is not left behind.
AnswersInOrder ==
  ~surprised =>
    \A p \in Panes \ disturbed :
      LET s == Stream(p)
      IN /\ \A i \in 1 .. Len(s) : s[i].pane = p
         /\ \A i, j \in 1 .. Len(s) : i < j => s[i].at < s[j].at

\* Whatever the timers do, no program reads the answer to another one's query.
\* The comment on ClientInstruction::ForwardQueryToHost says that the pane that
\* asked gets the captured bytes.
OwnAnswers ==
  \A p \in Panes : \A i \in 1 .. Len(Stream(p)) : Stream(p)[i].pane = p

\* Pausing, resuming, scrolling back and forth and the limit on what a scrolled
\* pane holds back neither lose, double nor reorder a program's output.
OutputKept ==
  \A p \in open \ disturbed :
    shown[p] \o buffered[p] \o FlattenSeq(held[p]) \o Arriving(p, inbox)
      = [i \in 1 .. Len(printed[p]) |-> i]

\* No pane waits for ever behind a query, whoever fails to answer it: what its
\* program printed is shown in the end.  A program that reads its input gets
\* what was written to it, also while another one does not read.
Settles ==
  \A p \in Panes :
    /\ <>[](p \in open \ (scrolled \cup disturbed)
              => Len(shown[p]) = Len(printed[p]))
    /\ p \in Readers => <>[](p \in open => Stream(p) = received[p])
=============================================================================

----------------------------- MODULE MarketFeed -----------------------------
(***************************************************************************)
(* The market feed of the pools guards: a watcher that keeps a socket open *)
(* to a public stream (data/pumpportal), the tape of recent trades         *)
(* (data/tape), the mints it follows (data/feed) and the rug-heat reading  *)
(* the guards ask for (data/signals-engine).  Sockets outlive the          *)
(* watcher's interest in them; `gen` tells whose events still count.       *)
(***************************************************************************)
EXTENDS Units, Sequences, FiniteSets, FiniteSetsExt, SequencesExt, Filters

CONSTANTS
  Mints, Trades,   \* what the stream tells: trades [mint, buy, sol, trader]
  MaxPerMint, MaxAutoFollow,
  HeatWindow,      \* windowMs of a reading
  StaleAfter,      \* STALE_TIMEOUT_MS
  MaxGen, MaxFeedTime   \* bounds

ASSUME FeedAssumption ==
  /\ {MaxPerMint, HeatWindow} \subseteq Nat
  /\ \A t \in Trades : t.mint \in Mints /\ "ts" \in DOMAIN t

VARIABLES
  feed,       \* the watcher: started, ws, gen, timer, watchdog, last
  sockets,    \* every socket it created: gen, net and the subscriptions the server keeps
  tokenSubs,  \* #tokenSubs
  pinned, autoFollowed,
  tape,       \* mint -> trades with their time, newest last
  ftime
feedVars == <<feed, sockets, tokenSubs, pinned, autoFollowed, tape, ftime>>

NoSocket == 0
Mine(s) == feed.started /\ sockets[s].gen = feed.gen

-----------------------------------------------------------------------------
(* The watcher *)

\* #send to the current socket, if it is open: the server's new subscriptions
Told(socks, subs) ==
  IF feed.ws # NoSocket /\ socks[feed.ws].net = "open"
  THEN [socks EXCEPT ![feed.ws].subs = subs] ELSE socks

\* ws.close()
Closing(socks) ==
  IF feed.ws # NoSocket /\ socks[feed.ws].net # "closed"
  THEN [socks EXCEPT ![feed.ws].net = "closing"] ELSE socks

\* #connect: a socket, or a factory that throws and a timer
FeedConnect(f, created) ==
  /\ feed.gen < MaxGen
  /\ feed' = [f EXCEPT !.gen = @ + 1, !.timer = ~created,
                       !.ws = IF created THEN Len(sockets) + 1 ELSE @]
  /\ sockets' = IF created
                THEN Append(sockets, [gen |-> feed.gen + 1, net |-> "connecting", subs |-> {}])
                ELSE sockets

\* start
FeedStart(created) ==
  /\ ~feed.started
  /\ FeedConnect([feed EXCEPT !.started = TRUE], created)
  /\ UNCHANGED <<tokenSubs, pinned, autoFollowed, tape, ftime>>

\* stop: no timers, no socket, and a new generation before the old socket is closed
FeedStop ==
  /\ feed.started /\ feed.gen < MaxGen
  /\ feed' = [feed EXCEPT !.started = FALSE, !.timer = FALSE, !.watchdog = FALSE,
                          !.ws = NoSocket, !.gen = @ + 1]
  /\ sockets' = Closing(sockets)
  /\ UNCHANGED <<tokenSubs, pinned, autoFollowed, tape, ftime>>

\* the reconnect timer
Reconnect(created) ==
  /\ feed.timer
  /\ FeedConnect(feed, created)
  /\ UNCHANGED <<tokenSubs, pinned, autoFollowed, tape, ftime>>

\* "open": the watchdog, and every subscription again
Opens(s) ==
  /\ sockets[s].net = "connecting"
  /\ sockets' = [sockets EXCEPT ![s].net = "open", ![s].subs = IF Mine(s) THEN tokenSubs ELSE @]
  /\ feed' = IF Mine(s) THEN [feed EXCEPT !.watchdog = TRUE, !.last = ftime] ELSE feed
  /\ UNCHANGED <<tokenSubs, pinned, autoFollowed, tape, ftime>>

\* "close", by the server or in answer to close()
Closes(s) ==
  /\ sockets[s].net # "closed"
  /\ sockets' = [sockets EXCEPT ![s].net = "closed"]
  /\ feed' = IF Mine(s)
             THEN [feed EXCEPT !.watchdog = FALSE, !.timer = TRUE,
                               !.ws = IF @ = s THEN NoSocket ELSE @]
             ELSE feed
  /\ UNCHANGED <<tokenSubs, pinned, autoFollowed, tape, ftime>>

\* Fault: a socket that is given up is left to its close event, which no longer counts
GiveUpOnly ==
  /\ feed' = [feed EXCEPT !.watchdog = FALSE, !.ws = NoSocket, !.gen = @ + 1]
  /\ sockets' = Closing(sockets)

\* the watchdog gives a silent socket up and schedules the next itself
GiveUp ==
  /\ feed' = [feed EXCEPT !.watchdog = FALSE, !.ws = NoSocket, !.gen = @ + 1, !.timer = TRUE]
  /\ sockets' = Closing(sockets)

WatchdogFires ==
  /\ feed.watchdog /\ ftime - feed.last > StaleAfter /\ feed.gen < MaxGen
  /\ GiveUp
  /\ UNCHANGED <<tokenSubs, pinned, autoFollowed, tape, ftime>>

-----------------------------------------------------------------------------
(* Frames and the tape *)

\* addTrade: the oldest make room
Added(t) ==
  LET buf == Append(tape[t.mint], [t EXCEPT !.ts = ftime])
  IN  [tape EXCEPT ![t.mint] = SubSeq(buf, Max({1, Len(buf) - MaxPerMint + 1}), Len(buf))]

\* a trade; late ones of a socket that is being closed do not count
TradeFrame(s, t) ==
  /\ sockets[s].net \in {"open", "closing"} /\ t.mint \in sockets[s].subs
  /\ feed' = IF Mine(s) THEN [feed EXCEPT !.last = ftime] ELSE feed
  /\ tape' = IF Mine(s) THEN Added(t) ELSE tape
  /\ UNCHANGED <<sockets, tokenSubs, pinned, autoFollowed, ftime>>

\* A launch is followed; the oldest followed one makes room unless it is pinned by now
LaunchFrame(s, m) ==
  LET news == MaxAutoFollow > 0 /\ m \notin pinned /\ m \notin Range(autoFollowed)
      list == Append(autoFollowed, m)
      full == Len(list) > MaxAutoFollow
      subs == (tokenSubs \cup {m}) \ (IF full THEN {list[1]} \ pinned ELSE {})
  IN  /\ sockets[s].net = "open" /\ Mine(s)
      /\ feed' = [feed EXCEPT !.last = ftime]
      /\ autoFollowed' = IF ~news THEN autoFollowed ELSE IF full THEN Tail(list) ELSE list
      /\ tokenSubs' = IF news THEN subs ELSE tokenSubs
      /\ sockets' = IF news THEN Told(sockets, subs) ELSE sockets
      /\ UNCHANGED <<pinned, tape, ftime>>

\* a frame that is neither is swallowed, but the socket is alive
OtherFrame(s) ==
  /\ sockets[s].net = "open" /\ Mine(s)
  /\ feed' = [feed EXCEPT !.last = ftime]
  /\ UNCHANGED <<sockets, tokenSubs, pinned, autoFollowed, tape, ftime>>

\* watch
Watch(m) ==
  /\ m \notin pinned
  /\ pinned' = pinned \cup {m}
  /\ tokenSubs' = tokenSubs \cup {m}
  /\ sockets' = Told(sockets, tokenSubs')
  /\ UNCHANGED <<feed, autoFollowed, tape, ftime>>

FeedTick ==
  /\ ftime < MaxFeedTime
  /\ ftime' = ftime + 1
  /\ UNCHANGED <<feed, sockets, tokenSubs, pinned, autoFollowed, tape>>

FeedInit ==
  /\ feed = [started |-> FALSE, ws |-> NoSocket, gen |-> 0, timer |-> FALSE,
             watchdog |-> FALSE, last |-> 0]
  /\ sockets = <<>> /\ tokenSubs = {} /\ pinned = {} /\ autoFollowed = <<>>
  /\ tape = [m \in Mints |-> <<>>] /\ ftime = 0

FeedNext ==
  \/ \E created \in BOOLEAN : FeedStart(created) \/ Reconnect(created)
  \/ FeedStop \/ WatchdogFires \/ FeedTick
  \/ \E s \in DOMAIN sockets :
       \/ Opens(s) \/ Closes(s) \/ OtherFrame(s)
       \/ \E t \in Trades : TradeFrame(s, t)
       \/ \E m \in Mints : LaunchFrame(s, m)
  \/ \E m \in Mints : Watch(m)

FeedSpec == FeedInit /\ [][FeedNext]_feedVars

-----------------------------------------------------------------------------
(* The reading *)

Total(trades) == MapThenSumSet(LAMBDA n : trades[n].sol, DOMAIN trades)

\* signals: the trades of the window and their sums
Older(m)  == {t \in Range(tape[m]) : t.ts < ftime - HeatWindow}
Recent(m) == Without(tape[m], Older(m))
Buys(m)   == SelectSeq(Recent(m), LAMBDA t : t.buy)
Sells(m)  == SelectSeq(Recent(m), LAMBDA t : ~t.buy)
Named(trades) == {trades[n].trader : n \in DOMAIN trades} \ {""}
\* 100 times the share of a part in a whole is at least pct
AtLeast(part, whole, pct) == 100 * part >= pct * whole

\* rugHeatScore, its tells one by one
Concentration(buyers) == CASE buyers <= 1 -> 30 [] buyers \in 2..3 -> 18
                           [] buyers \in 4..6 -> 8 [] OTHER -> 0
Imbalance(buy, sell) ==
  IF buy + sell = 0 \/ AtLeast(Max({buy, sell}), buy + sell, 90) THEN 25
  ELSE IF AtLeast(Max({buy, sell}), buy + sell, 75) THEN 12 ELSE 0
Divergence(buys, sells, buy, sell) ==
  IF buys + sells >= 4 /\ AtLeast(buys, buys + sells, 60) /\ 100 * buy <= 40 * (buy + sell)
  THEN 18 ELSE 0
Dominance(trades) ==
  IF Total(trades) > 0 /\ Len(trades) >= 3
       /\ AtLeast(Max({t.sol : t \in Range(trades)}), Total(trades), 80)
  THEN 12 ELSE 0
Drain(buy, sell) ==
  IF sell <= buy THEN 0
  ELSE IF AtLeast(sell - buy, buy + sell, 60) THEN 25
  ELSE IF AtLeast(sell - buy, buy + sell, 30) THEN 12 ELSE 0
Thin(volume) == IF volume < Sol THEN 20 ELSE IF volume < 5 * Sol THEN 10 ELSE 0
Exits(buyers, sellers) == IF sellers >= 3 /\ buyers = 0 THEN 15 ELSE 0

RugHeat(m) ==
  LET b == Total(Buys(m))
      s == Total(Sells(m))
      buyers == Cardinality(Named(Buys(m)))
  IN  IF Recent(m) = <<>> THEN 60
      ELSE Min({100, Concentration(buyers) + Imbalance(b, s)
                       + Divergence(Len(Buys(m)), Len(Sells(m)), b, s) + Dominance(Recent(m))
                       + Drain(b, s) + Thin(b + s)
                       + Exits(buyers, Cardinality(Named(Sells(m))))})

-----------------------------------------------------------------------------
(* Properties *)

\* "A dead feed therefore means no curve buys" (data/pumpportal.ts:27).  While it should
\* run, something is under way that brings the feed back: a reconnect timer, or a current
\* socket that is connecting or watched; once open, it carries every followed mint, the
\* pinned ones among them, however reconnects, launches and watches interleave.  And
\* below the threshold, 60, is only a mint traded within the window.
FeedFailsSafe ==
  /\ feed.started =>
       \/ feed.timer
       \/ /\ feed.ws # NoSocket /\ Mine(feed.ws)
          /\ sockets[feed.ws].net = "connecting" \/ feed.watchdog
  /\ pinned \subseteq tokenSubs
  /\ feed.ws # NoSocket /\ sockets[feed.ws].net = "open" => sockets[feed.ws].subs = tokenSubs
  /\ \A m \in Mints : RugHeat(m) < 60 =>
       \E n \in DOMAIN tape[m] : tape[m][n].ts >= ftime - HeatWindow
=============================================================================

------------------------------- MODULE MCFeed -------------------------------
(***************************************************************************)
(* Model checking of what the spread shadow's replay kernels make of the   *)
(* public feed, side by side.  They share no state, and which tells the    *)
(* one that runs.                                                          *)
(* The episode kernel: one episode of two quotes, with a fill in two parts, *)
(* entry and exit, each of which may become ready after it happened.       *)
(* The cycle kernel: cycles one after another, and the audit of those that  *)
(* ended, with two events of the feed, trades or books.                    *)
(***************************************************************************)
EXTENDS CycleKernel

CONSTANTS Cap, MinLighter, Delay, Life, Hold, Horizon, MaxQuotes, MaxTrades, MaxBooks

VARIABLES which, c, books, time, run, sold, left

episode == <<c, books, time, run, sold, left>>

K == INSTANCE S1bEpisode WITH now <- time

\* Where the episode does not run, it has none of its values.
FeedInit ==
    /\ Init
    /\ \/ which = "cycles" /\ c = 0 /\ books = 0 /\ time = 0 /\ run = 0 /\ sold = 0 /\ left = 0
       \/ which = "episode" /\ model = "NONE" /\ K!Init

CyclesOnly == UNCHANGED <<which, episode>>
EpisodeOnly == UNCHANGED <<which, vars>>

\* One disjunct per action, so that the run counts each of them.
FeedNext ==
    \/ which = "cycles" /\ Admit /\ CyclesOnly
    \/ which = "cycles" /\ Trade /\ CyclesOnly
    \/ which = "cycles" /\ Repeat /\ CyclesOnly
    \/ which = "cycles" /\ Clock /\ CyclesOnly
    \/ which = "cycles" /\ Book /\ CyclesOnly
    \/ which = "cycles" /\ Gap /\ CyclesOnly
    \/ which = "cycles" /\ Tick /\ CyclesOnly
    \/ which = "episode" /\ K!Round /\ EpisodeOnly
    \/ which = "episode" /\ K!RunEnds /\ EpisodeOnly
    \/ which = "episode" /\ K!Clock /\ EpisodeOnly
    \/ which = "episode" /\ K!Trade /\ EpisodeOnly
    \/ which = "episode" /\ K!LighterBook /\ EpisodeOnly
    \/ which = "episode" /\ K!RisexBook /\ EpisodeOnly
    \/ which = "episode" /\ K!Lost /\ EpisodeOnly
    \/ which = "episode" /\ K!Broken /\ EpisodeOnly
    \/ which = "episode" /\ K!Admit /\ EpisodeOnly
    \/ which = "episode" /\ K!Finish /\ EpisodeOnly

FeedSpec == FeedInit /\ [][FeedNext]_<<vars, which, episode>>

\* What the replay kernels report is true.  Of an episode: a result that is
\* final without doubt leaves no position, order or reservation on either
\* venue; no fill is hedged twice and no depth bought twice; and an episode
\* with nothing due waits for something the feed can still bring.  Of a lane
\* of cycles, of those that ended long ago as of the one that runs: a final
\* result is flat, with no trade overlooked or counted in two cycles; doubt
\* about any of them stops the lane; and the kernel comes back from every
\* event it is given in order.
ReplaysAreTrue ==
    /\ which = "episode" => K!FlatIsFlat /\ K!NothingTwice /\ K!NeverStuck
    /\ which = "cycles" => LaneIsTrue
=============================================================================

------------------------------ MODULE PerfGates ------------------------------
(***************************************************************************)
(* The two regression gates a change has to pass: the CPU gate of          *)
(* tools/konfig-flamediff (flamebearer.rs, gate.rs, main.rs), which reads  *)
(* a rendered flame graph, and the latency gate of                         *)
(* tools/konfig-loadtest/src/bin/gate.rs.                                  *)
(*                                                                         *)
(* A profile is what was measured: ticks per call stack.  Its flame graph  *)
(* is a row per depth of bars [x offset, total, self, name].  Function     *)
(* names are numbers, in their alphabetical order; 0 is the root "total".  *)
(***************************************************************************)
EXTENDS Integers, Sequences, FiniteSets, SequencesExt, FiniteSetsExt

CONSTANTS
    Frames,         \* function names, 1 .. n
    Ticks,          \* ticks a stack can have
    Top,            \* frames kept by top-frames and compared by the gate
    Threshold,      \* relative increase that fails the CPU gate, in percent
    MinBase,        \* --min-base-pct, in units
    Floor           \* --new-frame-floor-pct, in units

Root == 0
Hundred == 10000    \* 100 % in the units percentages are rounded to
Scale == 10         \* nanoseconds per tick

(***************************************************************************)
(* pyroscope's rendering of a profile: children are packed from their      *)
(* parent's left edge in the order of their names, and a node with no      *)
(* ticks has no bar.                                                       *)
(***************************************************************************)
Stacks == {<<f>> : f \in Frames} \cup {<<f, g>> : f, g \in Frames}
Profiles == {p \in [Stacks -> Ticks] : \E s \in Stacks : p[s] > 0}

Under(p, node) == MapThenSumSet(LAMBDA s : p[s], {s \in Stacks : IsPrefix(node, s)})

LeftOf(p, node) ==
    LET edge(k) == MapThenSumSet(
                      LAMBDA f : Under(p, Append(SubSeq(node, 1, k - 1), f)),
                      {f \in Frames : f < node[k]})
    IN  MapThenSumSet(edge, DOMAIN node)

\* The nodes of a depth from left to right.
Row(p, depth) ==
    LET nodes == {s \in Stacks : Len(s) = depth /\ Under(p, s) > 0}
    IN  [k \in 1 .. Cardinality(nodes) |->
            CHOOSE s \in nodes : Cardinality({t \in nodes : LeftOf(p, t) <= LeftOf(p, s)}) = k]

RenderedRow(p, depth) ==
    LET row == Row(p, depth)
    IN  [k \in DOMAIN row |->
            [offset |-> LeftOf(p, row[k])
                          - (IF k = 1 THEN 0 ELSE LeftOf(p, row[k - 1]) + Under(p, row[k - 1])),
             total  |-> Under(p, row[k]),
             self   |-> p[row[k]],
             name   |-> Last(row[k])]]

Rendered(p) ==
    <<<<[offset |-> 0, total |-> Under(p, <<>>), self |-> 0, name |-> Root]>>,
      RenderedRow(p, 1), RenderedRow(p, 2)>>

(***************************************************************************)
(* flamebearer.rs.                                                         *)
(***************************************************************************)
\* The running x cursor: a bar starts after its offset and moves the cursor to its end.
BarStep(acc, b) ==
    LET x0 == acc.x + b.offset
    IN  [x |-> x0 + b.total,
         bars |-> Append(acc.bars, [x0 |-> x0, x1 |-> x0 + b.total, self |-> b.self,
                                    name |-> b.name, parent |-> 0])]

Bars(level) == FoldLeft(BarStep, [x |-> 0, bars |-> <<>>], level).bars

\* A slip: the cursor stays on a bar that ends where this one begins.
CursorLate(parents, pi, bar) ==
    Min({k \in pi .. Len(parents) + 1 : k > Len(parents) \/ parents[k].x1 >= bar.x0})

\* The forward-only parent cursor.
CursorFor(parents, pi, bar) ==
    Min({k \in pi .. Len(parents) + 1 : k > Len(parents) \/ parents[k].x1 > bar.x0})

LinkStep(parents, acc, bar) ==
    LET pi    == CursorFor(parents, acc.pi, bar)
        holds == /\ pi <= Len(parents)
                 /\ parents[pi].x0 <= bar.x0
                 /\ bar.x1 <= parents[pi].x1
    IN  [pi |-> pi, bars |-> Append(acc.bars, [bar EXCEPT !.parent = IF holds THEN pi ELSE 0])]

decode_levels(levels) ==
    LET bars == [d \in DOMAIN levels |-> Bars(levels[d])]
    IN  [d \in DOMAIN levels |->
            IF d = 1 THEN bars[1]
            ELSE FoldLeft(LAMBDA acc, bar : LinkStep(bars[d - 1], acc, bar),
                          [pi |-> 1, bars |-> <<>>], bars[d]).bars]

\* The samples of the pprof file: the stack from the leaf to the root, and its value.
to_pprof(levels) ==
    LET decoded == decode_levels(levels)
        walk[d \in DOMAIN decoded] ==
            [i \in DOMAIN decoded[d] |->
                LET bar == decoded[d][i]
                IN  <<bar.name>> \o (IF bar.parent = 0 THEN <<>> ELSE walk[d - 1][bar.parent])]
    IN  {[stack |-> walk[x[1]][x[2]], value |-> decoded[x[1]][x[2]].self * Scale] :
            x \in {y \in (DOMAIN decoded) \X (1 .. Cardinality(Stacks)) :
                      y[2] \in DOMAIN decoded[y[1]] /\ decoded[y[1]][y[2]].self > 0}}

SelfOf(levels, name) ==
    LET bars == UNION {{<<d, i>> : i \in DOMAIN levels[d]} : d \in DOMAIN levels}
    IN  MapThenSumSet(LAMBDA b : IF levels[b[1]][b[2]].name = name
                                 THEN levels[b[1]][b[2]].self ELSE 0, bars)

round4(self, total) == (2 * self * Hundred + total) \div (2 * total)

\* The names with fewer than n hotter ones, ties broken by name.
Hottest(share, n) ==
    {f \in DOMAIN share :
        Cardinality({g \in DOMAIN share :
            share[g] > share[f] \/ (share[g] = share[f] /\ g < f)}) < n}

top_frames(levels) ==
    LET total == levels[1][1].total
        self  == [f \in {g \in Frames : SelfOf(levels, g) > 0} |-> SelfOf(levels, f)]
    IN  [f \in Hottest(self, Top) |-> round4(self[f], total)]

EXIT_OK == 0
EXIT_REGRESSION == 1
EXIT_INPUT == 2

(***************************************************************************)
(* flamediff's gate.rs: regressed frames, and the exit code.               *)
(***************************************************************************)
\* A file that is missing, is not JSON or has a frame without name or share fails
\* the load, and with it the command.
load_frames(frames, readable) == IF readable THEN <<frames>> ELSE <<>>

ShareIn(frames, f) == IF f \in DOMAIN frames THEN frames[f] ELSE 0

Regressed(base, cur) ==
    IF base >= MinBase THEN (cur - base) * 100 > Threshold * base ELSE cur >= Floor

FlameRows(current, baseline) == Hottest(baseline, Top) \cup Hottest(current, Top)

cmd_gate(current, baseline) ==
    IF current = <<>> \/ baseline = <<>> THEN EXIT_INPUT
    ELSE IF \E f \in FlameRows(current[1], baseline[1]) :
               Regressed(ShareIn(baseline[1], f), ShareIn(current[1], f))
    THEN EXIT_REGRESSION ELSE EXIT_OK

(***************************************************************************)
(* The latency gate.  Files map scenarios with latencies to their p99; a   *)
(* tag is its version as numbers.  read_dir lists the tags in any order;   *)
(* an explicit --baseline is a listing of one.  The results file is good,  *)
(* malformed (text of another shape) or missing; the baselines in `broken' *)
(* cannot be loaded.                                                       *)
(***************************************************************************)
Newer(a, b) == \E k \in 1 .. 3 : a[k] > b[k] /\ \A j \in 1 .. k - 1 : a[j] = b[j]

\* The first of the newest in the listing.
newest_baseline(listing) ==
    FoldLeft(LAMBDA best, tag : IF best = <<>> \/ Newer(tag, best) THEN tag ELSE best, <<>>, listing)

LatencyRows(current, baseline) == DOMAIN baseline \cap DOMAIN current

LatencyRegressed(base, cur) == cur * 10 > base * 11

\* --update copies the text of the results file and looks no further.
LatencyGate(x) ==
    LET tag == newest_baseline(x.listing)
        slow == \E s \in LatencyRows(x.current, x.files[tag]) :
                    LatencyRegressed(x.files[tag][s], x.current[s])
    IN  CASE x.update          -> IF x.results = "missing" THEN EXIT_INPUT ELSE EXIT_OK
          [] ~x.update /\ x.results # "good" -> EXIT_INPUT
          [] ~x.update /\ x.results = "good" /\ tag = <<>> -> EXIT_OK
          [] OTHER -> IF tag \in x.broken THEN EXIT_INPUT
                      ELSE IF slow THEN EXIT_REGRESSION ELSE EXIT_OK

(***************************************************************************)
(* Inputs.                                                                 *)
(***************************************************************************)
Tags == {<<1, 9, 0>>, <<1, 10, 0>>}
Latencies(ms) == UNION {[ss -> ms] : ss \in SUBSET {"get", "subscribe"}}

LatencyCases ==
    [update : BOOLEAN, results : {"good", "malformed", "missing"},
     broken : {{}, {<<1, 10, 0>>}}, current : Latencies({10, 11, 12}),
     listing : {<<>>, <<<<1, 9, 0>>>>, <<<<1, 9, 0>>, <<1, 10, 0>>>>, <<<<1, 10, 0>>, <<1, 9, 0>>>>},
     files : [Tags -> Latencies({10})]]

\* A measured profile against a baseline from a small set, every profile as it is rendered.
Baselines ==
    {p \in Profiles : /\ p[<<1>>] = 1
                      /\ \A s \in Stacks : Len(s) = 2 => p[s] = IF s[1] = s[2] THEN 1 ELSE 0}

Measured(p) == top_frames(Rendered(p))

FlameVerdict(x) ==
    [samples |-> to_pprof(Rendered(x.current)),
     exit    |-> cmd_gate(load_frames(Measured(x.current), "current" \notin x.unreadable),
                          load_frames(Measured(x.baseline), "baseline" \notin x.unreadable))]

FlameCases ==
    [current : Profiles, baseline : Baselines, unreadable : {{}}] \cup
    [current : Baselines, baseline : Baselines, unreadable : {{"current"}, {"baseline"}}]

(***************************************************************************)
(* The latency gate fails exactly when a scenario measured on both sides   *)
(* is more than a tenth slower than in the newest baseline, whatever the   *)
(* order the directory lists them in; v1.10.0 is newer than v1.9.0.  Input *)
(* it cannot read is neither a pass nor a regression but exit code 2; only *)
(* an update takes results of any shape.                                   *)
(***************************************************************************)
GateJudgesTheNewest(x, exit) ==
    LET tags == Range(x.listing)
        tag  == IF <<1, 10, 0>> \in tags THEN <<1, 10, 0>> ELSE <<1, 9, 0>>
        slow == {s \in DOMAIN x.current : s \in DOMAIN x.files[tag]
                                            /\ 10 * x.current[s] > 11 * x.files[tag][s]}
        bad  == \/ x.results = "missing"
                \/ ~x.update /\ (x.results = "malformed" \/ tag \in tags \cap x.broken)
    IN  exit = IF bad THEN 2 ELSE IF ~x.update /\ tags # {} /\ slow # {} THEN 1 ELSE 0

(***************************************************************************)
(* The CPU gate judges the profile that was measured.  The samples rebuilt *)
(* from the rows are the measured stacks with their ticks, each bar having *)
(* found the bar it was called from; the gate fails exactly when a frame   *)
(* among the hottest of either side rose by more than the threshold, or is *)
(* hot now and was cold or not recorded; and a recorded frame whose share  *)
(* did not rise never fails it (flamebearer.rs, flamediff's gate.rs).  A   *)
(* file it cannot load never passes the gate silently: the exit code is 2. *)
(***************************************************************************)
GateJudgesTheProfile(x, v) ==
    LET share(p, f) ==
            round4(MapThenSumSet(LAMBDA s : p[s], {s \in Stacks : Last(s) = f}), Under(p, <<>>))
        shares(p) == [f \in {g \in Frames : share(p, g) > 0} |-> share(p, f)]
        kept(p)   == Hottest(shares(p), Top)
        was(f)    == IF f \in kept(x.baseline) THEN share(x.baseline, f) ELSE 0
        rose(f)   == share(x.current, f) > was(f)
        fails(f)  == /\ rose(f)
                     /\ \/ was(f) >= MinBase /\ share(x.current, f) * 100 > (100 + Threshold) * was(f)
                        \/ was(f) < MinBase /\ share(x.current, f) >= Floor
    IN  /\ v.samples = {[stack |-> Append(Reverse(s), Root), value |-> x.current[s] * Scale] :
                            s \in {t \in Stacks : x.current[t] > 0}}
        /\ v.exit = IF x.unreadable # {} THEN 2
                    ELSE IF \E f \in kept(x.current) : fails(f) THEN 1 ELSE 0
=============================================================================

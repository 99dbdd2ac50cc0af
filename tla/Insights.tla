------------------------------- MODULE Insights -------------------------------
(***************************************************************************)
(* The reports over orders.  Purchases and deliveries go on, and at any    *)
(* moment an administrator asks for a range of days: what was sold by day, *)
(* customer and product, who came back, and who bought on consecutive      *)
(* days.  Days are those of Vietnam, several hours before UTC's.  The time *)
(* is in ticks, DayLength of them a day; the units of one checkout share a *)
(* key, and midnight may come between them.                                *)
(***************************************************************************)
EXTENDS Integers, FiniteSets, FiniteSetsExt

CONSTANTS
    Sales,      \* numbers of the orders of the behaviour; 0 is an old order
    Wishes,     \* what is bought: pairs of a customer and a product
    OldWish,    \* what the old order was of
    Paid,       \* Paid[o]: totalAmount
    Off,        \* Off[o]: discountAmount
    Visits,     \* updates of Telegram that are recorded: [by, type]
    DayLength,  \* ticks of a day
    UtcOffset,  \* ticks that Vietnam is ahead
    TopLimit,   \* TOP_LIMIT: rows that the lists of best buyers have
    LastTick    \* bound of the time

VARIABLES
    tick,       \* the time
    sale,       \* sale[o]: status, keys and dates of an order
    visit       \* visit[v]: createdAt of the event, Unseen

reportVars == <<tick, sale, visit>>

ASSUME ReportConstants ==
    /\ DayLength \in Nat \ {0} /\ UtcOffset \in 0..(DayLength - 1)
    /\ TopLimit \in Nat
    /\ Wishes \subseteq Nat \X Nat /\ OldWish \in Nat \X Nat
    /\ LastTick \in Nat /\ DayLength - UtcOffset <= LastTick
    /\ Sales \subseteq Nat \ {0}
    /\ IsFiniteSet(Sales) /\ IsFiniteSet(Visits)
    /\ \A o \in Sales \cup {0} : Paid[o] \in Nat /\ Off[o] \in Nat

Unseen == -1
NoKey == <<"none", -1>>
NotSold == [status |-> "NONE", of |-> OldWish, pay |-> NoKey, group |-> NoKey,
            created |-> Unseen, deliveredAt |-> Unseen]
AllSales == Sales \cup {0}

ReportTypeOK ==
    /\ tick \in 0..LastTick /\ visit \in [Visits -> Unseen..tick]
    /\ \A o \in AllSales :
          /\ sale[o].status \in {"NONE", "PENDING", "DELIVERED", "REFUNDED"}
          /\ sale[o].created <= tick
          /\ sale[o].status # "DELIVERED" => sale[o].deliveredAt = Unseen

(* The old order has no deliveredAt, as before that field was kept.        *)
ReportInit ==
    /\ tick = DayLength - UtcOffset
    /\ sale = [o \in AllSales |->
                  IF o \in Sales THEN NotSold
                  ELSE [NotSold EXCEPT !.status = "DELIVERED", !.created = 0]]
    /\ visit = [v \in Visits |-> Unseen]

Who(o) == sale[o].of[1]
What(o) == sale[o].of[2]
Placed == {o \in AllSales : sale[o].status # "NONE"}

(* The checkouts that an order may be a later unit of.                     *)
Beginning ==
    {q \in Sales : /\ sale[q].status = "PENDING"
                   /\ sale[q].group = <<"group", q>>
                   /\ tick <= sale[q].created + 1}

(* A single order has no key; one of a checkout has that of its checkout,  *)
(* and one paid by a bank transfer also that of its request.               *)
PlaceSale(o) ==
    /\ sale[o].status = "NONE" /\ \A q \in Sales : q < o => q \in Placed
    /\ \E s \in {[NotSold EXCEPT !.of = n[1],
                                 !.group = n[2][1], !.pay = n[2][2]] :
                  n \in Wishes \X {<<NoKey, NoKey>>,
                                   <<<<"group", o>>, NoKey>>,
                                   <<<<"group", o>>, <<"request", o>>>>}}
             \cup {sale[q] : q \in Beginning} :
          sale' = [sale EXCEPT ![o] = [s EXCEPT !.status = "PENDING",
                                                !.created = tick]]
    /\ UNCHANGED <<tick, visit>>

DeliverSale(o) ==
    /\ sale[o].status = "PENDING"
    /\ sale' = [sale EXCEPT ![o].status = "DELIVERED", ![o].deliveredAt = tick]
    /\ UNCHANGED <<tick, visit>>

RefundSale(o) ==
    /\ sale[o].status = "PENDING"
    /\ sale' = [sale EXCEPT ![o].status = "REFUNDED"]
    /\ UNCHANGED <<tick, visit>>

(* recordEvent(): an update that comes again changes nothing.              *)
RecordEvent(v) ==
    /\ visit[v] = Unseen
    /\ visit' = [visit EXCEPT ![v] = tick]
    /\ UNCHANGED <<tick, sale>>

TickPasses ==
    /\ tick < LastTick /\ tick' = tick + 1
    /\ UNCHANGED <<sale, visit>>

ReportNext ==
    \/ TickPasses
    \/ \E o \in Sales : PlaceSale(o) \/ DeliverSale(o) \/ RefundSale(o)
    \/ \E v \in Visits : RecordEvent(v)

-----------------------------------------------------------------------------
(* Days.                                                                   *)

DayOf(t) == (t + UtcOffset) \div DayLength

(* Mutated: the last day of the range is left out.                         *)
DateRangeShort(from, to) == [start |-> from * DayLength - UtcOffset,
                             end |-> to * DayLength - UtcOffset]

(* insightsDateRange(): both days belong to the range.                     *)
DateRange(from, to) == [start |-> from * DayLength - UtcOffset,
                        end |-> (to + 1) * DayLength - UtcOffset]

Within(range, t) == range.start <= t /\ t < range.end

StartOfDay == DayOf(tick) * DayLength - UtcOffset

-----------------------------------------------------------------------------
(* The report of sales.                                                    *)

SaleDate(o) == IF sale[o].deliveredAt = Unseen THEN sale[o].created
               ELSE sale[o].deliveredAt

AllDelivered == {o \in AllSales : sale[o].status = "DELIVERED"}
DeliveredIn(range) == {o \in AllDelivered : Within(range, SaleDate(o))}

(* What orders are grouped by.                                             *)
PurchaseKey(o) ==
    CASE sale[o].pay # NoKey -> sale[o].pay
      [] sale[o].pay = NoKey /\ sale[o].group # NoKey -> sale[o].group
      [] OTHER -> <<"id", o>>

SumOf(f, orders) == MapThenSumSet(LAMBDA o : f[o], orders)
BuyersOf(orders) == {Who(o) : o \in orders}
By(u, orders) == {o \in orders : Who(o) = u}
PurchasesOf(orders) == Cardinality({<<Who(o), PurchaseKey(o)>> : o \in orders})

Amounts(orders) ==
    [net |-> SumOf(Paid, orders), discount |-> SumOf(Off, orders),
     gross |-> SumOf([o \in orders |-> Paid[o] + Off[o]], orders),
     orderCount |-> Cardinality(orders), purchaseCount |-> PurchasesOf(orders)]

Summary(range) ==
    LET orders == DeliveredIn(range)
        buyers == BuyersOf(orders)
    IN  [amounts |-> Amounts(orders), buyers |-> Cardinality(buyers),
         repeatBuyers |->
            Cardinality({u \in buyers : PurchasesOf(By(u, orders)) >= 2}),
         returningBuyers |->
            Cardinality({u \in buyers : \E o \in By(u, AllDelivered) :
                                            SaleDate(o) < range.start})]

(* One row for each day of the range, the days without a sale too.         *)
Timeline(from, to) ==
    [d \in from..to |-> Amounts({o \in DeliveredIn(DateRange(from, to)) :
                                    DayOf(SaleDate(o)) = d})]

CustomerTotals(range) ==
    [u \in BuyersOf(DeliveredIn(range)) |-> Amounts(By(u, DeliveredIn(range)))]

Bought(orders) == {What(o) : o \in orders}
Of(p, orders) == {o \in orders : What(o) = p}

(* A product has columns of its own; the quantity of every order is 1.     *)
ProductColumns(orders) ==
    [revenue |-> SumOf(Paid, orders), quantity |-> Cardinality(orders),
     purchaseCount |-> PurchasesOf(orders),
     buyers |-> Cardinality(BuyersOf(orders))]

ProductTotals(range) ==
    [p \in Bought(DeliveredIn(range)) |->
        ProductColumns(Of(p, DeliveredIn(range)))]

(* The rows that $sort puts before that of k: by two columns, the larger   *)
(* one first, and then by the id.                                          *)
AheadOf(rows, by, k) ==
    {j \in DOMAIN rows :
        \/ rows[j][by[1]] > rows[k][by[1]]
        \/ /\ rows[j][by[1]] = rows[k][by[1]]
           /\ rows[j][by[2]] > rows[k][by[2]]
        \/ /\ rows[j][by[1]] = rows[k][by[1]]
           /\ rows[j][by[2]] = rows[k][by[2]] /\ j < k}

(* $limit: the first TopLimit rows of them.                                *)
Leaders(rows, by) ==
    {k \in DOMAIN rows : Cardinality(AheadOf(rows, by, k)) < TopLimit}
Top(rows, by) == [k \in Leaders(rows, by) |-> rows[k]]

CustomerRows(range) == Top(CustomerTotals(range), <<"net", "purchaseCount">>)
ProductRows(range) == Top(ProductTotals(range), <<"revenue", "quantity">>)

(* The recorded events of the range.                                       *)
VisitsIn(range) ==
    {v \in Visits : visit[v] # Unseen /\ Within(range, visit[v])}

(* The first visit of a type in the range, the end of it if there is none. *)
FirstVisit(range, u, type) ==
    Min({range.end} \cup
        {visit[v] : v \in {w \in VisitsIn(range) : w.by = u /\ w.type = type}})

(* Who bought not before the visit, of those who have one.                 *)
Converted(range, u, type) ==
    LET first == FirstVisit(range, u, type)
        mine  == By(u, DeliveredIn(range))
    IN  /\ first < range.end /\ mine # {}
        /\ Max({SaleDate(o) : o \in mine}) >= first

Visitors(range) == {v.by : v \in VisitsIn(range)}

Behavior(range) ==
    LET buyers == BuyersOf(DeliveredIn(range))
    IN  [active |-> Cardinality(Visitors(range)) + Cardinality(buyers)
                    - Cardinality(Visitors(range) \cap buyers),
         viewers |-> {u \in Visitors(range) :
                         FirstVisit(range, u, "PRODUCT_VIEW") < range.end},
         viewerBuyers |-> {u \in Visitors(range) :
                              Converted(range, u, "PRODUCT_VIEW")}]

(* The dashboard: of all time, and of today.                               *)
Dashboard ==
    [revenue |-> SumOf(Paid, AllDelivered),
     today |-> SumOf(Paid, {o \in AllDelivered :
                               sale[o].deliveredAt >= StartOfDay}),
     orders |-> Cardinality(Placed), completed |-> Cardinality(AllDelivered)]
-----------------------------------------------------------------------------
(* The report of purchases on consecutive days.                            *)

RepeatGroup(o) == <<Who(o), What(o), PurchaseKey(o)>>

Totals(orders) ==
    LET done == orders \cap AllDelivered
    IN  [purchasedAt |->
            Min({LastTick + 1} \cup {sale[o].created : o \in orders}),
         delivered |-> Cardinality(done), spent |-> SumOf(Paid, done)]

(* Many orders in the range: all orders are grouped once.                  *)
Grouped ==
    [g \in {RepeatGroup(o) : o \in Placed} |->
        Totals({o \in Placed : RepeatGroup(o) = g})]

(* Mutated: the units of a checkout outside the range are not looked up.   *)
LookupInRange(range, g) ==
    {o \in Placed : Within(range, sale[o].created) /\ RepeatGroup(o) = g}

(* checkoutTotalsLookup(), by request, by checkout and by order.           *)
Lookup(range, g) ==
    {o \in Placed :
        /\ Who(o) = g[1] /\ What(o) = g[2]
        /\ \/ sale[o].pay = g[3]
           \/ sale[o].pay = NoKey /\ sale[o].group = g[3]
           \/ /\ sale[o].pay = NoKey /\ sale[o].group = NoKey
              /\ g[3] = <<"id", o>>}

(* Few of them: each checkout with an order in the range is looked up.     *)
Indexed(range) ==
    [g \in {RepeatGroup(o) :
               o \in {q \in Placed : Within(range, sale[q].created)}} |->
        Totals(Lookup(range, g))]

(* The checkouts that count: delivered, and begun in the range.            *)
Counted(groups, range) ==
    {g \in DOMAIN groups : /\ groups[g].delivered > 0
                           /\ Within(range, groups[g].purchasedAt)}

PurchaseDays(groups, range, u, p) ==
    {DayOf(groups[g].purchasedAt) :
        g \in {h \in Counted(groups, range) : h[1] = u /\ h[2] = p}}

NoStreak == [previous |-> Unseen, current |-> 0, currentFrom |-> Unseen,
             longest |-> 0, from |-> Unseen, to |-> Unseen]

(* What $reduce knows after the day d.                                     *)
NextDay(s, d) ==
    LET next == s.previous # Unseen /\ d = s.previous + 1
        long == IF next THEN s.current + 1 ELSE 1
        from == IF next THEN s.currentFrom ELSE d
    IN  [previous |-> d, current |-> long, currentFrom |-> from,
         longest |-> Max({s.longest, long}),
         from |-> IF long > s.longest THEN from ELSE s.from,
         to |-> IF long > s.longest THEN d ELSE s.to]

(* The days in their order: the last one is taken after all others.        *)
Streak(days) == MapThenFoldSet(LAMBDA d, s : NextDay(s, d), NoStreak,
                               LAMBDA d : d, LAMBDA s : Max(s), days)
-----------------------------------------------------------------------------
(* A column of the rows of a report.                                       *)
Sums(rows, f) == SumOf([k \in DOMAIN rows |-> rows[k][f]], DOMAIN rows)

(* The rows shown of n tell in a column no more than there is, and all of  *)
(* it unless the limit leaves some out.                                    *)
ListAgrees(rows, n, f, whole) ==
    /\ Cardinality(DOMAIN rows) = Min({TopLimit, n})
    /\ Sums(rows, f) <= whole
    /\ n <= TopLimit => Sums(rows, f) = whole

(* What the numbers of one range must agree with: the rows of its days, of *)
(* its best customers and products, and the ranges that it consists of.    *)
RangeAgrees(from, to) ==
    LET range == DateRange(from, to)
        orders == DeliveredIn(range)
        summary == Summary(range)
        whole == summary.amounts
        days  == Timeline(from, to)
        people == CustomerRows(range)
        goods == ProductRows(range)
        kinds == Cardinality(Bought(orders))
    IN  /\ whole.gross = whole.net + whole.discount
        /\ \A f \in {"net", "gross", "orderCount"} : Sums(days, f) = whole[f]
        /\ Sums(days, "purchaseCount") >= whole.purchaseCount
        /\ \A f \in {"net", "gross", "orderCount", "purchaseCount"} :
              ListAgrees(people, summary.buyers, f, whole[f])
        /\ ListAgrees(goods, kinds, "revenue", whole.net)
        /\ ListAgrees(goods, kinds, "quantity", whole.orderCount)
        /\ \A u \in BuyersOf(orders) \ DOMAIN people, w \in DOMAIN people :
              Amounts(By(u, orders)).net <= people[w].net
        /\ \A mid \in from..(to - 1) :
              whole.net = Amounts(DeliveredIn(DateRange(from, mid))).net
                          + Amounts(DeliveredIn(DateRange(mid + 1, to))).net

BehaviorAgrees(range) ==
    LET b == Behavior(range)
        buyers == BuyersOf(DeliveredIn(range))
    IN  /\ b.active = Cardinality(Visitors(range) \cup buyers)
        /\ b.viewerBuyers =
              {u \in b.viewers :
                  \E v \in VisitsIn(range), o \in DeliveredIn(range) :
                     /\ v.by = u /\ v.type = "PRODUCT_VIEW" /\ Who(o) = u
                     /\ visit[v] <= SaleDate(o)}

(* The longest run of days, and the first one that is so long.             *)
LongestRun(days) ==
    LET runs == {r \in days \X days :
                    r[1] <= r[2] /\ r[1]..r[2] \subseteq days}
        best == Max({0} \cup {r[2] - r[1] + 1 : r \in runs})
    IN  [longest |-> best,
         from |-> Min({LastTick} \cup {r[1] : r \in {q \in runs :
                                           q[2] - q[1] + 1 = best}})]

RepeatAgrees(range) ==
    LET few  == Indexed(range)
        many == Grouped
    IN  /\ Counted(few, range) = Counted(many, range)
        /\ \A g \in Counted(few, range) : few[g] = many[g]
        /\ \A wish \in {sale[o].of : o \in Placed} :
              LET days   == PurchaseDays(few, range, wish[1], wish[2])
                  streak == Streak(days)
                  run    == LongestRun(days)
              IN  days # {} => /\ streak.longest = run.longest
                               /\ streak.from = run.from

(* The reports of every range agree with each other and the dashboard.     *)
EveryRangeAgrees ==
    LET last == DayOf(LastTick)
        all  == DateRange(0, last)
        total == Summary(all).amounts
    IN  /\ \A from, to \in 0..last : from <= to =>
              /\ RangeAgrees(from, to)
              /\ BehaviorAgrees(DateRange(from, to))
              /\ RepeatAgrees(DateRange(from, to))
        /\ Dashboard.revenue = total.net
        /\ Dashboard.today =
              Amounts(DeliveredIn(DateRange(DayOf(tick), DayOf(tick)))).net
        /\ Dashboard.completed = total.orderCount
        /\ Cardinality(Counted(Grouped, all)) = total.purchaseCount
=============================================================================

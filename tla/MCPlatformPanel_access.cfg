SPECIFICATION Spec
CONSTANTS
    Restaurants = {r1}
    Requests = {q1, q2}
    TTL = 2
    Slack = 1
    Limit = 1
    Window = 1
    GateFaults = {"redis", "resend"}
    Tabs = {tab}
    Clicks = "alone"
    PanelFaults = {"fails"}
SYMMETRY Symmetry
INVARIANTS StaleAtMost PanelIsTrue CounterHasEnd
PROPERTIES SuspensionStands

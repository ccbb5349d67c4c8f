\* Ticks of 100 ms with keepaliveSec = 2: PINGREQ after 1.4 s, watchdog after
\* 3 s, poll() capped at 1 s; the back-off runs from 0.3 s to 1.2 s.
CONSTANTS
    Threshold = 14
    Keepalive = 20
    Watchdog = 30
    PollCap = 10
    MaxRtt = 5
    ReconnectBase = 3
    ReconnectMax = 12
    Jitters = {0, 30}
SPECIFICATION ClockSpec
INVARIANT UnheardIsDetected

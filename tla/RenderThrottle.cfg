SPECIFICATION TimedSpec
CONSTANT RENDER_THROTTLE = 16
INVARIANTS CatchesUp
PROPERTY MinInterval

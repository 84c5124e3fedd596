\* A device that stays up, three queues that stay and can be full.
SPECIFICATION FairSpec
CONSTANTS
    default = default
    voice = voice
    video = video
    Names = {default, voice, video}
    Default = default
    Initial <- ThreeQueues
    MaxAdds = 0
    Inputs = {i1}
    Cancellable = {}
    Worker = worker
    MapKeys <- HashOrder
    Capacity <- SmallQueues
    Red = {}
    Configurable = {}
    WorkQSize = 4
    MaxPackets = 4
    NoPacket = NoPacket
    Free = Free
    Dead = Dead
INVARIANT BoundedBypass
PROPERTY Forwarded
